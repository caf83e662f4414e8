---------------------------- MODULE ConfigManager ----------------------------
(***************************************************************************)
(* The config manager of kanatad (configmgr.rs) and the live spawn target  *)
(* it shares with the supervisor (config.rs).  A request validates a .kbd  *)
(* file (path safety, then `kanata --check`), copies it to backups/ as the *)
(* last-known-good, points the target at it, and asks for a restart; the   *)
(* supervisor reads the target at each spawn and checks it once more.      *)
(* Requests of several clients run side by side on their own tasks, the    *)
(* user edits files at any time, and kanata is restarted for reasons of    *)
(* its own too (a hotplug, a wake, a crash).                               *)
(*                                                                         *)
(* The supervisor is reduced to what it does with the target;              *)
(* Supervisor.tla has the rest.  Presets are fixed here; PresetStore.tla   *)
(* is about how they change.                                               *)
(***************************************************************************)
EXTENDS Naturals

CONSTANTS
  None,            \* the absent value of an Option
  UserFile,        \* .kbd files of the user
  Preset,          \* names of presets
  Definition,      \* Definition[p]: config file, binary and arguments of p
  Binary,          \* kanata binaries
  DefaultBinary,   \* the daemon's default among them
  NoBinary,        \* kanata_bin = "", which means the default
  Arguments,       \* lists of extra arguments
  NoArguments,     \* the empty one
  Text,            \* what a file can hold
  SafeText,        \* the built-in passthrough config
  Truncated,       \* nothing: a file cut to length zero
  Accepts,         \* <<binary, arguments, text>> that kanata accepts
  Client,          \* connections with a request in progress
  Requests,        \* the requests they make, among those of Request
  Edits,           \* what the user may write to a file at any time
  Chmods,          \* whether the user may change who can write a file
  RestartCap,      \* capacity of the supervisor's command channel
  Respawns         \* whether kanata is restarted for reasons of its own

Request == {"Apply", "Switch", "Rollback", "Safe"}

ASSUME ConfigAssumption ==
  /\ None \notin Preset \cup Binary \cup {NoBinary} \cup Arguments
  /\ DefaultBinary \in Binary /\ NoBinary \notin Binary
  /\ NoArguments \in Arguments
  /\ {SafeText, Truncated} \subseteq Text
  /\ Definition \in [Preset ->
       [config : UserFile, bin : Binary \cup {NoBinary, None}, args : Arguments]]
  /\ Accepts \subseteq Binary \X Arguments \X (Text \ {Truncated})
  /\ <<DefaultBinary, NoArguments, SafeText>> \in Accepts
  /\ Requests \subseteq Request
  /\ Edits \subseteq Text
  /\ RestartCap \in Nat \ {0}
  /\ {Chmods, Respawns} \subseteq BOOLEAN

(* The paths: the user's files, the safe config, and one backup for each   *)
(* preset and one ("applied") for configs applied without a preset.        *)
User(f) == <<"user", f>>
SafeFile == <<"safe", None>>
Backup(preset) == <<"backup", preset>>

Path ==
  {User(f) : f \in UserFile} \cup {SafeFile}
    \cup {Backup(p) : p \in Preset \cup {None}}

VARIABLES
  text,       \* what each file holds, or None if there is no such file
  loose,      \* the files that others can write, which path safety refuses
  active,     \* ActiveConfig: the target to spawn next, preset and backup
  client,     \* the request in progress on each connection
  restarts,   \* Restart commands queued for the supervisor
  spawner,    \* the supervisor: where it is, and the target it spawns
  running,    \* the target kanata was spawned with, or None
  raced       \* ghost: a file was edited between its check and the spawn

config == <<text, loose, active, client, restarts, spawner, running, raced>>

Target == [cfg : Path, bin : Binary \cup {NoBinary}, args : Arguments,
           vetted : BOOLEAN]
ASSUME TargetAssumption == None \notin Target

Active == [target : Target, preset : Preset \cup {None},
           backup : Path \cup {None}]

Job == [at : {"Idle", "Checking", "BackingUp", "Activating", "Pointing",
              "Sending"},
        what : Request, path : Path, preset : Preset \cup {None},
        bin : Binary \cup {NoBinary, None}, args : Arguments \cup {None}]

ConfigTypeOK ==
  /\ text \in [Path -> Text \cup {None}]
  /\ loose \in SUBSET Path
  /\ active \in Active
  /\ client \in [Client -> Job]
  /\ restarts \in 0..RestartCap
  /\ spawner \in [at : {"Idle", "Stopping", "Spawning"}, target : Target]
  /\ running \in Target \cup {None}
  /\ raced \in BOOLEAN

-----------------------------------------------------------------------------
(* Path safety of a file, and `kanata --check`.                            *)
Vetted(path) == text[path] # None /\ path \notin loose

Checked(bin, args, path) == <<bin, args, text[path]>> \in Accepts

(* The binary a config is checked with.                                    *)
ResolveBin(bin) == IF bin \in {None, NoBinary} THEN DefaultBinary ELSE bin

IdleJob == [at |-> "Idle", what |-> "Safe", path |-> SafeFile, preset |-> None,
            bin |-> None, args |-> None]

(* The daemon runs its safe config, and the user's files are in order.     *)
ConfigInit ==
  LET target == [cfg |-> SafeFile, bin |-> DefaultBinary, args |-> NoArguments,
                 vetted |-> FALSE]
  IN  /\ \E t \in [UserFile -> Text \ {Truncated}] :
           text = [path \in Path |->
                     IF \E f \in UserFile : path = User(f)
                     THEN t[CHOOSE f \in UserFile : path = User(f)]
                     ELSE IF path = SafeFile THEN SafeText ELSE None]
      /\ loose = {}
      /\ active = [target |-> target, preset |-> None, backup |-> None]
      /\ client = [c \in Client |-> IdleJob]
      /\ restarts = 0
      /\ spawner = [at |-> "Idle", target |-> target]
      /\ running = target
      /\ raced = FALSE

-----------------------------------------------------------------------------
(* Requests.  A refused one changes nothing, so only the others are here.  *)

Starts(c, what) == what \in Requests /\ client[c].at = "Idle"

Validate(c, what, path, preset, bin, args) ==
  client' = [client EXCEPT ![c] =
    [at |-> "Checking", what |-> what, path |-> path, preset |-> preset,
     bin |-> bin, args |-> args]]

ApplyPath(c) ==
  /\ Starts(c, "Apply")
  /\ \E f \in UserFile :
       /\ Vetted(User(f))
       /\ Validate(c, "Apply", User(f), None, None, None)
  /\ UNCHANGED <<text, loose, active, restarts, spawner, running, raced>>

SwitchPreset(c) ==
  /\ Starts(c, "Switch")
  /\ \E p \in Preset :
       LET def == Definition[p]
       IN  /\ Vetted(User(def.config))
           /\ Validate(c, "Switch", User(def.config), p, def.bin, def.args)
  /\ UNCHANGED <<text, loose, active, restarts, spawner, running, raced>>

Ends(c) == client' = [client EXCEPT ![c] = IdleJob]

(* The safe config is written before it is validated.  On a full disk the  *)
(* write may cut it short, and the request fails.                          *)
ValidateSafeConfig(c) ==
  \/ /\ text' = [text EXCEPT ![SafeFile] = SafeText]
     /\ Validate(c, "Safe", SafeFile, None, None, None)
  \/ /\ \E left \in {text[SafeFile], Truncated} :
          text' = [text EXCEPT ![SafeFile] = left]
     /\ Ends(c)

ApplySafeConfig(c) ==
  /\ Starts(c, "Safe")
  /\ ValidateSafeConfig(c)
  /\ UNCHANGED <<loose, active, restarts, spawner, running, raced>>

BackupFit == active.backup # None /\ Vetted(active.backup)

RollbackToBackup(c) ==
  /\ Starts(c, "Rollback")
  /\ BackupFit
  /\ Validate(c, "Rollback", active.backup, None, None, None)
  /\ UNCHANGED <<text, loose, active, restarts, spawner, running, raced>>

RollbackToSafe(c) ==
  /\ Starts(c, "Rollback")
  /\ ~BackupFit
  /\ ValidateSafeConfig(c)
  /\ UNCHANGED <<loose, active, restarts, spawner, running, raced>>

At(c, place) == client[c].at = place

Goes(c, place) == client' = [client EXCEPT ![c].at = place]

CheckPasses(c) ==
  /\ At(c, "Checking")
  /\ Checked(ResolveBin(client[c].bin), NoArguments, client[c].path)
  /\ Goes(c, "BackingUp")
  /\ UNCHANGED <<text, loose, active, restarts, spawner, running, raced>>

(* A refusal ends the request, except that a rollback falls back to the    *)
(* safe config.                                                            *)
CheckFails(c) ==
  /\ At(c, "Checking")
  /\ ~Checked(ResolveBin(client[c].bin), NoArguments, client[c].path)
  /\ \/ client[c].what = "Rollback" /\ ValidateSafeConfig(c)
     \/ client[c].what # "Rollback" /\ Ends(c) /\ UNCHANGED text
  /\ UNCHANGED <<loose, active, restarts, spawner, running, raced>>

(* commit(), one step for each thing another thread can see.  fs::copy     *)
(* truncates its destination first, so a file copied onto itself is lost.  *)
Copied(from, to) == IF from = to THEN Truncated ELSE text[from]

BackUp(c) ==
  /\ At(c, "BackingUp")
  /\ LET job == client[c]
     IN  text' = [text EXCEPT ![Backup(job.preset)] =
                    Copied(job.path, Backup(job.preset))]
  /\ Goes(c, "Activating")
  /\ UNCHANGED <<loose, active, restarts, spawner, running, raced>>

(* A disk that is full: the backup may be cut short, the request fails.    *)
BackUpFails(c) ==
  /\ At(c, "BackingUp")
  /\ \E left \in {text[Backup(client[c].preset)], Truncated} :
       text' = [text EXCEPT ![Backup(client[c].preset)] = left]
  /\ Ends(c)
  /\ UNCHANGED <<loose, active, restarts, spawner, running, raced>>

(* An absent binary or argument list leaves what is there.                 *)
SetTarget(target, job) ==
  [target EXCEPT !.cfg = job.path,
                 !.bin = IF job.bin # None THEN job.bin ELSE @,
                 !.args = IF job.args # None THEN job.args ELSE @,
                 !.vetted = TRUE]

(* set_active, under one lock.  (The variant leaves the binary alone.)     *)
ActivateConfigOnly(c) ==
  /\ At(c, "Activating")
  /\ LET job == [client[c] EXCEPT !.bin = None]
     IN  active' = [active EXCEPT !.target = SetTarget(@, job),
                                  !.preset = job.preset]
  /\ Goes(c, "Pointing")
  /\ UNCHANGED <<text, loose, restarts, spawner, running, raced>>

Activate(c) ==
  /\ At(c, "Activating")
  /\ LET job == client[c]
     IN  active' = [active EXCEPT !.target = SetTarget(@, job),
                                  !.preset = job.preset]
  /\ Goes(c, "Pointing")
  /\ UNCHANGED <<text, loose, restarts, spawner, running, raced>>

PointWithoutRestart(c) ==
  /\ At(c, "Pointing")
  /\ active' = [active EXCEPT !.backup = Backup(client[c].preset)]
  /\ Ends(c)
  /\ UNCHANGED <<text, loose, restarts, spawner, running, raced>>

PointToApplied(c) ==
  /\ At(c, "Pointing")
  /\ active' = [active EXCEPT !.backup = Backup(None)]
  /\ Goes(c, "Sending")
  /\ UNCHANGED <<text, loose, restarts, spawner, running, raced>>

(* set_last_known_good, under a lock of its own.  (The variants forget the *)
(* restart, or the preset.)                                                *)
Point(c) ==
  /\ At(c, "Pointing")
  /\ active' = [active EXCEPT !.backup = Backup(client[c].preset)]
  /\ Goes(c, "Sending")
  /\ UNCHANGED <<text, loose, restarts, spawner, running, raced>>

SendRestart(c) ==
  /\ At(c, "Sending")
  /\ restarts < RestartCap
  /\ restarts' = restarts + 1
  /\ Ends(c)
  /\ UNCHANGED <<text, loose, active, spawner, running, raced>>

-----------------------------------------------------------------------------
(* The supervisor: stop the child, read the target, check it, spawn it.    *)

StopChild ==
  /\ running' = None
  /\ spawner' = [spawner EXCEPT !.at = "Stopping"]
  /\ UNCHANGED <<text, loose, active, client, raced>>

HandleRestart ==
  /\ spawner.at = "Idle"
  /\ restarts > 0
  /\ restarts' = restarts - 1
  /\ StopChild

(* A hotplug, a wake, or a crash and its backoff.                          *)
Respawn ==
  /\ Respawns
  /\ spawner.at = "Idle"
  /\ running # None
  /\ StopChild
  /\ UNCHANGED restarts

ReadTarget ==
  /\ spawner.at = "Stopping"
  /\ spawner' = [at |-> "Spawning", target |-> active.target]
  /\ UNCHANGED <<text, loose, active, client, restarts, running, raced>>

Spawn ==
  /\ spawner.at = "Spawning"
  /\ LET target == spawner.target
         fit == /\ target.vetted => Vetted(target.cfg)
                /\ Checked(target.bin, target.args, target.cfg)
     IN  running' = IF fit THEN target ELSE None
  /\ spawner' = [spawner EXCEPT !.at = "Idle"]
  /\ UNCHANGED <<text, loose, active, client, restarts, raced>>

-----------------------------------------------------------------------------
(* The user edits a file, or changes who can write it.  While a restart is *)
(* under way, an edit of the file it is for goes unnoticed until the spawn *)
(* refuses it.                                                             *)
UnderWay ==
  (\E c \in Client : client[c].at # "Idle") \/ restarts > 0 \/ spawner.at # "Idle"

InFlight(path) ==
  /\ UnderWay
  /\ path \in {active.target.cfg, spawner.target.cfg}
               \cup {client[c].path : c \in Client}

Edit ==
  \E f \in UserFile, t \in Edits :
    /\ text[User(f)] # t
    /\ text' = [text EXCEPT ![User(f)] = t]
    /\ raced' = (raced \/ InFlight(User(f)))
    /\ UNCHANGED <<loose, active, client, restarts, spawner, running>>

Chmod ==
  \E f \in UserFile :
    /\ Chmods
    /\ loose' = IF User(f) \in loose THEN loose \ {User(f)} ELSE loose \cup {User(f)}
    /\ raced' = (raced \/ InFlight(User(f)))
    /\ UNCHANGED <<text, active, client, restarts, spawner, running>>

Serve(c) ==
  \/ ApplyPath(c) \/ SwitchPreset(c) \/ ApplySafeConfig(c)
  \/ RollbackToBackup(c) \/ RollbackToSafe(c)
  \/ CheckPasses(c) \/ CheckFails(c)
  \/ BackUp(c) \/ BackUpFails(c) \/ Activate(c) \/ Point(c) \/ SendRestart(c)

ConfigNext ==
  \/ \E c \in Client : Serve(c)
  \/ HandleRestart \/ Respawn \/ ReadTarget \/ Spawn
  \/ Edit \/ Chmod

ConfigSpec == ConfigInit /\ [][ConfigNext]_config
-----------------------------------------------------------------------------
Settled == ~UnderWay

(* When all requests have been carried out, kanata runs what GetStatus and *)
(* ListPresets call active, whoever else was switching at the time: file,  *)
(* binary and arguments of the same request.                               *)
RunsWhatIsActive == Settled => running \in {active.target, None}

(* A rollback goes back to the config that is active, not to another one:  *)
(* the last-known-good is of the preset it was committed with.  (Refuted   *)
(* for two clients: set_active and set_last_known_good lock one by one.)   *)
BackupOfActive ==
  Settled => active.backup \in {None, Backup(active.preset)}

(* "A bad config can never take the keyboard down": once the dust settles  *)
(* kanata runs, unless a file was edited after its check.                  *)
KeyboardStaysUp == Settled => running # None \/ raced
=============================================================================
