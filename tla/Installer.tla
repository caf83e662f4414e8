------------------------------- MODULE Installer -------------------------------
(***************************************************************************)
(* kanatactl install and uninstall (kanatactl/install.rs) against launchd  *)
(* and the running daemon of DaemonLife.tla.  A command is the sequence of *)
(* its steps; the first that fails ends it and leaves the rest undone, and *)
(* between two steps launchd, the daemon and its kanata go on.  A file is  *)
(* known by the release that wrote it.                                     *)
(***************************************************************************)
EXTENDS DaemonLife, Sequences

CONSTANTS
  Line,         \* the release that each command of a behaviour would install
  Parts,        \* the parts that commands are given for
  Attempts      \* launchctl bootstrap is tried so often (10 in the code)

ASSUME InstallAssumption ==
  /\ Line \in Seq(Release)
  /\ Parts \subseteq {"daemon", "agent", "both"}
  /\ Attempts \in Nat \ {0}
  /\ Release \cap {"stranger", "remains"} = {}
  /\ None \notin {"tray", "bundle", "stranger", "remains"}

VARIABLES
  disk,       \* the release that wrote each path, or None
  program,    \* the tray the agent's plist names
  jobs,       \* launchd's other jobs: the release each runs, or None
  command,    \* the command being run or the last one
  todo,       \* its remaining steps
  attempt,    \* bootstrap attempts of the current step
  result,     \* "none", "running", "done" or "failed"
  kept,       \* history: jobs that this uninstall could not boot out
  found,      \* history: who managed the VHID daemon when an install looked
  commands    \* commands so far

installVars == <<disk, program, jobs, command, todo, attempt,
                 result, kept, found, commands>>
systemVars == <<lifeVars, installVars>>

Path ==
  {"kanatad", "kanatactl", "tray", "bundle", "daemonPlist", "agentPlist",
   "vhiddPlist", "completions", "logs", "support"}

(* At the bundle's path there may be an app that is not ours, or what a    *)
(* removal that failed has left of ours, its Info.plist and its tray gone. *)
Content == Release \cup {None, "stranger", "remains"}

Management == {"ours", "other", "unmanaged", "unreadable"}

Command ==
  [verb : {"install", "uninstall"}, part : {"daemon", "agent", "both"},
   release : Release \cup {None}, pkg : BOOLEAN]

InstallTypeOK ==
  /\ LifeTypeOK
  /\ disk \in [Path -> Content]
  /\ program \in {"tray", "bundle", None}
  /\ jobs \in [{"vhidd", "agent"} -> Content]
  /\ command \in Command \cup {None}
  /\ attempt \in 0..Attempts
  /\ result \in {"none", "running", "done", "failed"}
  /\ kept \subseteq {"daemon", "vhidd", "agent"}
  /\ found \in [rival : BOOLEAN, management : Management] \cup {None}
  /\ commands \in 0..Len(Line)
  /\ result # "running" => todo = <<>>

InstallInit ==
  /\ LifeInit
  /\ \E app \in {None, "stranger"} :
       disk = [f \in Path |-> IF f = "bundle" THEN app ELSE None]
  /\ program = None
  /\ jobs = [j \in {"vhidd", "agent"} |-> None]
  /\ command = None
  /\ todo = <<>>
  /\ attempt = 0
  /\ result = "none"
  /\ kept = {}
  /\ found = None
  /\ commands = 0

-----------------------------------------------------------------------------
(* The steps of each command.                                              *)

Step(do, what) == [do |-> do, what |-> what]

Steps(do, paths) == [i \in DOMAIN paths |-> Step(do, paths[i])]

InstallDaemonPart ==
  Steps("copy", <<"kanatad", "kanatactl">>)
    \o Steps("write", <<"logs", "daemonPlist">>)
    \o <<Step("bootout", "daemon"), Step("bootstrap", "daemon"),
         Step("classify", "vhidd"), Step("write", "vhiddPlist"),
         Step("bootout", "vhidd"), Step("bootstrap", "vhidd")>>

InstallAgentPart ==
  <<Step("tray", "tray"), Step("write", "agentPlist"),
    Step("bootout", "agent"), Step("bootstrap", "agent")>>

(* (The variant forgets the completions.) *)
UninstallForgets ==
  <<Step("bootout", "daemon"), Step("bootout", "vhidd")>>
    \o Steps("remove", <<"vhiddPlist", "daemonPlist", "kanatad", "kanatactl",
                         "socket", "support", "logs">>)

UninstallDaemonPart ==
  <<Step("bootout", "daemon"), Step("bootout", "vhidd")>>
    \o Steps("remove", <<"vhiddPlist", "daemonPlist", "kanatad", "kanatactl",
                         "socket", "support", "logs", "completions">>)

UninstallAgentPart ==
  <<Step("bootout", "agent")>>
    \o Steps("remove", <<"agentPlist", "tray", "bundle">>)

Sequel(c) ==
  LET both(daemonPart, agentPart) ==
        (IF c.part = "agent" THEN <<>> ELSE daemonPart)
          \o (IF c.part = "daemon" THEN <<>> ELSE agentPart)
  IN  IF c.verb = "install"
      THEN both(InstallDaemonPart, InstallAgentPart)
             \o (IF c.part = "agent" THEN <<>> ELSE <<Step("complete", "completions")>>)
      ELSE both(UninstallDaemonPart, UninstallAgentPart)

(* A pkg has laid down the payload of its release before its postinstall   *)
(* runs kanatactl.                                                         *)
Begins(c) ==
  /\ todo = <<>>
  /\ commands < Len(Line)
  /\ c.part \in Parts
  /\ c.release = IF c.verb = "install" THEN Line[commands + 1] ELSE None
  /\ c.pkg => c.verb = "install" /\ c.part = "both"
  /\ c.pkg => disk["bundle"] # "stranger"
  /\ command' = c
  /\ todo' = Sequel(c)
  /\ result' = "running"
  /\ kept' = {}
  /\ found' = None
  /\ commands' = commands + 1
  /\ disk' = IF c.pkg
             THEN [f \in Path |-> IF f \in {"kanatad", "kanatactl", "bundle"}
                                  THEN c.release ELSE disk[f]]
             ELSE disk
  /\ UNCHANGED <<lifeVars, program, jobs, attempt>>

-----------------------------------------------------------------------------
Does(do) == todo # <<>> /\ Head(todo).do = do
What == Head(todo).what

Loaded(j) ==
  \/ j = "daemon" /\ job # "out"
  \/ j \in DOMAIN jobs /\ jobs[j] # None

Continues(rest) ==
  /\ todo' = rest
  /\ result' = IF rest = <<>> THEN "done" ELSE "running"
  /\ attempt' = 0
  /\ UNCHANGED <<command, commands>>

Done == Continues(Tail(todo))

GivesUp ==
  /\ todo' = <<>>
  /\ result' = "failed"
  /\ command' = None
  /\ attempt' = 0
  /\ found' = None
  /\ UNCHANGED <<kept, commands>>

(* With a bundle the agent runs from it and a bare tray of an earlier      *)
(* tarball goes; otherwise the bare tray is copied.                        *)
OurBundle == disk["bundle"] \in Release

(* The path that install_binary unlinks before it copies to it.            *)
Unlinked ==
  CASE Does("copy") /\ ~command.pkg -> What
    [] Does("tray") -> "tray"
    [] OTHER -> None

(* Any step can fail: the disk, a missing sibling, a home that is gone.  A *)
(* copy that fails may have unlinked the old file (one cut short counts as *)
(* none), a directory that cannot be removed may have lost its files.      *)
Fails ==
  /\ todo # <<>>
  /\ Head(todo).do \notin {"bootout", "complete"}
  /\ GivesUp
  /\ disk' \in {disk}
       \cup {[disk EXCEPT ![f] = None] : f \in {Unlinked} \ {None}}
       \cup {[disk EXCEPT !["bundle"] = "remains"] :
              f \in IF Does("remove") /\ What = "bundle" /\ OurBundle
                    THEN {What} ELSE {}}
  /\ record' \in IF Does("remove") /\ What = "support" THEN {record, None} ELSE {record}
  /\ UNCHANGED <<job, process, running, faults, program, jobs>>

(* The old file is unlinked first, so that a process goes on running what  *)
(* it was started from; a binary that is already in place stays.           *)
Copy ==
  /\ Does("copy")
  /\ disk' = IF command.pkg THEN disk ELSE [disk EXCEPT ![What] = command.release]
  /\ Done
  /\ UNCHANGED <<lifeVars, program, jobs, kept, found>>

PlaceTray ==
  /\ Does("tray")
  /\ disk' = [disk EXCEPT !["tray"] = IF OurBundle THEN None ELSE command.release]
  /\ Done
  /\ UNCHANGED <<lifeVars, program, jobs, kept, found>>

Write ==
  /\ Does("write")
  /\ disk' = [disk EXCEPT ![What] = command.release]
  /\ program' = IF What = "agentPlist"
                THEN IF OurBundle THEN "bundle" ELSE "tray"
                ELSE program
  /\ Done
  /\ UNCHANGED <<lifeVars, jobs, kept, found>>

(* The completions come after install() and their failure is a warning.    *)
Complete ==
  /\ Does("complete")
  /\ disk' \in {disk, [disk EXCEPT ![What] = command.release]}
  /\ Done
  /\ UNCHANGED <<lifeVars, program, jobs, kept, found>>

(* install_vhidd_daemon: our own label wins, then that of a rival, which   *)
(* is Karabiner-Elements' job, and nothing is registered without the       *)
(* driver.  A list that launchctl does not give reads as an empty one.     *)
(* The user may have installed or removed the driver and the rival.        *)
Manager(rival) ==
  IF jobs["vhidd"] # None THEN "ours" ELSE IF rival THEN "other" ELSE "unmanaged"

(* (The variant asks for no more than the driver.)                         *)
DriverSuffices(driver, management) == driver

ShouldInstallVhidd(driver, management) == driver /\ management # "other"

Classify ==
  /\ Does("classify")
  /\ \E driver, rival \in BOOLEAN :
       \E management \in {Manager(rival), "unreadable"} :
         IF ShouldInstallVhidd(driver, management)
         THEN /\ Continues(Tail(todo))
              /\ found' = [rival |-> rival, management |-> management]
         ELSE /\ Continues(SubSeq(todo, 5, Len(todo)))
              /\ UNCHANGED found
  /\ UNCHANGED <<lifeVars, disk, program, jobs, kept>>

(* The daemon's bootout returns before the daemon is gone.                 *)
BootsOut ==
  /\ Does("bootout")
  /\ IF What = "daemon"
     THEN BootOut /\ UNCHANGED jobs
     ELSE jobs' = [jobs EXCEPT ![What] = None] /\ UNCHANGED lifeVars
  /\ Done
  /\ UNCHANGED <<disk, program, kept, found>>

(* Every bootout is best effort: one that fails changes nothing, and the   *)
(* command goes on.                                                        *)
BootOutFails ==
  /\ Does("bootout") /\ Loaded(What)
  /\ Done
  /\ kept' = IF command.verb = "uninstall" THEN kept \cup {What} ELSE kept
  /\ UNCHANGED <<lifeVars, disk, program, jobs, found>>

(* bootstrap fails while the job is loaded or drains, and is tried again.  *)
Bootstraps ==
  /\ Does("bootstrap")
  /\ IF What = "daemon"
     THEN BootStrap /\ UNCHANGED jobs
     ELSE /\ jobs[What] = None
          /\ jobs' = [jobs EXCEPT ![What] =
                        IF What = "vhidd" \/ program = None THEN command.release
                        ELSE disk[program]]
          /\ UNCHANGED lifeVars
  /\ Done
  /\ found' = None
  /\ UNCHANGED <<disk, program, kept>>

(* (In the variant "already loaded" counts as success.)                    *)
LoadedIsFine ==
  /\ Does("bootstrap") /\ Loaded(What)
  /\ Done
  /\ UNCHANGED <<lifeVars, disk, program, jobs, kept, found>>

BootstrapAgain ==
  /\ Does("bootstrap") /\ Loaded(What)
  /\ IF attempt + 1 < Attempts
     THEN /\ attempt' = attempt + 1
          /\ UNCHANGED <<todo, result, command, kept, found, commands>>
     ELSE GivesUp
  /\ UNCHANGED <<lifeVars, disk, program, jobs>>

(* remove_path takes what is there; at the bundle's path only what an      *)
(* Info.plist shows to be ours.  (The socket is not followed.)             *)
Remove ==
  /\ Does("remove")
  /\ disk' = IF What = "socket" \/ (What = "bundle" /\ ~OurBundle) THEN disk
             ELSE [disk EXCEPT ![What] = None]
  /\ record' = IF What = "support" THEN None ELSE record
  /\ UNCHANGED <<job, process, running, faults>>
  /\ Done
  /\ UNCHANGED <<program, jobs, kept, found>>

InstallSteps ==
  \/ Copy
  \/ PlaceTray
  \/ Write
  \/ Complete
  \/ Classify
  \/ BootsOut
  \/ BootOutFails
  \/ Bootstraps
  \/ BootstrapAgain
  \/ Remove

-----------------------------------------------------------------------------
(* launchd starts what is on disk, and the daemon writes the safe config   *)
(* at every boot.                                                          *)
DaemonLaunched ==
  /\ disk["kanatad"] # None
  /\ Launch(disk["kanatad"])
  /\ UNCHANGED installVars

DaemonBoots ==
  /\ LoadRecord
  /\ disk' = [disk EXCEPT !["support"] = release]
  /\ UNCHANGED <<program, jobs, command, todo, attempt, result, kept, found,
                 commands>>

DaemonBootsOn ==
  /\ \/ VictimGone
     \/ GraceOver
     \/ ScanStrays
     \/ ScansNothing
     \/ SweepStray
     \/ BootEnds
     \/ Binds
  /\ UNCHANGED installVars

DaemonKeepsKanata == SupervisorSteps /\ UNCHANGED installVars

DaemonShutsDown == ShutdownSteps /\ UNCHANGED installVars

SystemFaults == LifeFaults /\ UNCHANGED installVars

SystemNext ==
  \/ \E c \in Command : Begins(c)
  \/ InstallSteps
  \/ Fails
  \/ DaemonLaunched
  \/ DaemonBoots
  \/ DaemonBootsOn
  \/ DaemonKeepsKanata
  \/ DaemonShutsDown
  \/ SystemFaults

SystemSpec == InstallInit /\ [][SystemNext]_systemVars

(* launchd keeps a loaded job alive, and the daemon's tasks are scheduled. *)
(* That a kanata is spawned is not assumed: the supervisor may have no     *)
(* config, wait for a grant or have been told to stop.                     *)
SystemFairSpec ==
  /\ SystemSpec
  /\ WF_systemVars(DaemonLaunched)
  /\ WF_systemVars(DaemonBoots \/ DaemonBootsOn)
  /\ WF_systemVars(DaemonShutsDown)

-----------------------------------------------------------------------------
Finished(verb) == result = "done" /\ command.verb = verb

(* An install that reports success leaves launchd with the new release and *)
(* with nothing of the old: the daemon job is loaded, its process is not   *)
(* the one that was draining, and the agent runs the tray its plist names, *)
(* whatever earlier commands left half done (install.rs:277-321, 605-628). *)
Upgraded ==
  Finished("install") =>
    /\ command.part # "agent" =>
         /\ disk["kanatad"] = command.release
         /\ job = "in"
         /\ phase # "none" => release = command.release
    /\ command.part # "daemon" =>
         jobs["agent"] = disk[program] /\ jobs["agent"] # None

(* An uninstall that reports success leaves none of the paths and no job   *)
(* loaded, wherever an earlier command stopped, but for the jobs it could  *)
(* not boot out, a stranger's app at the bundle's path, and there what a   *)
(* removal that failed has left (install.rs:334-379, 572-600).  The        *)
(* support directory is left to LeavesNothing.                             *)
NothingLeft ==
  Finished("uninstall") /\ command.part = "both" =>
    /\ \A f \in Path \ {"support", "bundle"} : disk[f] = None
    /\ disk["bundle"] \notin Release
    /\ job = "in" => "daemon" \in kept
    /\ \A j \in DOMAIN jobs : jobs[j] # None => j \in kept

(* What the specification asks of uninstall (docs/SPEC.md:641): nothing at *)
(* all is left, the support directory included.                            *)
LeavesNothing ==
  Finished("uninstall") /\ command.part = "both" =>
    /\ \A f \in Path : disk[f] \in {None, "stranger"}
    /\ job # "in" /\ \A j \in DOMAIN jobs : jobs[j] = None

(* Our VHID job is started only while nothing else manages that daemon:    *)
(* two instances would fight (vhidd.rs:7-10).  Two starts beside a rival   *)
(* are left: that of our own job, refreshed by an install, and that of an  *)
(* install whose launchctl list failed (install.rs:387-438).               *)
SetsUpVhidd == jobs["vhidd"] = None /\ jobs'["vhidd"] # None

SetUpAlone ==
  [][SetsUpVhidd /\ found.rival
       => found.management \in {"ours", "unreadable"}]_systemVars

(* The same without the two.                                               *)
NeverSecond == [][SetsUpVhidd => ~found.rival]_systemVars

(* A daemon whose job stays loaded comes to serve again and again, however *)
(* many orphans ignore SIGTERM, wherever it was killed and although its    *)
(* socket could not be bound (main.rs:285-316, 395-418, orphan.rs:95-110). *)
Revives ==
  <>[](job = "in" /\ disk["kanatad"] # None) => []<>(phase = "Serving")
=============================================================================
