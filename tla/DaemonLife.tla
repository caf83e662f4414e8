------------------------------ MODULE DaemonLife ------------------------------
(***************************************************************************)
(* The life of a kanatad process under launchd: the boot of main.rs with   *)
(* its sweeps of orphaned kanatas (health/orphan.rs), the kanata it then   *)
(* keeps, what it records in state.json (statefile.rs), kill -9 at any     *)
(* point, and the graceful shutdown.  Processes have pids, and a pid that  *)
(* is free can be taken by a process that has nothing to do with kanata.   *)
(* What decides when a kanata is spawned is the subject of Supervisor.tla: *)
(* here it may be spawned whenever a supervisor runs, or not at all.       *)
(***************************************************************************)
EXTENDS Integers, FiniteSets

CONSTANTS
  None,
  Pid,          \* the pids the system hands out
  Binary,       \* executables (by path) that a preset may run
  KanataBin,    \* SupervisorConfig.kanata_bin, the one the sweeps know
  Namesake,     \* executables with the file name of KanataBin
  Release,      \* releases of kanatad that may be on disk
  StateDir,     \* --state-dir was given
  Root,         \* the daemon runs as root
  FaultCap      \* bound on kills, deaths of kanata and system calls that fail

ASSUME LifeAssumption ==
  /\ KanataBin \in Namesake /\ Namesake \subseteq Binary
  /\ None \notin Pid
  /\ {None, "stranger"} \cap Binary = {}
  /\ None \notin Release
  /\ {StateDir, Root} \subseteq BOOLEAN
  /\ FaultCap \in Nat

VARIABLES
  job,        \* launchd's job for the daemon: "out", "in" or "draining"
  phase,      \* how far the daemon process is, "none" without one
  release,    \* the release the daemon process runs, or None
  exe,        \* what runs under each pid: an executable, "stranger" or None
  child,      \* the pid of the daemon's kanata, or None
  unsaved,    \* the child changed and state.json was not written yet
  record,     \* kanata_pid of state.json, None also without the file
  victim,     \* the pid that terminate() is waiting for, or None
  candidates, \* what pgrep listed and sweep_strays has not looked at yet
  doomed,     \* processes sent SIGKILL that have not died yet
  unseen,     \* history: kanatas alive at a boot without a scan for strays
  sigterm,    \* SIGTERM was delivered to the daemon
  faults      \* kills, crashes and failed writes so far

process == <<phase, release, child, unsaved, victim, candidates, sigterm>>
running == <<exe, doomed, unseen>>
lifeVars == <<job, process, running, record, faults>>

Image == Binary \cup {"stranger"}

(* From the start of the supervisor until it handles Shutdown.             *)
Supervised == {"Supervising", "Serving", "Stopping"}

LifeTypeOK ==
  /\ job \in {"out", "in", "draining"}
  /\ phase \in {"none", "Booting", "Recorded", "Strays", "Ending"} \cup Supervised
  /\ release \in Release \cup {None}
  /\ (release = None) <=> (phase = "none")
  /\ exe \in [Pid -> Image \cup {None}]
  /\ child \in Pid \cup {None}
  /\ unsaved \in BOOLEAN
  /\ record \in Pid \cup {None}
  /\ victim \in Pid \cup {None}
  /\ {candidates, doomed, unseen} \subseteq SUBSET Pid
  /\ sigterm \in BOOLEAN
  /\ faults \in 0..FaultCap

LifeInit ==
  /\ job = "out"
  /\ phase = "none"
  /\ release = None
  /\ exe = [p \in Pid |-> None]
  /\ child = None
  /\ unsaved = FALSE
  /\ record = None
  /\ victim = None
  /\ candidates = {}
  /\ doomed = {}
  /\ unseen = {}
  /\ sigterm = FALSE
  /\ faults = 0

-----------------------------------------------------------------------------
(* launchd and the operating system (external).                            *)

(* RunAtLoad and KeepAlive: a loaded job without a process gets one.       *)
Launch(r) ==
  /\ job = "in" /\ phase = "none"
  /\ phase' = "Booting"
  /\ release' = r
  /\ UNCHANGED <<job, running, child, unsaved, record, victim, candidates,
                 sigterm, faults>>

(* bootout returns while the daemon is still shutting down.                *)
BootOut ==
  /\ job' = IF job = "in" /\ phase # "none" THEN "draining"
            ELSE IF job = "in" THEN "out" ELSE job
  /\ sigterm' = (sigterm \/ (job = "in" /\ phase # "none"))
  /\ UNCHANGED <<phase, release, child, unsaved, victim, candidates, running,
                 record, faults>>

BootStrap ==
  /\ job = "out"
  /\ job' = "in"
  /\ UNCHANGED <<process, running, record, faults>>

Gone ==
  /\ phase' = "none"
  /\ release' = None
  /\ child' = None
  /\ unsaved' = FALSE
  /\ victim' = None
  /\ candidates' = {}
  /\ sigterm' = FALSE
  /\ job' = IF job = "draining" THEN "out" ELSE job

Ends(p) ==
  /\ exe' = [exe EXCEPT ![p] = None]
  /\ doomed' = doomed \ {p}
  /\ unseen' = unseen \ {p}

(* No destructor runs.  launchd may reap the process group, and the kanata *)
(* with it, or leave it running.                                           *)
DaemonKilled ==
  /\ phase # "none"
  /\ faults < FaultCap
  /\ faults' = faults + 1
  /\ UNCHANGED running \/ (child # None /\ Ends(child))
  /\ Gone
  /\ UNCHANGED <<record>>

(* Any process may end, by a SIGKILL or by itself; a free pid that is      *)
(* nobody's zombie may be reused (the pids never run out).                 *)
Exits(p) ==
  /\ exe[p] # None
  /\ p = child => faults < FaultCap
  /\ faults' = IF p = child THEN faults + 1 ELSE faults
  /\ Ends(p)
  /\ UNCHANGED <<job, process, record>>

Reused(p) ==
  /\ exe[p] = None /\ p # child
  /\ \E q \in Pid \ {p} : exe[q] = None
  /\ exe' = [exe EXCEPT ![p] = "stranger"]
  /\ UNCHANGED <<job, process, doomed, unseen, record, faults>>

-----------------------------------------------------------------------------
(* The boot.  terminate() sends SIGTERM, polls until the pid is free or    *)
(* the grace is over, and then sends SIGKILL and goes on.                  *)

IsAlive(p) == exe[p] # None

(* By file name, so that a reused pid is spared.                           *)
IsExpected(p) == exe[p] \in Namesake

Kanatas == {p \in Pid : exe[p] = KanataBin}

(* The safe config is written before anything else (a fresh install has no *)
(* other).                                                                 *)
LoadRecord ==
  /\ phase = "Booting"
  /\ phase' = "Recorded"
  /\ victim' = IF StateDir /\ record # None /\ IsAlive(record) /\ IsExpected(record)
               THEN record ELSE None
  /\ UNCHANGED <<job, release, running, child, unsaved, record, candidates,
                 sigterm, faults>>

VictimGone ==
  /\ victim # None /\ ~IsAlive(victim)
  /\ victim' = None
  /\ UNCHANGED <<job, phase, release, running, child, unsaved, record,
                 candidates, sigterm, faults>>

(* (The variant waits for good.) *)
NoGrace == victim # None /\ ~IsAlive(victim) /\ VictimGone

(* The pid is not looked at again: by now it may be somebody else's.       *)
GraceOver ==
  /\ victim # None /\ IsAlive(victim)
  /\ doomed' = doomed \cup {victim}
  /\ unseen' = unseen \ {victim}
  /\ victim' = None
  /\ UNCHANGED <<job, phase, release, exe, child, unsaved, record, candidates,
                 sigterm, faults>>

(* (The variant looks for no strays when state.json is kept.)              *)
TrustsTheRecord ==
  /\ phase = "Recorded" /\ victim = None
  /\ phase' = "Strays"
  /\ candidates' = IF Root /\ ~StateDir THEN {p \in Pid : IsAlive(p)} ELSE {}
  /\ UNCHANGED <<job, release, running, child, unsaved, record, victim,
                 sigterm, faults>>

(* pgrep -f matches command lines: every kanata that was started by this   *)
(* path, and whatever mentions it.                                         *)
ScanStrays ==
  /\ Root
  /\ phase = "Recorded" /\ victim = None
  /\ phase' = "Strays"
  /\ \E found \in SUBSET {p \in Pid : IsAlive(p)} :
       Kanatas \subseteq found /\ candidates' = found
  /\ UNCHANGED <<job, release, running, child, unsaved, record, victim,
                 sigterm, faults>>

(* A daemon that is not root does not look.  A pgrep that cannot be run    *)
(* has found nothing, and neither has one for a path that, read as the     *)
(* regular expression pgrep takes it for, does not match itself.           *)
ScansNothing ==
  /\ phase = "Recorded" /\ victim = None
  /\ phase' = "Strays"
  /\ candidates' = {}
  /\ unseen' = unseen \cup (Kanatas \ doomed)
  /\ UNCHANGED <<job, release, exe, doomed, child, unsaved, record, victim,
                 sigterm, faults>>

SweepStray ==
  /\ phase = "Strays" /\ victim = None
  /\ \E p \in candidates :
       /\ candidates' = candidates \ {p}
       /\ victim' = IF IsExpected(p) THEN p ELSE None
  /\ UNCHANGED <<job, phase, release, running, child, unsaved, record, sigterm,
                 faults>>

(* The supervisor is started, and is told to start kanata.                 *)
BootEnds ==
  /\ phase = "Strays" /\ victim = None /\ candidates = {}
  /\ phase' = "Supervising"
  /\ UNCHANGED <<job, release, running, child, unsaved, record, victim,
                 candidates, sigterm, faults>>

(* The control socket is bound over a stale one.  If it cannot be bound    *)
(* the daemon shuts down.                                                  *)
Binds ==
  /\ phase = "Supervising"
  /\ phase' = "Serving"
  /\ UNCHANGED <<job, release, running, child, unsaved, record, victim,
                 candidates, sigterm, faults>>

BindFails ==
  /\ phase = "Supervising"
  /\ faults < FaultCap
  /\ faults' = faults + 1
  /\ phase' = "Stopping"
  /\ UNCHANGED <<job, release, running, child, unsaved, record, victim,
                 candidates, sigterm>>

-----------------------------------------------------------------------------
(* The supervisor: between Start and the socket, while the daemon serves,  *)
(* and until it comes to the Shutdown behind its other commands.           *)

Spawn ==
  /\ phase \in Supervised /\ child = None /\ ~unsaved
  /\ \E p \in Pid, b \in Binary :
       /\ exe[p] = None
       /\ exe' = [exe EXCEPT ![p] = b]
       /\ child' = p
  /\ unsaved' = TRUE
  /\ UNCHANGED <<job, phase, release, doomed, unseen, record, victim,
                 candidates, sigterm, faults>>

(* persist() comes last in a dispatch; it does nothing without a state     *)
(* directory, and its failure is only logged.                              *)
Save ==
  /\ unsaved
  /\ unsaved' = FALSE
  /\ record' = IF StateDir THEN child ELSE record
  /\ UNCHANGED <<job, phase, release, child, victim, candidates, sigterm,
                 running, faults>>

SaveFails ==
  /\ unsaved
  /\ faults < FaultCap
  /\ faults' = faults + 1
  /\ unsaved' = FALSE
  /\ UNCHANGED <<job, phase, release, child, victim, candidates, sigterm,
                 running, record>>

Reap ==
  /\ child # None /\ exe[child] = None /\ ~unsaved
  /\ child' = None
  /\ unsaved' = TRUE
  /\ UNCHANGED <<job, phase, release, victim, candidates, sigterm, running,
                 record, faults>>

(* KanataChild::terminate returns when the kanata is gone.  (In the        *)
(* variant it only signals.)                                               *)
StopSignals ==
  /\ child # None /\ ~unsaved
  /\ child' = None
  /\ unsaved' = TRUE
  /\ UNCHANGED <<job, phase, release, running, victim, candidates, sigterm,
                 record, faults>>

StopChild ==
  /\ child # None /\ ~unsaved
  /\ Ends(child)
  /\ child' = None
  /\ unsaved' = TRUE
  /\ UNCHANGED <<job, phase, release, victim, candidates, sigterm, record,
                 faults>>

(* The signal is looked at once the daemon's tasks are started; main then  *)
(* aborts them and sends Shutdown.                                         *)
Terminated ==
  /\ phase \in {"Supervising", "Serving"} /\ sigterm
  /\ phase' = "Stopping"
  /\ UNCHANGED <<job, release, child, unsaved, victim, candidates, sigterm,
                 running, record, faults>>

(* The supervisor has come to Shutdown, stops its kanata and ends.         *)
ShutsDown ==
  /\ phase = "Stopping"
  /\ phase' = "Ending"
  /\ UNCHANGED <<job, release, child, unsaved, victim, candidates, sigterm,
                 running, record, faults>>

(* (The variant of main does not wait for the supervisor.)                 *)
ExitsUnawaited ==
  /\ phase = "Stopping"
  /\ Gone
  /\ UNCHANGED <<running, record, faults>>

ExitsCleanly ==
  /\ phase = "Ending" /\ child = None /\ ~unsaved
  /\ Gone
  /\ UNCHANGED <<running, record, faults>>

BootSteps ==
  \/ LoadRecord
  \/ VictimGone
  \/ GraceOver
  \/ ScanStrays
  \/ ScansNothing
  \/ SweepStray
  \/ BootEnds
  \/ Binds

SupervisorSteps ==
  \/ Spawn
  \/ Save
  \/ Reap
  \/ StopChild

ShutdownSteps ==
  \/ Terminated
  \/ ShutsDown
  \/ phase = "Ending" /\ SupervisorSteps
  \/ ExitsCleanly

LifeFaults ==
  \/ DaemonKilled
  \/ BindFails
  \/ SaveFails
  \/ \E p \in Pid : Exits(p) \/ Reused(p)

LifeNext ==
  \/ \E r \in Release : Launch(r)
  \/ BootOut
  \/ BootStrap
  \/ BootSteps
  \/ SupervisorSteps
  \/ ShutdownSteps
  \/ LifeFaults

LifeSpec == LifeInit /\ [][LifeNext]_lifeVars

-----------------------------------------------------------------------------
(* A kanata of the daemon's own binary runs only under the daemon that     *)
(* started it: whatever a killed daemon left behind, wherever it was       *)
(* killed, has ended before its successor may start one (main.rs:285-316,  *)
(* orphan.rs:37-110).  Two kinds are left over: an orphan that ignored     *)
(* SIGTERM has been sent SIGKILL and may not have died yet; and one that   *)
(* state.json did not name is not found when pgrep cannot be run, or is    *)
(* not looked for without root.                                            *)
Leftover == doomed \cup unseen

OneKanata ==
  phase \in Supervised \cup {"Ending"} =>
    \A p \in Kanatas : p = child \/ p \in Leftover

(* A daemon that is not killed leaves no kanata of its own: neither does   *)
(* the one started by a supervisor that heard of a SIGTERM or of a socket  *)
(* it cannot have only after its Start (main.rs:313, 395-418).             *)
LeavesNoKanata ==
  [][phase # "none" /\ phase' = "none" /\ faults' = faults
       => Kanatas' \subseteq Leftover']_lifeVars

(* kill -9 at any point included, the daemons that follow each other keep  *)
(* kanata as one keeper would: none is started beside another one, whoever *)
(* started that, and a daemon that may start one began without any         *)
(* (main.rs:285-316, orphan.rs:37-110, supervisor.rs:590-606).  The        *)
(* keeper's processes are the kanatas of the binary that the sweeps know,  *)
(* without the leftovers.                                                  *)
Revival == INSTANCE RevivedKeeper
  WITH wanted <- (phase \in Supervised), procs <- Kanatas \ Leftover

KeptAcrossRestarts == Revival!RevivedSpec
=============================================================================
