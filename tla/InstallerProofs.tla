---------------------------- MODULE InstallerProofs ----------------------------
(***************************************************************************)
(* What TLAPS proves of DaemonLife.tla and Installer.tla: the daemon's     *)
(* processes first, which the commands cannot disturb, then the commands.  *)
(***************************************************************************)
EXTENDS Installer, SequenceTheorems, TLAPS

Keeps == Supervised \cup {"Ending"}

(* OneKanata is not inductive: that a daemon with a supervisor finds no    *)
(* kanata but the leftovers follows from the sweep, in which every other   *)
(* one is a candidate or being ended, and from nobody but the daemon       *)
(* starting one.  A leftover is alive, so that no kanata is started under  *)
(* its pid.                                                                *)
LifeInv ==
  /\ LifeTypeOK
  /\ child # None => phase \in Keeps
  /\ phase \in Keeps => candidates = {} /\ victim = None
  /\ job = "out" => phase = "none"
  /\ phase = "Strays" =>
       \A p \in Kanatas : p \in candidates \/ p = victim \/ p \in Leftover
  /\ \A p \in Leftover : exe[p] # None
  /\ OneKanata

LEMMA LifeInitial == LifeInit => LifeInv
<1> SUFFICES ASSUME LifeInit PROVE LifeInv
  OBVIOUS
<1>1. LifeTypeOK
  <2>1. faults \in 0..FaultCap
    BY LifeAssumption DEF LifeInit
  <2>2. exe \in [Pid -> Image \cup {None}]
    BY DEF LifeInit
  <2>3. QED
    BY <2>1, <2>2 DEF LifeInit, LifeTypeOK
<1>2. QED
  BY <1>1, LifeAssumption
  DEF LifeInit, LifeInv, OneKanata, Keeps, Supervised, Leftover

(* A process that ends, whatever else changes.                             *)
LEMMA Ended ==
  ASSUME LifeTypeOK, NEW p \in Pid, Ends(p)
  PROVE  /\ exe' \in [Pid -> Image \cup {None}]
         /\ doomed' \subseteq Pid /\ unseen' \subseteq Pid
         /\ Kanatas' = Kanatas \ {p}
         /\ Leftover' = Leftover \ {p}
         /\ (\A q \in Leftover : exe[q] # None) => \A q \in Leftover' : exe'[q] # None
BY LifeAssumption DEF Ends, LifeTypeOK, Kanatas, Leftover

(* The boot.                                                               *)
LEMMA LifeBoots ==
  ASSUME LifeInv, BootSteps
  PROVE  LifeInv'
<1> USE LifeAssumption DEF LifeInv, LifeTypeOK, OneKanata, Keeps, Supervised, Kanatas,
        Leftover, running
<1>1. CASE LoadRecord
  BY <1>1 DEF LoadRecord
<1>2. CASE VictimGone
  BY <1>2 DEF VictimGone, IsAlive
<1>3. CASE GraceOver
  BY <1>3 DEF GraceOver, IsAlive
<1>4. CASE ScanStrays
  BY <1>4 DEF ScanStrays, IsAlive
<1>5. CASE ScansNothing
  BY <1>5 DEF ScansNothing
<1>6. CASE SweepStray
  BY <1>6 DEF SweepStray, IsExpected
<1>7. CASE BootEnds
  BY <1>7 DEF BootEnds
<1>8. CASE Binds
  BY <1>8 DEF Binds
<1>9. QED
  BY <1>1, <1>2, <1>3, <1>4, <1>5, <1>6, <1>7, <1>8 DEF BootSteps

(* The supervisor and its kanata.                                          *)
LEMMA LifeKeeps ==
  ASSUME LifeInv, SupervisorSteps
  PROVE  LifeInv'
<1> USE LifeAssumption DEF LifeInv, OneKanata, Keeps, Supervised
<1>1. CASE Spawn
  BY <1>1 DEF Spawn, Image, LifeTypeOK, Kanatas, Leftover
<1>2. CASE Save
  BY <1>2 DEF Save, running, LifeTypeOK, Kanatas, Leftover
<1>3. CASE Reap
  BY <1>3 DEF Reap, running, LifeTypeOK, Kanatas, Leftover
<1>4. CASE StopChild
  <2>1. child \in Pid /\ Ends(child)
    BY <1>4 DEF StopChild, LifeTypeOK
  <2>2. LifeTypeOK'
    BY <1>4, <2>1, Ended DEF StopChild, LifeTypeOK
  <2>3. QED
    BY <1>4, <2>1, <2>2, Ended DEF StopChild
<1>5. QED
  BY <1>1, <1>2, <1>3, <1>4 DEF SupervisorSteps

(* The shutdown.                                                           *)
LEMMA LifeShutsDown ==
  ASSUME LifeInv, ShutdownSteps
  PROVE  LifeInv'
<1> USE LifeAssumption DEF LifeInv, LifeTypeOK, OneKanata, Keeps, Supervised, Kanatas,
        Leftover, running
<1>1. CASE Terminated
  BY <1>1 DEF Terminated
<1>2. CASE ShutsDown
  BY <1>2 DEF ShutsDown
<1>3. CASE ExitsCleanly
  BY <1>3 DEF ExitsCleanly, Gone
<1>4. QED
  BY <1>1, <1>2, <1>3, LifeKeeps DEF ShutdownSteps

(* The faults, the pids that are reused among them.                        *)
LEMMA LifeFails ==
  ASSUME LifeInv, LifeFaults
  PROVE  LifeInv'
<1> USE LifeAssumption DEF LifeInv, OneKanata, Keeps, Supervised
<1>1. CASE DaemonKilled
  <2>1. faults' \in 0..FaultCap
    BY <1>1 DEF DaemonKilled, LifeTypeOK
  <2>2. CASE UNCHANGED running
    BY <1>1, <2>1, <2>2 DEF DaemonKilled, Gone, LifeTypeOK, running, Leftover
  <2>3. CASE child # None /\ Ends(child)
    <3>1. child \in Pid
      BY <2>3 DEF LifeTypeOK
    <3>2. LifeTypeOK'
      BY <1>1, <2>1, <2>3, <3>1, Ended DEF DaemonKilled, Gone, LifeTypeOK
    <3>3. QED
      BY <1>1, <2>3, <3>1, <3>2, Ended DEF DaemonKilled, Gone
  <2>4. QED
    BY <1>1, <2>2, <2>3 DEF DaemonKilled
<1>2. CASE BindFails
  <2>1. faults' \in 0..FaultCap
    BY <1>2 DEF BindFails, LifeTypeOK
  <2>2. QED
    BY <1>2, <2>1 DEF BindFails, LifeTypeOK, running, Kanatas, Leftover
<1>3. CASE SaveFails
  <2>1. faults' \in 0..FaultCap
    BY <1>3 DEF SaveFails, LifeTypeOK
  <2>2. QED
    BY <1>3, <2>1 DEF SaveFails, LifeTypeOK, running, Kanatas, Leftover
<1>4. ASSUME NEW p \in Pid, Exits(p) PROVE LifeInv'
  <2>1. faults' \in 0..FaultCap
    BY <1>4 DEF Exits, LifeTypeOK
  <2>2. LifeTypeOK'
    BY <1>4, <2>1, Ended DEF Exits, process, LifeTypeOK
  <2>3. QED
    BY <1>4, <2>2, Ended DEF Exits, process
<1>5. ASSUME NEW p \in Pid, Reused(p) PROVE LifeInv'
  <2>1. exe' \in [Pid -> Image \cup {None}] /\ Kanatas' = Kanatas /\ Leftover' = Leftover
    BY <1>5 DEF Reused, Image, LifeTypeOK, Kanatas, Leftover
  <2>2. \A q \in Leftover' : exe'[q] # None
    BY <1>5, <2>1 DEF Reused, LifeTypeOK, Leftover
  <2>3. QED
    BY <1>5, <2>1, <2>2 DEF Reused, process, LifeTypeOK
<1>6. QED
  BY <1>1, <1>2, <1>3, <1>4, <1>5 DEF LifeFaults

(* launchd.                                                                *)
LEMMA LifeLaunches ==
  ASSUME LifeInv, (\E r \in Release : Launch(r)) \/ BootOut \/ BootStrap
  PROVE  LifeInv'
<1> USE LifeAssumption DEF LifeInv, LifeTypeOK, OneKanata, Keeps, Supervised, Kanatas,
        Leftover, running
<1>1. ASSUME NEW r \in Release, Launch(r) PROVE LifeInv'
  BY <1>1 DEF Launch
<1>2. CASE BootOut
  BY <1>2 DEF BootOut
<1>3. CASE BootStrap
  BY <1>3 DEF BootStrap, process
<1>4. QED
  BY <1>1, <1>2, <1>3

LEMMA LifeStutters ==
  ASSUME LifeInv, UNCHANGED <<job, process, running, faults>>, record' \in {record, None}
  PROVE  LifeInv'
BY LifeAssumption DEF process, running, LifeInv, LifeTypeOK, OneKanata, Keeps, Supervised,
  Kanatas, Leftover

(* A daemon keeps its own kanata only and the leftovers of its             *)
(* predecessors, wherever they were killed (main.rs:283-316,               *)
(* orphan.rs:37-110).                                                      *)
THEOREM LifeCorrect == LifeSpec => []LifeInv
<1>1. LifeInv /\ [LifeNext]_lifeVars => LifeInv'
  <2> SUFFICES ASSUME LifeInv, [LifeNext]_lifeVars PROVE LifeInv'
    OBVIOUS
  <2>1. CASE LifeNext
    BY <2>1, LifeBoots, LifeKeeps, LifeShutsDown, LifeFails, LifeLaunches DEF LifeNext
  <2>2. CASE UNCHANGED lifeVars
    BY <2>2, LifeStutters DEF lifeVars, LifeInv, LifeTypeOK
  <2>3. QED
    BY <2>1, <2>2
<1>2. QED
  BY <1>1, LifeInitial, PTL DEF LifeSpec

-----------------------------------------------------------------------------
(* The commands.                                                           *)

(* A command is known while it has steps left; only the path of the bundle *)
(* can hold what no release wrote, and then no agent was told to run it.   *)
SystemInv ==
  /\ LifeInv
  /\ InstallTypeOK
  /\ todo # <<>> => command \in Command
  /\ \A f \in Path \ {"bundle"} : disk[f] \in Release \cup {None}

LEMMA SystemInitial == InstallInit => SystemInv
<1> SUFFICES ASSUME InstallInit PROVE SystemInv
  OBVIOUS
<1>1. LifeInv
  BY LifeInitial DEF InstallInit
<1>2. commands \in 0..Len(Line) /\ attempt \in 0..Attempts
  BY InstallAssumption DEF InstallInit
<1>3. disk \in [Path -> Content]
  BY DEF InstallInit, Content
<1>4. \A f \in Path \ {"bundle"} : disk[f] = None
  BY DEF InstallInit
<1>5. QED
  BY <1>1, <1>2, <1>3, <1>4, InstallAssumption
  DEF InstallInit, LifeInv, InstallTypeOK, Content, SystemInv

(* What a step does to the daemon is a step of the daemon, or it takes     *)
(* away the record.                                                        *)
LEMMA DaemonLives ==
  ASSUME SystemInv, [SystemNext]_systemVars
  PROVE  LifeInv'
<1>1. ASSUME UNCHANGED lifeVars PROVE LifeInv'
  BY <1>1, LifeStutters DEF lifeVars, SystemInv, LifeInv, LifeTypeOK
<1>2. ASSUME NEW c \in Command, Begins(c) PROVE LifeInv'
  BY <1>1, <1>2 DEF Begins
<1>3. CASE InstallSteps
  <2>1. CASE BootsOut
    BY <1>1, <2>1, LifeLaunches DEF BootsOut, SystemInv
  <2>2. CASE Bootstraps
    BY <1>1, <2>2, LifeLaunches DEF Bootstraps, SystemInv
  <2>3. CASE Remove
    BY <2>3, LifeStutters DEF Remove, SystemInv, LifeInv, LifeTypeOK
  <2>4. CASE Copy \/ PlaceTray \/ Write \/ Complete \/ Classify \/ BootOutFails
               \/ BootstrapAgain
    BY <1>1, <2>4 DEF Copy, PlaceTray, Write, Complete, Classify, BootOutFails,
      BootstrapAgain
  <2>5. QED
    BY <1>3, <2>1, <2>2, <2>3, <2>4 DEF InstallSteps
<1>4. CASE Fails
  BY <1>4, LifeStutters DEF Fails, SystemInv, LifeInv, LifeTypeOK
<1>5. CASE DaemonLaunched
  <2>1. disk["kanatad"] \in Release
    BY <1>5 DEF DaemonLaunched, SystemInv, Path
  <2>2. QED
    BY <1>5, <2>1, LifeLaunches DEF DaemonLaunched, SystemInv
<1>6. CASE DaemonBoots
  BY <1>6, LifeBoots DEF DaemonBoots, BootSteps, SystemInv
<1>7. CASE DaemonBootsOn
  BY <1>7, LifeBoots DEF DaemonBootsOn, BootSteps, SystemInv
<1>8. CASE DaemonKeepsKanata \/ DaemonShutsDown
  BY <1>8, LifeKeeps, LifeShutsDown DEF DaemonKeepsKanata, DaemonShutsDown, SystemInv
<1>9. CASE SystemFaults
  BY <1>9, LifeFails DEF SystemFaults, SystemInv
<1>10. CASE UNCHANGED systemVars
  BY <1>1, <1>10 DEF systemVars
<1>11. QED
  BY <1>2, <1>3, <1>4, <1>5, <1>6, <1>7, <1>8, <1>9, <1>10 DEF SystemNext

(* What the commands keep, apart from the daemon.                          *)
DiskInv(files) ==
  /\ files \in [Path -> Content]
  /\ \A f \in Path \ {"bundle"} : files[f] \in Release \cup {None}

CommandInv ==
  /\ DiskInv(disk)
  /\ program \in {"tray", "bundle", None}
  /\ jobs \in [{"vhidd", "agent"} -> Content]
  /\ command \in Command \cup {None}
  /\ attempt \in 0..Attempts
  /\ result \in {"none", "running", "done", "failed"}
  /\ kept \subseteq {"daemon", "vhidd", "agent"}
  /\ found \in [rival : BOOLEAN, management : Management] \cup {None}
  /\ commands \in 0..Len(Line)
  /\ result # "running" => todo = <<>>
  /\ todo # <<>> => command \in Command

LEMMA SystemInvParts == SystemInv <=> LifeInv /\ CommandInv
BY DEF SystemInv, InstallTypeOK, CommandInv, DiskInv, LifeInv

LEMMA Written ==
  ASSUME DiskInv(disk), NEW f, NEW v \in Release \cup {None}
  PROVE  DiskInv([disk EXCEPT ![f] = v])
BY DEF DiskInv, Path, Content

LEMMA StepDone ==
  ASSUME CommandInv, NEW rest, Continues(rest), todo # <<>>,
         DiskInv(disk'), program' \in {"tray", "bundle", None},
         jobs' \in [{"vhidd", "agent"} -> Content],
         kept' \subseteq {"daemon", "vhidd", "agent"},
         found' \in [rival : BOOLEAN, management : Management] \cup {None}
  PROVE  CommandInv'
<1>1. 0 \in 0..Attempts
  BY InstallAssumption
<1>2. QED
  BY <1>1 DEF Continues, CommandInv

LEMMA CommandBegins ==
  ASSUME CommandInv, NEW c \in Command, Begins(c)
  PROVE  CommandInv'
<1>1. commands' \in 0..Len(Line) /\ Line[commands + 1] \in Release
  BY InstallAssumption DEF Begins, CommandInv
<1>2. DiskInv(disk')
  <2>1. c.release \in Release \cup {None}
    BY DEF Command
  <2>2. QED
    BY <2>1 DEF Begins, CommandInv, DiskInv, Path, Content
<1>3. QED
  BY <1>1, <1>2 DEF Begins, CommandInv

LEMMA CommandGoesOn ==
  ASSUME CommandInv, InstallSteps \/ Fails
  PROVE  CommandInv'
<1>1. todo # <<>>
  BY DEF InstallSteps, Fails, Copy, PlaceTray, Write, Complete, Classify,
         BootsOut, BootOutFails, Bootstraps, BootstrapAgain, Remove, Does
<1>2. command.release \in Release \cup {None}
  BY <1>1 DEF CommandInv, Command
<1>3. /\ \A f : DiskInv([disk EXCEPT ![f] = command.release])
      /\ \A f : DiskInv([disk EXCEPT ![f] = None])
      /\ DiskInv(disk)
  BY <1>2, Written DEF CommandInv
<1>4. CASE Copy
  BY <1>1, <1>3, <1>4, StepDone DEF Copy, Done, CommandInv
<1>5. CASE PlaceTray
  <2>1. DiskInv(disk')
    BY <1>3, <1>5 DEF PlaceTray
  <2>2. QED
    BY <1>1, <1>5, <2>1, StepDone DEF PlaceTray, Done, CommandInv
<1>6. CASE Write
  <2>1. DiskInv(disk') /\ program' \in {"tray", "bundle", None}
    BY <1>3, <1>6 DEF Write, CommandInv
  <2>2. QED
    BY <1>1, <1>6, <2>1, StepDone DEF Write, Done, CommandInv
<1>7. CASE Complete
  <2>1. DiskInv(disk')
    BY <1>3, <1>7 DEF Complete
  <2>2. QED
    BY <1>1, <1>7, <2>1, StepDone DEF Complete, Done, CommandInv
<1>8. CASE Classify
  <2>1. found' \in [rival : BOOLEAN, management : Management] \cup {None}
    BY <1>8 DEF Classify, Manager, Management, CommandInv
  <2>2. QED
    BY <1>1, <1>3, <1>8, <2>1, StepDone DEF Classify, CommandInv
<1>9. CASE BootsOut
  <2>1. jobs' \in [{"vhidd", "agent"} -> Content]
    BY <1>9 DEF BootsOut, CommandInv, Content
  <2>2. QED
    BY <1>1, <1>3, <1>9, <2>1, StepDone DEF BootsOut, Done, CommandInv
<1>10. CASE BootOutFails
  <2>1. What \in {"daemon", "vhidd", "agent"}
    BY <1>10 DEF BootOutFails, Loaded, CommandInv
  <2>2. kept' \subseteq {"daemon", "vhidd", "agent"}
    BY <1>10, <2>1 DEF BootOutFails, CommandInv
  <2>3. QED
    BY <1>1, <1>3, <1>10, <2>2, StepDone DEF BootOutFails, Done, CommandInv
<1>11. CASE Bootstraps
  <2>1. program # None => disk[program] \in Content
    BY DEF CommandInv, DiskInv, Path
  <2>2. jobs' \in [{"vhidd", "agent"} -> Content]
    BY <1>2, <1>11, <2>1 DEF Bootstraps, CommandInv, Content
  <2>3. QED
    BY <1>1, <1>3, <1>11, <2>2, StepDone DEF Bootstraps, Done, CommandInv
<1>12. CASE BootstrapAgain
  <2>1. attempt' \in 0..Attempts
    BY <1>12, InstallAssumption DEF BootstrapAgain, GivesUp, CommandInv
  <2>2. DiskInv(disk')
    BY <1>3, <1>12 DEF BootstrapAgain
  <2>3. QED
    BY <1>12, <2>1, <2>2 DEF BootstrapAgain, GivesUp, CommandInv
<1>13. CASE Remove
  <2>1. DiskInv(disk')
    BY <1>3, <1>13 DEF Remove
  <2>2. QED
    BY <1>1, <1>13, <2>1, StepDone DEF Remove, Done, CommandInv
<1>14. CASE Fails
  <2>1. 0 \in 0..Attempts
    BY InstallAssumption
  <2>2. DiskInv([disk EXCEPT !["bundle"] = "remains"])
    BY <1>3 DEF DiskInv, Path, Content
  <2>3. DiskInv(disk')
    BY <1>3, <1>14, <2>2 DEF Fails
  <2>4. QED
    BY <1>14, <2>1, <2>3 DEF Fails, GivesUp, CommandInv
<1>15. QED
  BY <1>4, <1>5, <1>6, <1>7, <1>8, <1>9, <1>10, <1>11, <1>12, <1>13, <1>14
  DEF InstallSteps

LEMMA CommandWaits ==
  ASSUME SystemInv,
         DaemonLaunched \/ DaemonBoots \/ DaemonBootsOn \/ DaemonKeepsKanata
           \/ DaemonShutsDown \/ SystemFaults \/ UNCHANGED systemVars
  PROVE  CommandInv'
<1>1. ASSUME UNCHANGED installVars PROVE CommandInv'
  BY <1>1, SystemInvParts DEF installVars, CommandInv, DiskInv
<1>2. CASE DaemonBoots
  <2>1. release \in Release \cup {None}
    BY DEF SystemInv, InstallTypeOK, LifeTypeOK
  <2>2. QED
    BY <1>2, <2>1, Written, SystemInvParts DEF DaemonBoots, CommandInv
<1>3. QED
  BY <1>1, <1>2 DEF DaemonLaunched, DaemonBootsOn, DaemonKeepsKanata, DaemonShutsDown,
    SystemFaults, systemVars

LEMMA SystemStep == SystemInv /\ [SystemNext]_systemVars => SystemInv'
<1> SUFFICES ASSUME SystemInv, [SystemNext]_systemVars PROVE SystemInv'
  OBVIOUS
<1>1. CommandInv'
  BY CommandBegins, CommandGoesOn, CommandWaits, SystemInvParts DEF SystemNext
<1>2. QED
  BY <1>1, DaemonLives DEF SystemInv, InstallTypeOK, CommandInv, DiskInv, LifeInv

(* The invariant of the daemon also holds while the commands of an         *)
(* installer replace the daemon, its files and its launchd jobs.           *)
THEOREM SystemCorrect == SystemSpec => []SystemInv
BY SystemInitial, SystemStep, PTL DEF SystemSpec

(* Files, jobs, commands and the daemon keep their types.                  *)
THEOREM InstallTypeCorrect == SystemSpec => []InstallTypeOK
BY SystemCorrect, PTL DEF SystemInv

(* A daemon keeps no kanata of the default binary but its own, through     *)
(* kills, sweeps, installs and uninstalls, but for the leftovers: those    *)
(* that were sent SIGKILL and those no scan has looked for.                *)
THEOREM OneKanataHolds == SystemSpec => []OneKanata
BY SystemCorrect, PTL DEF SystemInv, LifeInv

(* A step of a daemon, or one that leaves its processes alone.             *)
DaemonMoves == LifeNext \/ UNCHANGED <<phase, running>>

LEMMA CommandsMoveDaemons ==
  ASSUME SystemInv, [SystemNext]_systemVars
  PROVE  DaemonMoves
<1>1. CASE DaemonLaunched
  <2>1. disk["kanatad"] \in Release
    BY <1>1 DEF DaemonLaunched, SystemInv, Path
  <2>2. QED
    BY <1>1, <2>1 DEF DaemonLaunched, DaemonMoves, LifeNext
<1>2. CASE DaemonBoots \/ DaemonBootsOn \/ DaemonKeepsKanata \/ DaemonShutsDown
             \/ SystemFaults
  BY <1>2 DEF DaemonBoots, DaemonBootsOn, DaemonKeepsKanata, DaemonShutsDown,
    SystemFaults, DaemonMoves, LifeNext, BootSteps
<1>3. CASE InstallSteps
  <2>1. CASE BootsOut \/ Bootstraps
    BY <2>1 DEF BootsOut, Bootstraps, DaemonMoves, LifeNext, lifeVars, process
  <2>2. CASE Remove
    BY <2>2 DEF Remove, DaemonMoves, process
  <2>3. CASE Copy \/ PlaceTray \/ Write \/ Complete \/ Classify \/ BootOutFails
               \/ BootstrapAgain
    BY <2>3 DEF Copy, PlaceTray, Write, Complete, Classify, BootOutFails, BootstrapAgain,
                DaemonMoves, lifeVars, process
  <2>4. QED
    BY <1>3, <2>1, <2>2, <2>3 DEF InstallSteps
<1>4. CASE (\E c \in Command : Begins(c)) \/ Fails \/ UNCHANGED systemVars
  BY <1>4 DEF Begins, Fails, systemVars, DaemonMoves, lifeVars, process
<1>5. QED
  BY <1>1, <1>2, <1>3, <1>4 DEF SystemNext

(* A daemon that is not killed leaves no kanata of the default binary,     *)
(* whether it was still booting, had no socket yet or served               *)
(* (main.rs:395-418).                                                      *)
THEOREM LeavesNoKanataHolds == SystemSpec => LeavesNoKanata
<1> DEFINE Left == phase # "none" /\ phase' = "none" /\ faults' = faults
                     => Kanatas' \subseteq Leftover'
<1>1. ASSUME LifeInv, LifeNext PROVE Left
  <2>1. CASE ExitsCleanly
    <3>1. Kanatas \subseteq Leftover
      BY <1>1, <2>1, LifeAssumption
      DEF ExitsCleanly, LifeInv, OneKanata, Kanatas
    <3>2. QED
      BY <2>1, <3>1 DEF ExitsCleanly, running, Kanatas, Leftover
  <2>2. ASSUME ~ExitsCleanly PROVE phase' # "none" \/ phase = "none" \/ faults' # faults
    <3>1. CASE DaemonKilled
      BY <1>1, <3>1, LifeAssumption DEF DaemonKilled, LifeInv, LifeTypeOK
    <3>2. CASE BindFails \/ SaveFails \/ \E p \in Pid : Exits(p) \/ Reused(p)
      BY <3>2 DEF BindFails, SaveFails, Exits, Reused, process
    <3>3. CASE BootSteps
      BY <3>3 DEF BootSteps, LoadRecord, VictimGone, GraceOver, ScanStrays, ScansNothing,
        SweepStray, BootEnds, Binds
    <3>4. CASE SupervisorSteps \/ ShutdownSteps
      BY <2>2, <3>4 DEF SupervisorSteps, ShutdownSteps, Spawn, Save, Reap, StopChild,
        Terminated, ShutsDown
    <3>5. CASE (\E r \in Release : Launch(r)) \/ BootOut \/ BootStrap
      BY <3>5 DEF Launch, BootOut, BootStrap, process
    <3>6. QED
      BY <1>1, <3>1, <3>2, <3>3, <3>4, <3>5 DEF LifeNext, LifeFaults
  <2>3. QED
    BY <2>1, <2>2
<1>2. ASSUME SystemInv, [SystemNext]_systemVars PROVE [Left]_lifeVars
  <2>1. LifeNext \/ UNCHANGED <<phase>>
    BY <1>2, CommandsMoveDaemons DEF DaemonMoves
  <2>2. QED
    BY <1>1, <1>2, <2>1 DEF SystemInv
<1>3. QED
  BY <1>2, SystemCorrect, PTL DEF SystemSpec, LeavesNoKanata

-----------------------------------------------------------------------------
(* The steps of the commands, one by one.                                  *)

Verb == {"copy", "tray", "write", "complete", "classify", "bootout", "bootstrap", "remove"}
Object == Path \cup {"daemon", "vhidd", "agent", "socket"}
StepType == [do : Verb, what : Object]

LEMMA StepTyped == \A do \in Verb, what \in Object : Step(do, what) \in StepType
BY DEF Step, StepType

LEMMA InstallDaemonSteps ==
  /\ InstallDaemonPart \in Seq(StepType)
  /\ Len(InstallDaemonPart) = 10
  /\ InstallDaemonPart[1] = Step("copy", "kanatad")
  /\ InstallDaemonPart[2] = Step("copy", "kanatactl")
  /\ InstallDaemonPart[3] = Step("write", "logs")
  /\ InstallDaemonPart[4] = Step("write", "daemonPlist")
  /\ InstallDaemonPart[5] = Step("bootout", "daemon")
  /\ InstallDaemonPart[6] = Step("bootstrap", "daemon")
  /\ InstallDaemonPart[7] = Step("classify", "vhidd")
  /\ InstallDaemonPart[8] = Step("write", "vhiddPlist")
  /\ InstallDaemonPart[9] = Step("bootout", "vhidd")
  /\ InstallDaemonPart[10] = Step("bootstrap", "vhidd")
<1> DEFINE copies == <<Step("copy", "kanatad"), Step("copy", "kanatactl")>>
           writes == <<Step("write", "logs"), Step("write", "daemonPlist")>>
           loads == <<Step("bootout", "daemon"), Step("bootstrap", "daemon"),
                      Step("classify", "vhidd"), Step("write", "vhiddPlist"),
                      Step("bootout", "vhidd"), Step("bootstrap", "vhidd")>>
<1>1. Steps("copy", <<"kanatad", "kanatactl">>) = copies
  BY DEF Steps
<1>2. Steps("write", <<"logs", "daemonPlist">>) = writes
  BY DEF Steps
<1>3. copies \in Seq(StepType) /\ writes \in Seq(StepType) /\ loads \in Seq(StepType)
  BY StepTyped DEF Verb, Object, Path
<1>4. Len(copies) = 2 /\ Len(writes) = 2 /\ Len(loads) = 6
  OBVIOUS
<1>5. InstallDaemonPart = (copies \o writes) \o loads
  BY <1>1, <1>2 DEF InstallDaemonPart
<1>6. /\ copies \o writes \in Seq(StepType)
      /\ Len(copies \o writes) = 4
      /\ \A i \in 1..4 : (copies \o writes)[i] = IF i <= 2 THEN copies[i] ELSE writes[i - 2]
  BY <1>3, <1>4, ConcatProperties
<1>7. /\ InstallDaemonPart \in Seq(StepType)
      /\ Len(InstallDaemonPart) = 10
      /\ \A i \in 1..10 : InstallDaemonPart[i] =
           IF i <= 4 THEN (copies \o writes)[i] ELSE loads[i - 4]
  BY <1>3, <1>4, <1>5, <1>6, ConcatProperties
<1>8. QED
  BY <1>6, <1>7

LEMMA InstallAgentSteps ==
  /\ InstallAgentPart \in Seq(StepType)
  /\ Len(InstallAgentPart) = 4
  /\ InstallAgentPart[1] = Step("tray", "tray")
  /\ InstallAgentPart[2] = Step("write", "agentPlist")
  /\ InstallAgentPart[3] = Step("bootout", "agent")
  /\ InstallAgentPart[4] = Step("bootstrap", "agent")
BY StepTyped DEF InstallAgentPart, Verb, Object, Path

LEMMA UninstallDaemonSteps ==
  /\ UninstallDaemonPart \in Seq(StepType)
  /\ Len(UninstallDaemonPart) = 10
  /\ UninstallDaemonPart[1] = Step("bootout", "daemon")
  /\ UninstallDaemonPart[2] = Step("bootout", "vhidd")
  /\ UninstallDaemonPart[3] = Step("remove", "vhiddPlist")
  /\ UninstallDaemonPart[4] = Step("remove", "daemonPlist")
  /\ UninstallDaemonPart[5] = Step("remove", "kanatad")
  /\ UninstallDaemonPart[6] = Step("remove", "kanatactl")
  /\ UninstallDaemonPart[7] = Step("remove", "socket")
  /\ UninstallDaemonPart[8] = Step("remove", "support")
  /\ UninstallDaemonPart[9] = Step("remove", "logs")
  /\ UninstallDaemonPart[10] = Step("remove", "completions")
<1> DEFINE outs == <<Step("bootout", "daemon"), Step("bootout", "vhidd")>>
           paths == <<"vhiddPlist", "daemonPlist", "kanatad", "kanatactl",
                      "socket", "support", "logs", "completions">>
           removes == <<Step("remove", "vhiddPlist"), Step("remove", "daemonPlist"),
                        Step("remove", "kanatad"), Step("remove", "kanatactl"),
                        Step("remove", "socket"), Step("remove", "support"),
                        Step("remove", "logs"), Step("remove", "completions")>>
<1>1. Steps("remove", paths) = removes
  BY DEF Steps
<1>2. outs \in Seq(StepType) /\ removes \in Seq(StepType)
  BY StepTyped DEF Verb, Object, Path
<1>3. UninstallDaemonPart = outs \o removes
  BY <1>1 DEF UninstallDaemonPart
<1>4. /\ UninstallDaemonPart \in Seq(StepType)
      /\ Len(UninstallDaemonPart) = 10
      /\ \A i \in 1..10 : UninstallDaemonPart[i] =
           IF i <= 2 THEN outs[i] ELSE removes[i - 2]
  BY <1>2, <1>3, ConcatProperties
<1>5. QED
  BY <1>4

LEMMA UninstallAgentSteps ==
  /\ UninstallAgentPart \in Seq(StepType)
  /\ Len(UninstallAgentPart) = 4
  /\ UninstallAgentPart[1] = Step("bootout", "agent")
  /\ UninstallAgentPart[2] = Step("remove", "agentPlist")
  /\ UninstallAgentPart[3] = Step("remove", "tray")
  /\ UninstallAgentPart[4] = Step("remove", "bundle")
<1> DEFINE outs == <<Step("bootout", "agent")>>
           removes == <<Step("remove", "agentPlist"), Step("remove", "tray"),
                        Step("remove", "bundle")>>
<1>1. Steps("remove", <<"agentPlist", "tray", "bundle">>) = removes
  BY DEF Steps
<1>2. outs \in Seq(StepType) /\ removes \in Seq(StepType)
  BY StepTyped DEF Verb, Object, Path
<1>3. UninstallAgentPart = outs \o removes
  BY <1>1 DEF UninstallAgentPart
<1>4. /\ UninstallAgentPart \in Seq(StepType)
      /\ Len(UninstallAgentPart) = 4
      /\ \A i \in 1..4 : UninstallAgentPart[i] =
           IF i <= 1 THEN outs[i] ELSE removes[i - 1]
  BY <1>2, <1>3, ConcatProperties
<1>5. QED
  BY <1>4

IsConcat(u, s, t) ==
  /\ u \in Seq(StepType)
  /\ Len(u) = Len(s) + Len(t)
  /\ \A i \in 1..Len(s) : u[i] = s[i]
  /\ \A i \in 1..Len(t) : u[Len(s) + i] = t[i]

LEMMA Concat ==
  ASSUME NEW s \in Seq(StepType), NEW t \in Seq(StepType)
  PROVE  IsConcat(s \o t, s, t)
BY DEF IsConcat

(* The agent's steps come after those of the daemon.                       *)
Offset(c) == IF c.part = "agent" THEN 0 ELSE 10

LEMMA InstallSequel ==
  ASSUME NEW c \in Command, c.verb = "install"
  PROVE  /\ Sequel(c) \in Seq(StepType)
         /\ Len(Sequel(c)) \in 1..15
         /\ c.part # "agent" =>
              /\ Len(Sequel(c)) = IF c.part = "both" THEN 15 ELSE 11
              /\ \A i \in 1..10 : Sequel(c)[i] = InstallDaemonPart[i]
              /\ Sequel(c)[Len(Sequel(c))] = Step("complete", "completions")
         /\ c.part = "agent" => Len(Sequel(c)) = 4
         /\ c.part # "daemon" =>
              \A i \in 1..4 : Sequel(c)[Offset(c) + i] = InstallAgentPart[i]
<1> DEFINE last == <<Step("complete", "completions")>>
<1>1. last \in Seq(StepType)
  BY StepTyped DEF Verb, Object, Path
<1>2. Len(last) = 1 /\ last[1] = Step("complete", "completions")
  OBVIOUS
<1> HIDE DEF last
<1>3. InstallDaemonPart \in Seq(StepType) /\ InstallAgentPart \in Seq(StepType)
  BY InstallDaemonSteps, InstallAgentSteps
<1>4. Len(InstallDaemonPart) = 10 /\ Len(InstallAgentPart) = 4
  BY InstallDaemonSteps, InstallAgentSteps
<1>5. c.part \in {"daemon", "agent", "both"}
  BY DEF Command
<1>6. CASE c.part = "agent"
  <2>1. Sequel(c) = (<<>> \o InstallAgentPart) \o <<>>
    BY <1>6 DEF Sequel
  <2>2. Sequel(c) = InstallAgentPart
    BY <1>3, <2>1, ConcatEmptySeq
  <2>3. Len(Sequel(c)) = 4 /\ Sequel(c) \in Seq(StepType)
    BY <1>3, <1>4, <2>2
  <2>4. \A i \in 1..4 : Sequel(c)[Offset(c) + i] = InstallAgentPart[i]
    BY <1>6, <2>2 DEF Offset
  <2>5. QED
    BY <1>6, <2>3, <2>4
<1>7. CASE c.part = "daemon"
  <2>1. Sequel(c) = (InstallDaemonPart \o <<>>) \o last
    BY <1>7 DEF Sequel, last
  <2>2. Sequel(c) = InstallDaemonPart \o last
    BY <1>3, <2>1, ConcatEmptySeq
  <2>3. IsConcat(Sequel(c), InstallDaemonPart, last)
    BY <1>1, <1>3, <2>2, Concat, Zenon
  <2>4. QED
    BY <1>2, <1>4, <1>7, <2>3 DEF IsConcat
<1>8. CASE c.part = "both"
  <2> DEFINE front == InstallDaemonPart \o InstallAgentPart
  <2>1. Sequel(c) = front \o last
    BY <1>8 DEF Sequel, last
  <2>2. IsConcat(front, InstallDaemonPart, InstallAgentPart)
    BY <1>3, Concat, Zenon
  <2> HIDE DEF front
  <2>3. front \in Seq(StepType)
    BY <2>2 DEF IsConcat
  <2>4. IsConcat(Sequel(c), front, last)
    BY <1>1, <2>1, <2>3, Concat, Zenon
  <2>5. /\ Len(front) = 14
        /\ \A i \in 1..10 : front[i] = InstallDaemonPart[i]
        /\ \A i \in 1..4 : front[10 + i] = InstallAgentPart[i]
    BY <1>4, <2>2 DEF IsConcat
  <2>6. /\ Sequel(c) \in Seq(StepType)
        /\ Len(Sequel(c)) = 15
        /\ \A i \in 1..14 : Sequel(c)[i] = front[i]
        /\ Sequel(c)[15] = last[1]
    BY <1>2, <2>4, <2>5 DEF IsConcat
  <2>7. \A i \in 1..4 : Sequel(c)[10 + i] = InstallAgentPart[i]
    BY <2>5, <2>6
  <2>8. QED
    BY <1>2, <1>8, <2>5, <2>6, <2>7 DEF Offset
<1>9. QED
  BY <1>5, <1>6, <1>7, <1>8

LEMMA UninstallSequel ==
  ASSUME NEW c \in Command, c.verb = "uninstall"
  PROVE  /\ Sequel(c) \in Seq(StepType)
         /\ Len(Sequel(c)) \in 1..14
         /\ \A i \in 1..Len(Sequel(c)) : Sequel(c)[i].do \in {"bootout", "remove"}
         /\ c.part # "agent" =>
              /\ Len(Sequel(c)) >= 10
              /\ \A i \in 1..10 : Sequel(c)[i] = UninstallDaemonPart[i]
         /\ c.part = "daemon" => Len(Sequel(c)) = 10
         /\ c.part = "agent" => Sequel(c) = UninstallAgentPart
         /\ c.part = "both" =>
              /\ Len(Sequel(c)) = 14
              /\ \A i \in 1..4 : Sequel(c)[10 + i] = UninstallAgentPart[i]
<1>1. UninstallDaemonPart \in Seq(StepType) /\ UninstallAgentPart \in Seq(StepType)
  BY UninstallDaemonSteps, UninstallAgentSteps
<1>2. Len(UninstallDaemonPart) = 10 /\ Len(UninstallAgentPart) = 4
  BY UninstallDaemonSteps, UninstallAgentSteps
<1>3. c.part \in {"daemon", "agent", "both"}
  BY DEF Command
<1>do. /\ \A i \in 1..10 : UninstallDaemonPart[i].do \in {"bootout", "remove"}
       /\ \A i \in 1..4 : UninstallAgentPart[i].do \in {"bootout", "remove"}
  BY UninstallDaemonSteps, UninstallAgentSteps DEF Step
<1>4. CASE c.part = "agent"
  <2>1. Sequel(c) = <<>> \o UninstallAgentPart
    BY <1>4 DEF Sequel
  <2>2. Sequel(c) = UninstallAgentPart
    BY <1>1, <2>1, ConcatEmptySeq
  <2>3. Len(Sequel(c)) = 4 /\ Sequel(c) \in Seq(StepType)
    BY <1>1, <1>2, <2>2
  <2>4. \A i \in 1..Len(Sequel(c)) : Sequel(c)[i].do \in {"bootout", "remove"}
    BY <1>do, <2>2, <2>3
  <2>5. QED
    BY <1>4, <2>2, <2>3, <2>4
<1>5. CASE c.part = "daemon"
  <2>1. Sequel(c) = UninstallDaemonPart \o <<>>
    BY <1>5 DEF Sequel
  <2>2. Sequel(c) = UninstallDaemonPart
    BY <1>1, <2>1, ConcatEmptySeq
  <2>3. Len(Sequel(c)) = 10 /\ Sequel(c) \in Seq(StepType)
    BY <1>1, <1>2, <2>2
  <2>4. \A i \in 1..Len(Sequel(c)) : Sequel(c)[i].do \in {"bootout", "remove"}
    BY <1>do, <2>2, <2>3
  <2>5. QED
    BY <1>5, <2>2, <2>3, <2>4
<1>6. CASE c.part = "both"
  <2>1. Sequel(c) = UninstallDaemonPart \o UninstallAgentPart
    BY <1>6 DEF Sequel
  <2>2. IsConcat(Sequel(c), UninstallDaemonPart, UninstallAgentPart)
    BY <1>1, <2>1, Concat, Zenon
  <2>3. /\ Sequel(c) \in Seq(StepType)
        /\ Len(Sequel(c)) = 14
        /\ \A i \in 1..10 : Sequel(c)[i] = UninstallDaemonPart[i]
        /\ \A i \in 1..4 : Sequel(c)[10 + i] = UninstallAgentPart[i]
    BY <1>2, <2>2 DEF IsConcat
  <2>4. \A i \in 1..14 : i \in 1..10 \/ (i - 10 \in 1..4 /\ 10 + (i - 10) = i)
    OBVIOUS
  <2>5. \A i \in 1..14 : Sequel(c)[i].do \in {"bootout", "remove"}
    BY <1>do, <2>3, <2>4
  <2>6. QED
    BY <1>6, <2>3, <2>5
<1>7. QED
  BY <1>3, <1>4, <1>5, <1>6

-----------------------------------------------------------------------------
(* What is left of a command is a suffix of its steps.                     *)
Rest(n) == SubSeq(Sequel(command), n + 1, Len(Sequel(command)))

Passed == Len(Sequel(command)) - Len(todo)

Underway == result \in {"running", "done"}

StepsInv ==
  /\ Underway => command \in Command
  /\ Underway /\ command.verb = "install" => command.release \in Release
  /\ todo # <<>> => \E n \in 0..Len(Sequel(command)) - 1 : todo = Rest(n)

LEMMA SequelTyped ==
  \A c \in Command : Sequel(c) \in Seq(StepType) /\ Len(Sequel(c)) \in 1..15
BY InstallSequel, UninstallSequel DEF Command

LEMMA Suffixes ==
  ASSUME NEW s \in Seq(StepType), NEW n \in 0..Len(s) - 1
  PROVE  LET t == SubSeq(s, n + 1, Len(s)) IN
         /\ Len(t) = Len(s) - n
         /\ Head(t) = s[n + 1]
         /\ Tail(t) = SubSeq(s, (n + 1) + 1, Len(s))
         /\ n + 4 < Len(s) => SubSeq(t, 5, Len(t)) = SubSeq(s, (n + 4) + 1, Len(s))
<1> DEFINE t == SubSeq(s, n + 1, Len(s))
<1>1. Len(s) \in Nat /\ n + 1 \in 1..Len(s) /\ Len(s) \in (n + 1)..Len(s)
  OBVIOUS
<1>2. Head(t) = s[n + 1] /\ Tail(t) = SubSeq(s, (n + 1) + 1, Len(s))
  BY <1>1, HeadTailOfSubSeq
<1>3. Len(t) = Len(s) - n
  <2>1. \A i \in (n + 1)..Len(s) : s[i] \in StepType
    BY <1>1, ElementOfSeq
  <2>2. QED
    BY <1>1, <2>1, SubSeqProperties
<1>4. ASSUME n + 4 < Len(s) PROVE SubSeq(t, 5, Len(t)) = SubSeq(s, (n + 4) + 1, Len(s))
  <2> DEFINE j == Len(s)
             i == n + 1
             k == Len(s) - n
  <2>1. i \in 1..Len(s) /\ j \in 1..Len(s) /\ 5 \in 1..j - i + 1 /\ k \in 1..j - i + 1
    BY <1>1, <1>4
  <2>2. SubSeq(SubSeq(s, i, j), 5, k) = SubSeq(s, i + 5 - 1, i + k - 1)
    BY <2>1, SubSeqOfSubSeq
  <2>3. i + 5 - 1 = (n + 4) + 1 /\ i + k - 1 = Len(s)
    BY <1>1
  <2>4. QED
    BY <1>3, <2>2, <2>3
<1>5. QED
  BY <1>2, <1>3, <1>4

LEMMA AtStep ==
  ASSUME SystemInv, StepsInv, todo # <<>>
  PROVE  /\ Passed \in 0..Len(Sequel(command)) - 1
         /\ Head(todo) = Sequel(command)[Passed + 1]
         /\ Tail(todo) = Rest(Passed + 1)
         /\ Passed + 4 < Len(Sequel(command)) =>
              SubSeq(todo, 5, Len(todo)) = Rest(Passed + 4)
<1> DEFINE s == Sequel(command)
<1>1. s \in Seq(StepType) /\ Len(s) \in 1..15
  BY SequelTyped DEF SystemInv
<1>2. PICK n \in 0..Len(s) - 1 : todo = Rest(n)
  BY DEF StepsInv
<1> HIDE DEF s
<1>3. todo = SubSeq(s, n + 1, Len(s))
  BY <1>2 DEF Rest, s
<1>4. Len(todo) = Len(s) - n
  BY <1>1, <1>3, Suffixes
<1>5. Passed = n
  BY <1>1, <1>4 DEF Passed, s
<1>6. Head(todo) = s[n + 1] /\ Tail(todo) = SubSeq(s, (n + 1) + 1, Len(s))
      /\ (n + 4 < Len(s) => SubSeq(todo, 5, Len(todo)) = SubSeq(s, (n + 4) + 1, Len(s)))
  BY <1>1, <1>3, Suffixes
<1>7. QED
  BY <1>5, <1>6 DEF Rest, s

(* A step that is done, and the classification that skips the VHID daemon. *)
LEMMA Moves ==
  ASSUME SystemInv, StepsInv, NEW n \in 0..15, n <= Len(Sequel(command)),
         todo # <<>>, Continues(Rest(n))
  PROVE  Passed' = n /\ StepsInv' /\ (Underway => Underway')
<1> DEFINE s == Sequel(command)
<1>1. s \in Seq(StepType) /\ Len(s) \in 1..15
  BY SequelTyped DEF SystemInv
<1>2. command' = command /\ todo' = Rest(n) /\ s' = s
  BY DEF Continues, Sequel
<1>3. result = "running"
  BY DEF SystemInv, InstallTypeOK
<1>4. CASE n = Len(s)
  <2>1. Rest(n) = <<>>
    BY <1>1, <1>4, SubSeqEmpty DEF Rest
  <2>2. QED
    BY <1>1, <1>2, <1>3, <1>4, <2>1 DEF Continues, StepsInv, Underway, Passed
<1>5. CASE n \in 0..Len(s) - 1
  <2>1. Len(Rest(n)) = Len(s) - n
    BY <1>1, <1>5, Suffixes DEF Rest
  <2>2. Passed' = n
    BY <1>1, <1>2, <2>1 DEF Passed
  <2>3. Rest(n)' = Rest(n)
    BY <1>2 DEF Rest, Sequel
  <2>4. \E m \in 0..Len(s') - 1 : todo' = Rest(m)'
    BY <1>2, <1>5, <2>3
  <2>5. QED
    BY <1>2, <1>3, <2>2, <2>4 DEF Continues, StepsInv, Underway
<1>6. QED
  BY <1>1, <1>4, <1>5

(* launchd and the daemon, meanwhile.                                      *)
DaemonSteps ==
  \/ DaemonLaunched
  \/ DaemonBoots
  \/ DaemonBootsOn
  \/ DaemonKeepsKanata
  \/ DaemonShutsDown
  \/ SystemFaults
  \/ UNCHANGED systemVars

LEMMA DaemonKeeps ==
  ASSUME SystemInv, DaemonSteps
  PROVE  /\ UNCHANGED <<program, jobs, command, todo, result, kept, found>>
         /\ \A f \in Path \ {"support"} : disk'[f] = disk[f]
         /\ job' = "in" <=> job = "in"
         /\ phase' # "none" =>
              \/ phase # "none" /\ release' = release
              \/ phase = "none" /\ release' = disk["kanatad"]
<1>1. CASE DaemonLaunched
  BY <1>1 DEF DaemonLaunched, Launch, installVars
<1>2. CASE DaemonBoots
  BY <1>2 DEF DaemonBoots, LoadRecord, SystemInv, InstallTypeOK
<1>3. ASSUME BootSteps \/ SupervisorSteps \/ ShutdownSteps \/ LifeFaults
      PROVE  /\ job' = "in" <=> job = "in"
             /\ phase' # "none" => phase # "none" /\ release' = release
  <2>1. CASE BootSteps
    BY <2>1 DEF BootSteps, LoadRecord, VictimGone, GraceOver, ScanStrays, ScansNothing,
      SweepStray, BootEnds, Binds, SystemInv, LifeInv, Keeps, Supervised
  <2>2. CASE SupervisorSteps \/ ShutdownSteps
    BY <2>2 DEF SupervisorSteps, ShutdownSteps, Spawn, Save, Reap, StopChild, Terminated,
      ShutsDown, ExitsCleanly, Gone, SystemInv, LifeInv, LifeTypeOK, Keeps, Supervised
  <2>3. CASE LifeFaults
    BY <2>3 DEF LifeFaults, DaemonKilled, BindFails, SaveFails, Exits, Reused, Gone, process
  <2>4. QED
    BY <1>3, <2>1, <2>2, <2>3
<1>4. CASE DaemonBootsOn \/ DaemonKeepsKanata \/ DaemonShutsDown \/ SystemFaults
  BY <1>3, <1>4 DEF DaemonBootsOn, DaemonKeepsKanata, DaemonShutsDown, SystemFaults,
    BootSteps, installVars
<1>5. CASE UNCHANGED systemVars
  BY <1>5 DEF systemVars, lifeVars, process, installVars
<1>6. QED
  BY <1>1, <1>2, <1>4, <1>5 DEF DaemonSteps

(* What each step of an uninstall of everything has taken away, or was not *)
(* able to boot out.                                                       *)
Removed ==
  Underway /\ command.verb = "uninstall" /\ command.part = "both" =>
    /\ Passed >= 1 => job # "in" \/ "daemon" \in kept
    /\ Passed >= 2 => jobs["vhidd"] = None \/ "vhidd" \in kept
    /\ Passed >= 3 => disk["vhiddPlist"] = None
    /\ Passed >= 4 => disk["daemonPlist"] = None
    /\ Passed >= 5 => disk["kanatad"] = None
    /\ Passed >= 6 => disk["kanatactl"] = None
    /\ Passed >= 9 => disk["logs"] = None
    /\ Passed >= 10 => disk["completions"] = None
    /\ Passed >= 11 => jobs["agent"] = None \/ "agent" \in kept
    /\ Passed >= 12 => disk["agentPlist"] = None
    /\ Passed >= 13 => disk["tray"] = None
    /\ Passed >= 14 => disk["bundle"] \notin Release

(* A step of an uninstall takes something away, and the next follows.      *)
LEMMA UninstallMoves ==
  ASSUME SystemInv, StepsInv, InstallSteps, todo # <<>>, Underway,
         command.verb = "uninstall"
  PROVE  /\ BootsOut \/ BootOutFails \/ Remove
         /\ command' = command /\ result' \in {"running", "done"}
         /\ Passed \in 0..13 /\ Passed' = Passed + 1
         /\ StepsInv'
<1> DEFINE n == Passed
           k == Len(Sequel(command))
<1>1. command \in Command
  BY DEF StepsInv
<1>2. /\ k \in 1..14
      /\ n \in 0..k - 1
      /\ Head(todo) = Sequel(command)[n + 1]
      /\ Tail(todo) = Rest(n + 1)
  BY <1>1, UninstallSequel, AtStep
<1>3. \A i \in 1..k : Sequel(command)[i].do \in {"bootout", "remove"}
  BY <1>1, UninstallSequel
<1> HIDE DEF n, k
<1>4. n \in 0..13 /\ n + 1 \in 0..15 /\ n + 1 <= k /\ n + 1 \in 1..k
  BY <1>2
<1>5. Head(todo).do \in {"bootout", "remove"}
  BY <1>2, <1>3, <1>4
<1>6. BootsOut \/ BootOutFails \/ Remove
  BY <1>5 DEF InstallSteps, Copy, PlaceTray, Write, Complete, Classify, Bootstraps,
     BootstrapAgain, Does
<1>7. Continues(Rest(n + 1))
  BY <1>2, <1>6 DEF BootsOut, BootOutFails, Remove, Done
<1>8. Passed' = n + 1 /\ StepsInv'
  BY <1>4, <1>7, Moves DEF k
<1>9. QED
  BY <1>4, <1>6, <1>7, <1>8 DEF n, Continues

LEMMA RemovedSteps ==
  ASSUME SystemInv, StepsInv, Removed, InstallSteps, todo # <<>>, Underway,
         command.verb = "uninstall", command.part = "both"
  PROVE  StepsInv' /\ Removed'
<1>1. command \in Command
  BY DEF StepsInv
<1> DEFINE n == Passed
<1>2. /\ n \in 0..13
      /\ Head(todo) = Sequel(command)[n + 1]
      /\ Tail(todo) = Rest(n + 1)
      /\ Len(Sequel(command)) = 14
  <2>1. Len(Sequel(command)) = 14
    BY <1>1, UninstallSequel
  <2>2. QED
    BY <2>1, AtStep
<1>3. n + 1 <= 10 => Head(todo) = UninstallDaemonPart[n + 1]
  <2>1. \A i \in 1..10 : Sequel(command)[i] = UninstallDaemonPart[i]
    BY <1>1, UninstallSequel
  <2>2. QED
    BY <1>2, <2>1
<1>4. n + 1 > 10 => Head(todo) = UninstallAgentPart[n - 9]
  <2>1. ASSUME n + 1 > 10 PROVE n - 9 \in 1..4 /\ 10 + (n - 9) = n + 1
    BY <1>2, <2>1
  <2>2. QED
    BY <1>1, <1>2, <2>1, UninstallSequel
<1>5. /\ n = 0 => Head(todo) = Step("bootout", "daemon")
      /\ n = 1 => Head(todo) = Step("bootout", "vhidd")
      /\ n = 2 => Head(todo) = Step("remove", "vhiddPlist")
      /\ n = 3 => Head(todo) = Step("remove", "daemonPlist")
      /\ n = 4 => Head(todo) = Step("remove", "kanatad")
      /\ n = 5 => Head(todo) = Step("remove", "kanatactl")
      /\ n = 6 => Head(todo) = Step("remove", "socket")
      /\ n = 7 => Head(todo) = Step("remove", "support")
      /\ n = 8 => Head(todo) = Step("remove", "logs")
      /\ n = 9 => Head(todo) = Step("remove", "completions")
      /\ n = 10 => Head(todo) = Step("bootout", "agent")
      /\ n = 11 => Head(todo) = Step("remove", "agentPlist")
      /\ n = 12 => Head(todo) = Step("remove", "tray")
      /\ n = 13 => Head(todo) = Step("remove", "bundle")
  BY <1>2, <1>3, <1>4, UninstallDaemonSteps, UninstallAgentSteps
<1> HIDE DEF n
<1>6. BootsOut \/ BootOutFails \/ Remove
  BY UninstallMoves
<1>7. Passed' = n + 1 /\ StepsInv' /\ command' = command
  BY UninstallMoves DEF n
(* Nothing that is gone comes back.                                        *)
<1>8. /\ job # "in" => job' # "in"
      /\ \A j \in {"vhidd", "agent"} : jobs[j] = None => jobs'[j] = None
      /\ kept \subseteq kept'
      /\ \A f \in Path : disk[f] = None => disk'[f] = None
      /\ disk["bundle"] \notin Release => disk'["bundle"] \notin Release
  <2>1. \A f \in Path : disk'[f] \in {None, disk[f]}
    BY <1>6 DEF BootsOut, BootOutFails, Remove, SystemInv, InstallTypeOK
  <2>2. \A j \in {"vhidd", "agent"} : jobs'[j] \in {None, jobs[j]}
    BY <1>6 DEF BootsOut, BootOutFails, Remove, SystemInv, InstallTypeOK
  <2>3. kept \subseteq kept'
    BY <1>6 DEF BootsOut, BootOutFails, Remove
  <2>4. job # "in" => job' # "in"
    BY <1>6 DEF BootsOut, BootOut, BootOutFails, Remove, lifeVars
  <2>5. QED
    BY <2>1, <2>2, <2>3, <2>4, LifeAssumption DEF Path
(* And the step takes what it is about.                                    *)
<1>9. /\ Head(todo) = Step("bootout", "daemon") => job' # "in" \/ "daemon" \in kept'
      /\ \A j \in {"vhidd", "agent"} :
           Head(todo) = Step("bootout", j) => jobs'[j] = None \/ j \in kept'
      /\ \A f \in Path \ {"bundle"} :
           Head(todo) = Step("remove", f) => disk'[f] = None
      /\ Head(todo) = Step("remove", "bundle") => disk'["bundle"] \notin Release
  <2>1. CASE BootsOut
    <3>1. Head(todo).do = "bootout"
      BY <2>1 DEF BootsOut, Does
    <3>2. What = "daemon" => job' # "in"
      BY <2>1 DEF BootsOut, BootOut
    <3>3. \A j \in {"vhidd", "agent"} : What = j => jobs'[j] = None
      BY <2>1 DEF BootsOut, SystemInv, InstallTypeOK
    <3>4. QED
      BY <3>1, <3>2, <3>3 DEF Step, What
  <2>2. CASE BootOutFails
    <3>1. Head(todo).do = "bootout" /\ What \in kept'
      BY <2>2 DEF BootOutFails, Does
    <3>2. QED
      BY <3>1 DEF Step, What
  <2>3. CASE Remove
    <3>1. Head(todo).do = "remove"
      BY <2>3 DEF Remove, Does
    <3>2. \A f \in Path \ {"bundle"} : What = f => disk'[f] = None
      BY <2>3 DEF Remove, SystemInv, InstallTypeOK, Path
    <3>3. What = "bundle" => disk'["bundle"] \notin Release
      BY <2>3, LifeAssumption DEF Remove, OurBundle, SystemInv, InstallTypeOK, Path
    <3>4. QED
      BY <3>1, <3>2, <3>3 DEF Step, What
  <2>4. QED
    BY <1>6, <2>1, <2>2, <2>3
<1>10. n \in 0..13
  BY <1>2
<1>11. Removed'
  BY <1>5, <1>7, <1>8, <1>9, <1>10 DEF Removed, Path, n
<1>12. QED
  BY <1>7, <1>11

(* What each step of an install has put in place.                          *)
Placed ==
  Underway /\ command.verb = "install" =>
    /\ command.part # "agent" =>
         /\ Passed >= 1 \/ command.pkg => disk["kanatad"] = command.release
         /\ Passed >= 6 =>
              job = "in" /\ (phase # "none" => release = command.release)
    /\ command.part # "daemon" =>
         /\ Passed >= Offset(command) + 1 =>
              OurBundle \/ disk["tray"] = command.release
         /\ Passed >= Offset(command) + 2 =>
              program = IF OurBundle THEN "bundle" ELSE "tray"
         /\ Passed >= Offset(command) + 4 =>
              jobs["agent"] = disk[program] /\ jobs["agent"] # None

LEMMA PlacedHead ==
  ASSUME SystemInv, StepsInv, todo # <<>>, Underway, command.verb = "install"
  PROVE  /\ command \in Command
         /\ Passed \in 0..14 /\ Passed < Len(Sequel(command))
         /\ Tail(todo) = Rest(Passed + 1)
         /\ Head(todo).do # "remove"
         /\ command.part # "agent" =>
              /\ Passed = 0 => Head(todo) = Step("copy", "kanatad")
              /\ Passed = 1 => Head(todo) = Step("copy", "kanatactl")
              /\ Passed = 2 => Head(todo) = Step("write", "logs")
              /\ Passed = 3 => Head(todo) = Step("write", "daemonPlist")
              /\ Passed = 4 => Head(todo) = Step("bootout", "daemon")
              /\ Passed = 5 => Head(todo) = Step("bootstrap", "daemon")
              /\ Passed = 6 => Head(todo) = Step("classify", "vhidd")
              /\ Passed = 7 => Head(todo) = Step("write", "vhiddPlist")
              /\ Passed = 8 => Head(todo) = Step("bootout", "vhidd")
              /\ Passed = 9 => Head(todo) = Step("bootstrap", "vhidd")
         /\ command.part # "daemon" =>
              /\ Passed = Offset(command) => Head(todo) = Step("tray", "tray")
              /\ Passed = Offset(command) + 1 => Head(todo) = Step("write", "agentPlist")
              /\ Passed = Offset(command) + 2 => Head(todo) = Step("bootout", "agent")
              /\ Passed = Offset(command) + 3 => Head(todo) = Step("bootstrap", "agent")
         /\ Passed >= (IF command.part = "daemon" THEN 10 ELSE Offset(command) + 4) =>
              Head(todo) = Step("complete", "completions")
         /\ Passed + 4 < Len(Sequel(command)) =>
              SubSeq(todo, 5, Len(todo)) = Rest(Passed + 4)
         /\ Passed = 6 /\ command.part # "agent" => Passed + 4 < Len(Sequel(command))
<1>1. command \in Command /\ command.part \in {"daemon", "agent", "both"}
  BY DEF StepsInv, Command
<1> DEFINE n == Passed
           s == Sequel(command)
           k == Len(s)
<1>2. /\ n \in 0..k - 1
      /\ Head(todo) = s[n + 1]
      /\ Tail(todo) = Rest(n + 1)
      /\ n + 4 < k => SubSeq(todo, 5, Len(todo)) = Rest(n + 4)
  BY AtStep
<1>3. /\ k \in 1..15
      /\ command.part # "agent" => k = IF command.part = "both" THEN 15 ELSE 11
      /\ command.part = "agent" => k = 4
  BY <1>1, InstallSequel
<1>last. command.part # "agent" => s[k] = Step("complete", "completions")
  BY <1>1, InstallSequel
<1>4. command.part # "agent" => \A i \in 1..10 : s[i] = InstallDaemonPart[i]
  BY <1>1, InstallSequel
<1>5. command.part # "daemon" =>
        \A i \in 1..4 : s[Offset(command) + i] = InstallAgentPart[i]
  BY <1>1, InstallSequel
<1> HIDE DEF n, s, k
<1>6. n \in 0..14 /\ n < k
  BY <1>2, <1>3
<1>7. ASSUME command.part # "agent"
      PROVE  \A i \in 0..9 : n = i => Head(todo) = InstallDaemonPart[i + 1]
  BY <1>2, <1>4, <1>7
<1>8. ASSUME command.part # "daemon"
      PROVE  \A i \in 1..4 : n + 1 = Offset(command) + i => Head(todo) = InstallAgentPart[i]
  BY <1>2, <1>5, <1>8
<1>9. command.part # "agent" =>
        /\ n = 0 => Head(todo) = Step("copy", "kanatad")
        /\ n = 1 => Head(todo) = Step("copy", "kanatactl")
        /\ n = 2 => Head(todo) = Step("write", "logs")
        /\ n = 3 => Head(todo) = Step("write", "daemonPlist")
        /\ n = 4 => Head(todo) = Step("bootout", "daemon")
        /\ n = 5 => Head(todo) = Step("bootstrap", "daemon")
        /\ n = 6 => Head(todo) = Step("classify", "vhidd")
        /\ n = 7 => Head(todo) = Step("write", "vhiddPlist")
        /\ n = 8 => Head(todo) = Step("bootout", "vhidd")
        /\ n = 9 => Head(todo) = Step("bootstrap", "vhidd")
  BY <1>7, InstallDaemonSteps
<1>10. command.part # "daemon" =>
        /\ n = Offset(command) => Head(todo) = Step("tray", "tray")
        /\ n = Offset(command) + 1 => Head(todo) = Step("write", "agentPlist")
        /\ n = Offset(command) + 2 => Head(todo) = Step("bootout", "agent")
        /\ n = Offset(command) + 3 => Head(todo) = Step("bootstrap", "agent")
  BY <1>2, <1>6, <1>8, InstallAgentSteps DEF Offset
<1>11. n >= (IF command.part = "daemon" THEN 10 ELSE Offset(command) + 4) =>
         Head(todo) = Step("complete", "completions")
  BY <1>1, <1>2, <1>3, <1>last, <1>6 DEF Offset
<1>12. n = 6 /\ command.part # "agent" => n + 4 < k
  BY <1>1, <1>3
<1>13. Head(todo).do # "remove"
  <2>1. CASE command.part = "agent"
    <3>1. n \in {0, 1, 2, 3}
      BY <1>3, <1>6, <2>1
    <3>2. QED
      BY <1>10, <2>1, <3>1 DEF Offset, Step
  <2>2. CASE command.part # "agent" /\ n < 10
    BY <1>6, <1>9, <2>2 DEF Step
  <2>3. CASE command.part = "both" /\ n >= 10
    BY <1>6, <1>10, <1>11, <2>3 DEF Offset, Step
  <2>4. CASE command.part = "daemon" /\ n >= 10
    BY <1>11, <2>4 DEF Step
  <2>5. QED
    BY <1>1, <1>6, <2>1, <2>2, <2>3, <2>4
<1>14. QED
  BY <1>1, <1>2, <1>6, <1>9, <1>10, <1>11, <1>12, <1>13 DEF n, s, k

(* Where an install is when it comes to the VHID daemon.                   *)
LEMMA VhiddHeads ==
  ASSUME SystemInv, StepsInv, todo # <<>>, Underway, command.verb = "install"
  PROVE  /\ Head(todo).do = "classify" => command.part # "agent" /\ Passed = 6
         /\ What = "vhiddPlist" => command.part # "agent" /\ Passed = 7
         /\ What = "vhidd" /\ Head(todo).do = "bootstrap" =>
              command.part # "agent" /\ Passed = 9
<1> DEFINE n == Passed
           k == Len(Sequel(command))
<1>1. command \in Command /\ n \in 0..14 /\ n < k
  BY PlacedHead
<1>2. command.part = "agent" => k = 4
  BY <1>1, InstallSequel
<1>3. command.part \in {"daemon", "agent", "both"}
  BY <1>1 DEF Command
<1> HIDE DEF n, k
<1>4. CASE command.part = "agent"
  <2>1. n \in {0, 1, 2, 3}
    BY <1>1, <1>2, <1>4
  <2>2. QED
    BY <1>4, <2>1, PlacedHead DEF n, Offset, Step, What
<1>5. CASE command.part # "agent" /\ n < 10
  <2>1. n \in {0, 1, 2, 3, 4, 5, 6, 7, 8, 9}
    BY <1>1, <1>5
  <2>2. QED
    BY <1>5, <2>1, PlacedHead DEF n, Step, What
<1>6. CASE command.part = "both" /\ n >= 10
  <2>1. n \in {10, 11, 12, 13, 14}
    BY <1>1, <1>6
  <2>2. QED
    BY <1>6, <2>1, PlacedHead DEF n, Offset, Step, What
<1>7. CASE command.part = "daemon" /\ n >= 10
  BY <1>7, PlacedHead DEF n, Step, What
<1>8. n < 10 \/ n >= 10
  BY <1>1
<1>9. QED
  BY <1>3, <1>4, <1>5, <1>6, <1>7, <1>8

LEMMA PlacedSteps ==
  ASSUME SystemInv, StepsInv, Placed, InstallSteps, todo # <<>>, Underway,
         command.verb = "install"
  PROVE  StepsInv' /\ Placed'
<1> DEFINE n == Passed
           c == command
           o == Offset(command)
<1>1. /\ c \in Command /\ n \in 0..14 /\ n < Len(Sequel(command))
      /\ Head(todo).do # "remove"
  BY PlacedHead
<1>2. c.release \in Release /\ o \in {0, 10}
  BY DEF StepsInv, Offset
<1> HIDE DEF n
<1>3. CASE BootstrapAgain
  <2>1. CASE attempt + 1 < Attempts
    <3>1. UNCHANGED <<todo, result, command, disk, program, jobs, job, phase, release>>
      BY <1>3, <2>1 DEF BootstrapAgain, lifeVars, process
    <3>2. Passed' = Passed /\ Offset(command)' = Offset(command)
      BY <3>1 DEF Passed, Sequel, Offset
    <3>3. QED
      BY <3>1, <3>2 DEF StepsInv, Placed, Underway, OurBundle, Rest, Sequel
  <2>2. CASE ~(attempt + 1 < Attempts)
    BY <1>3, <2>2 DEF BootstrapAgain, GivesUp, StepsInv, Placed, Underway
  <2>3. QED
    BY <2>1, <2>2
<1>4. CASE Classify
  <2>1. Head(todo).do = "classify"
    BY <1>4 DEF Classify, Does
  <2>2. c.part # "agent" /\ n = 6
    BY <2>1, VhiddHeads DEF n
  <2>3. n + 4 < Len(Sequel(command)) /\ SubSeq(todo, 5, Len(todo)) = Rest(n + 4)
    BY <2>2, PlacedHead DEF n
  <2>4. Tail(todo) = Rest(n + 1)
    BY PlacedHead DEF n
  <2>5. PICK m \in {n + 1, n + 4} : Continues(Rest(m))
    BY <1>4, <2>3, <2>4 DEF Classify
  <2>bound. m \in {7, 10} /\ m \in 0..15 /\ m <= Len(Sequel(command))
    <3> DEFINE k == Len(Sequel(command))
    <3>1. n + 4 < k /\ k \in 1..15
      BY <1>1, <2>3, SequelTyped
    <3> HIDE DEF k
    <3>2. m \in {7, 10} /\ m \in 0..15 /\ m <= k
      BY <2>2, <3>1
    <3>3. QED
      BY <3>2 DEF k
  <2>6. Passed' = m /\ StepsInv'
    BY <2>5, <2>bound, Moves
  <2>7. UNCHANGED <<command, disk, program, jobs, job, phase, release>>
    BY <1>4 DEF Classify, Continues, lifeVars, process
  <2>8. c.part # "daemon" => o = 10
    BY <2>2 DEF Offset
  <2>9. QED
    BY <2>2, <2>bound, <2>6, <2>7, <2>8 DEF Placed, Underway, OurBundle, n, Offset
<1>5. CASE Copy \/ PlaceTray \/ Write \/ Complete \/ BootsOut \/ BootOutFails \/ Bootstraps
  <2>1. Continues(Rest(n + 1))
    BY <1>5, PlacedHead DEF Copy, PlaceTray, Write, Complete, BootsOut, BootOutFails, Bootstraps,
       Done, n
  <2>2. Passed' = n + 1 /\ StepsInv' /\ command' = command
    <3>1. n + 1 \in 0..15 /\ n + 1 <= Len(Sequel(command))
      BY <1>1, SequelTyped
    <3>2. QED
      BY <2>1, <3>1, Moves DEF Continues
  <2>3. /\ c.part \in {"daemon", "agent", "both"}
        /\ c.pkg => disk["kanatad"] = c.release \/ c.part = "agent"
    BY <1>1 DEF Placed, Command
  <2>4. CASE c.part # "agent" /\ n < 10
    <3>1. /\ What \notin {"tray", "bundle", "agentPlist", "agent"}
          /\ Head(todo).do \notin {"tray", "complete"}
          /\ n # 0 => What # "kanatad"
          /\ n \notin {4, 5} => What # "daemon"
          /\ n = 0 => Head(todo).do = "copy" /\ What = "kanatad"
          /\ n = 5 => Head(todo).do = "bootstrap" /\ What = "daemon"
      BY <1>1, <2>4, PlacedHead DEF n, Step, What
    <3>2. disk'["kanatad"] = IF n = 0 THEN c.release ELSE disk["kanatad"]
      BY <1>5, <2>3, <2>4, <3>1
      DEF Copy, Write, PlaceTray, Complete, BootsOut, BootOutFails, Bootstraps, Does, SystemInv,
          InstallTypeOK, Path
    <3>3. n \notin {4, 5} => UNCHANGED <<job, phase, release>>
      BY <1>5, <3>1
      DEF Copy, Write, PlaceTray, Complete, BootsOut, BootOutFails, Bootstraps, lifeVars, process
    <3>4. n = 5 => job' = "in" /\ phase' = "none"
      BY <1>5, <3>1
      DEF Copy, Write, PlaceTray, Complete, BootsOut, BootOutFails, Bootstraps, Does, BootStrap,
          process, SystemInv, LifeInv
    <3>5. /\ Passed' >= 1 \/ c.pkg => disk'["kanatad"] = c.release
          /\ Passed' >= 6 => job' = "in" /\ (phase' # "none" => release' = c.release)
      BY <1>1, <2>2, <2>3, <2>4, <3>2, <3>3, <3>4 DEF Placed, n
    <3>6. c.part # "daemon" => Passed' <= o
      BY <1>1, <2>2, <2>4 DEF Offset
    <3>7. QED
      BY <1>1, <2>2, <2>4, <3>5, <3>6 DEF Placed, Offset, n
  <2>5. CASE c.part # "daemon" /\ n \in o..(o + 3)
    <3>1. /\ n = o => Head(todo).do = "tray" /\ What = "tray"
          /\ n = o + 1 => Head(todo).do = "write" /\ What = "agentPlist"
          /\ n = o + 2 => Head(todo).do = "bootout" /\ What = "agent"
          /\ n = o + 3 => Head(todo).do = "bootstrap" /\ What = "agent"
      BY <2>5, PlacedHead DEF n, Step, What
    <3>2. n \in {o, o + 1, o + 2, o + 3}
      BY <1>1, <1>2, <2>5
    <3>3. UNCHANGED <<job, phase, release>>
      BY <1>5, <3>1, <3>2
      DEF Copy, Write, PlaceTray, Complete, BootsOut, BootOutFails, Bootstraps, Does, lifeVars, process
    <3>4. disk'["kanatad"] = disk["kanatad"] /\ disk'["bundle"] = disk["bundle"]
      BY <1>5, <3>1, <3>2
      DEF Copy, Write, PlaceTray, Complete, BootsOut, BootOutFails, Bootstraps, Does, SystemInv,
          InstallTypeOK, Path
    <3>5. /\ n = o => OurBundle \/ disk'["tray"] = c.release
          /\ n # o => disk'["tray"] = disk["tray"]
      BY <1>5, <3>1, <3>2
      DEF Copy, Write, PlaceTray, Complete, BootsOut, BootOutFails, Bootstraps, Does, SystemInv,
          InstallTypeOK, Path
    <3>6. /\ n = o + 1 => program' = IF OurBundle THEN "bundle" ELSE "tray"
          /\ n # o + 1 => program' = program
      BY <1>5, <3>1, <3>2
      DEF Copy, Write, PlaceTray, Complete, BootsOut, BootOutFails, Bootstraps, Does
    <3>7. n = o + 3 => jobs'["agent"] = disk'[program'] /\ jobs'["agent"] # None
      <4>1. ASSUME n = o + 3
            PROVE  /\ program = IF OurBundle THEN "bundle" ELSE "tray"
                   /\ OurBundle \/ disk["tray"] = c.release
        BY <1>1, <1>2, <2>5, <4>1 DEF Placed, n
      <4>2. ASSUME n = o + 3 PROVE program # None /\ disk[program] # None
        BY <1>2, <4>1, <4>2, LifeAssumption, InstallAssumption DEF OurBundle
      <4>3. ASSUME n = o + 3
            PROVE  /\ jobs' = [jobs EXCEPT !["agent"] = disk[program]]
                   /\ UNCHANGED <<disk, program>>
        BY <1>5, <3>1, <4>2, <4>3
        DEF Copy, Write, PlaceTray, Complete, BootsOut, BootOutFails, Bootstraps, Does
      <4>4. QED
        BY <4>2, <4>3 DEF SystemInv, InstallTypeOK
    <3>8. c.part # "agent" => n >= 10
      BY <2>5 DEF Offset
    <3>9. OurBundle' <=> OurBundle
      BY <3>4 DEF OurBundle
    <3>10. c.part # "agent" =>
             /\ Passed' >= 1 \/ c.pkg => disk'["kanatad"] = c.release
             /\ Passed' >= 6 => job' = "in" /\ (phase' # "none" => release' = c.release)
      BY <1>1, <3>3, <3>4, <3>8 DEF Placed, n
    <3>11. /\ Passed' >= o + 1 => OurBundle' \/ disk'["tray"] = c.release
           /\ Passed' >= o + 2 => program' = IF OurBundle' THEN "bundle" ELSE "tray"
           /\ Passed' >= o + 4 => jobs'["agent"] = disk'[program'] /\ jobs'["agent"] # None
      BY <1>1, <1>2, <2>2, <2>5, <3>2, <3>5, <3>6, <3>7, <3>9 DEF Placed, n
    <3>12. Offset(command') = o
      BY <2>2
    <3>13. QED
      BY <2>2, <2>5, <3>10, <3>11, <3>12 DEF Placed, Offset
  <2>6. CASE n >= (IF c.part = "daemon" THEN 10 ELSE o + 4)
    <3>1. Head(todo).do = "complete" /\ What = "completions"
      BY <2>6, PlacedHead DEF n, Step, What
    <3>2. /\ UNCHANGED <<job, phase, release, program, jobs>>
          /\ disk' \in {disk, [disk EXCEPT !["completions"] = c.release]}
      BY <1>5, <3>1
      DEF Copy, Write, PlaceTray, Complete, BootsOut, BootOutFails, Bootstraps, Does, lifeVars, process
    <3>3. \A f \in Path \ {"completions"} : disk'[f] = disk[f]
      BY <3>2 DEF SystemInv, InstallTypeOK
    <3>4. /\ disk'["kanatad"] = disk["kanatad"] /\ disk'["bundle"] = disk["bundle"]
          /\ disk'["tray"] = disk["tray"]
      BY <3>3 DEF Path
    <3>5. c.part # "daemon" => disk'[program] = disk[program]
      BY <1>1, <1>2, <2>6, <3>4 DEF Placed, n
    <3>6. c.part # "agent" => n >= 10
      BY <1>1, <2>6 DEF Offset
    <3>7. OurBundle' <=> OurBundle
      BY <3>4 DEF OurBundle
    <3>8. c.part # "agent" =>
             /\ Passed' >= 1 \/ c.pkg => disk'["kanatad"] = c.release
             /\ Passed' >= 6 => job' = "in" /\ (phase' # "none" => release' = c.release)
      BY <1>1, <3>2, <3>4, <3>6 DEF Placed, n
    <3>9. c.part # "daemon" =>
           /\ OurBundle' \/ disk'["tray"] = c.release
           /\ program' = IF OurBundle' THEN "bundle" ELSE "tray"
           /\ jobs'["agent"] = disk'[program'] /\ jobs'["agent"] # None
      BY <1>1, <1>2, <2>6, <3>2, <3>4, <3>5, <3>7 DEF Placed, n
    <3>10. QED
      BY <2>2, <3>8, <3>9 DEF Placed, Offset
  <2>7. QED
    BY <1>1, <1>2, <2>3, <2>4, <2>5, <2>6 DEF Offset
<1>6. QED
  BY <1>1, <1>3, <1>4, <1>5 DEF InstallSteps, Remove, Does

ProgressInv == SystemInv /\ StepsInv /\ Removed /\ Placed

LEMMA ProgressInitial == InstallInit => ProgressInv
BY SystemInitial DEF InstallInit, ProgressInv, StepsInv, Removed, Placed, Underway

LEMMA NonePassed ==
  ASSUME NEW c \in Command, Begins(c)
  PROVE  Passed' = 0
<1> DEFINE k == Len(Sequel(c))
<1>1. k \in 1..15
  BY SequelTyped
<1> HIDE DEF k
<1>2. k - k = 0
  BY <1>1
<1>3. Passed' = k - k
  BY DEF Begins, Passed, k, Sequel
<1>4. QED
  BY <1>2, <1>3

LEMMA ProgressBegins ==
  ASSUME SystemInv, StepsInv, NEW c \in Command, Begins(c)
  PROVE  StepsInv' /\ Removed' /\ Placed'
<1>1. command' = c /\ todo' = Sequel(c) /\ result' = "running"
  BY DEF Begins
<1>2. c.verb = "install" => c.release \in Release
  BY InstallAssumption DEF Begins, SystemInv, InstallTypeOK
<1>3. Passed' = 0
  BY NonePassed
<1>4. \E n \in 0..Len(Sequel(command')) - 1 : todo' = Rest(n)'
  <2>1. Sequel(c) = SubSeq(Sequel(c), 1, Len(Sequel(c)))
    BY SequelTyped, SubSeqFull
  <2>2. Rest(0)' = SubSeq(Sequel(c), 0 + 1, Len(Sequel(c)))
    BY <1>1 DEF Rest, Sequel
  <2>3. Rest(0)' = todo'
    BY <1>1, <2>1, <2>2
  <2> DEFINE k == Len(Sequel(command'))
  <2>4. k \in 1..15
    BY <1>1, SequelTyped
  <2> HIDE DEF k
  <2>5. 0 \in 0..k - 1
    BY <2>4
  <2> USE DEF k
  <2>6. QED
    BY <2>3, <2>5
<1>5. StepsInv'
  BY <1>1, <1>2, <1>4 DEF StepsInv, Underway, Sequel
<1>6. Removed'
  BY <1>3 DEF Removed
<1>7. Placed'
  <2>1. c.pkg => disk'["kanatad"] = c.release
    BY DEF Begins, SystemInv, InstallTypeOK, Path
  <2>2. Offset(c) \in {0, 10}
    BY DEF Offset
  <2>3. QED
    BY <1>1, <1>3, <2>1, <2>2 DEF Placed, Offset
<1>8. QED
  BY <1>5, <1>6, <1>7

LEMMA PassedTyped ==
  ASSUME SystemInv, StepsInv, Underway
  PROVE  Passed \in 0..15
<1> DEFINE k == Len(Sequel(command))
<1>1. k \in 1..15
  BY SequelTyped DEF StepsInv
<1>2. CASE todo # <<>>
  <2>1. Passed \in 0..k - 1
    BY <1>2, AtStep
  <2> HIDE DEF k
  <2>2. QED
    BY <1>1, <2>1
<1>3. CASE todo = <<>>
  <2>1. Len(todo) = 0
    BY <1>3
  <2> HIDE DEF k
  <2>2. Passed = k - 0
    BY <2>1 DEF Passed, k
  <2>3. QED
    BY <1>1, <2>2
<1>4. QED
  BY <1>2, <1>3

LEMMA ProgressWaits ==
  ASSUME ProgressInv, DaemonSteps
  PROVE  StepsInv' /\ Removed' /\ Placed'
<1>1. /\ UNCHANGED <<program, jobs, command, todo, result, kept, found>>
      /\ \A f \in Path \ {"support"} : disk'[f] = disk[f]
      /\ job' = "in" <=> job = "in"
      /\ phase' # "none" =>
           \/ phase # "none" /\ release' = release
           \/ phase = "none" /\ release' = disk["kanatad"]
  BY DaemonKeeps DEF ProgressInv
<1>2. /\ Passed' = Passed /\ (Underway' <=> Underway)
      /\ Offset(command)' = Offset(command)
  BY <1>1 DEF Passed, Underway, Offset, Sequel
<1>3. StepsInv'
  BY <1>1, <1>2 DEF ProgressInv, StepsInv, Rest, Sequel
<1>4. Removed'
  BY <1>1, <1>2 DEF ProgressInv, Removed, Path
<1>5. Placed'
  <2>1. /\ disk'["bundle"] = disk["bundle"] /\ disk'["tray"] = disk["tray"]
        /\ disk'["kanatad"] = disk["kanatad"]
    BY <1>1 DEF Path
  <2>2. OurBundle' <=> OurBundle
    BY <2>1 DEF OurBundle
  <2>3. \A t \in {"bundle", "tray"} : disk'[t] = disk[t]
    BY <2>1
  <2>4. Underway /\ command.verb = "install" => Passed \in 0..15
    BY PassedTyped DEF ProgressInv
  <2>5. QED
    BY <1>1, <1>2, <2>1, <2>2, <2>3, <2>4 DEF ProgressInv, Placed, Offset
<1>6. QED
  BY <1>3, <1>4, <1>5

LEMMA ProgressStep == ProgressInv /\ [SystemNext]_systemVars => ProgressInv'
<1> SUFFICES ASSUME ProgressInv, [SystemNext]_systemVars PROVE ProgressInv'
  OBVIOUS
<1>1. SystemInv'
  BY SystemStep DEF ProgressInv
<1>2. ASSUME NEW c \in Command, Begins(c) PROVE ProgressInv'
  BY <1>1, <1>2, ProgressBegins DEF ProgressInv
<1>3. CASE InstallSteps
  <2>1. todo # <<>>
    BY <1>3 DEF InstallSteps, Copy, PlaceTray, Write, Complete, Classify, BootsOut,
      BootOutFails, Bootstraps, BootstrapAgain, Remove, Does
  <2>2. Underway
    BY <2>1 DEF ProgressInv, SystemInv, InstallTypeOK, Underway
  <2>3. command' = command \/ ~Underway'
    BY <1>3 DEF InstallSteps, Copy, PlaceTray, Write, Complete, Classify, BootsOut,
      BootOutFails, Bootstraps, BootstrapAgain, Remove, Done, Continues, GivesUp, Underway
  <2>4. CASE command.verb = "install"
    BY <1>1, <1>3, <2>1, <2>2, <2>4, PlacedSteps, <2>3
    DEF ProgressInv, Removed
  <2>5. CASE command.verb = "uninstall" /\ command.part = "both"
    BY <1>1, <1>3, <2>1, <2>2, <2>3, <2>5, RemovedSteps
    DEF ProgressInv, Placed
  <2>6. CASE command.verb = "uninstall" /\ command.part # "both"
    BY <1>1, <1>3, <2>1, <2>2, <2>3, <2>6, UninstallMoves
    DEF ProgressInv, Removed, Placed
  <2>7. command \in Command
    BY <2>2 DEF ProgressInv, StepsInv
  <2>8. QED
    BY <2>4, <2>5, <2>6, <2>7 DEF Command
<1>4. CASE Fails
  BY <1>1, <1>4 DEF Fails, GivesUp, ProgressInv, StepsInv, Removed, Placed, Underway
<1>5. CASE DaemonSteps
  BY <1>1, <1>5, ProgressWaits DEF ProgressInv
<1>6. QED
  BY <1>2, <1>3, <1>4, <1>5 DEF SystemNext, DaemonSteps

(* What the steps of a command already passed have placed or removed stays *)
(* placed or removed until the command ends.                               *)
THEOREM ProgressCorrect == SystemSpec => []ProgressInv
BY ProgressInitial, ProgressStep, PTL DEF SystemSpec

LEMMA AllPassed ==
  ASSUME ProgressInv, result = "done"
  PROVE  /\ Underway /\ command \in Command
         /\ Passed = Len(Sequel(command)) /\ Len(Sequel(command)) \in 1..15
<1>1. todo = <<>> /\ Underway /\ command \in Command
  BY DEF ProgressInv, SystemInv, StepsInv, InstallTypeOK, Underway
<1>2. Len(Sequel(command)) \in 1..15
  BY <1>1, SequelTyped
<1>3. Len(todo) = 0
  BY <1>1
<1> DEFINE k == Len(Sequel(command))
<1> HIDE DEF k
<1>4. k \in 1..15 /\ Passed = k - 0
  BY <1>2, <1>3 DEF Passed, k
<1>5. Passed = k
  BY <1>4
<1>6. QED
  BY <1>1, <1>2, <1>5 DEF k

(* An install that reports success has left nothing of an older release in *)
(* launchd (install.rs:277-321, 605-628).                                  *)
THEOREM UpgradedHolds == SystemSpec => []Upgraded
<1>1. ASSUME ProgressInv PROVE Upgraded
  <2> SUFFICES ASSUME Finished("install") PROVE Upgraded
    BY DEF Upgraded
  <2> DEFINE k == Len(Sequel(command))
  <2>1. command \in Command /\ command.verb = "install" /\ Passed = k /\ Underway
    BY <1>1, AllPassed DEF Finished
  <2>2. /\ k \in 1..15
        /\ command.part = "agent" => k = 4
        /\ command.part # "agent" => k = IF command.part = "both" THEN 15 ELSE 11
    BY <2>1, InstallSequel
  <2> HIDE DEF k
  <2>3. command.part \in {"daemon", "agent", "both"}
    BY <2>1 DEF Command
  <2>4. QED
    BY <1>1, <2>1, <2>2, <2>3 DEF ProgressInv, Placed, Offset, Upgraded
<1>2. QED
  BY <1>1, ProgressCorrect, PTL

(* An uninstall of everything that reports success has left no file of     *)
(* ours, the support directory and the remains of a bundle apart, and no   *)
(* job but those it could not boot out (install.rs:334-379, 572-600).      *)
THEOREM NothingLeftHolds == SystemSpec => []NothingLeft
<1>1. ASSUME ProgressInv PROVE NothingLeft
  <2> SUFFICES ASSUME Finished("uninstall"), command.part = "both" PROVE NothingLeft
    BY DEF NothingLeft
  <2> DEFINE k == Len(Sequel(command))
  <2>1. command \in Command /\ command.verb = "uninstall" /\ Passed = k /\ Underway
    BY <1>1, AllPassed DEF Finished
  <2>2. k = 14
    BY <2>1, UninstallSequel
  <2> HIDE DEF k
  <2>3. DOMAIN jobs = {"vhidd", "agent"}
    BY <1>1 DEF ProgressInv, SystemInv, InstallTypeOK
  <2>4. QED
    BY <1>1, <2>1, <2>2, <2>3 DEF ProgressInv, Removed, NothingLeft, Path
<1>2. QED
  BY <1>1, ProgressCorrect, PTL

-----------------------------------------------------------------------------
(* Between its look and the start of our VHID job an install remembers     *)
(* what it saw: a rival only where the job is ours or the list failed.     *)
Cleared ==
  /\ found \in [rival : BOOLEAN, management : Management]
  /\ found.rival => found.management \in {"ours", "unreadable"}

VhiddInv ==
  todo # <<>> /\ command.verb = "install" /\ command.part # "agent" =>
    (Passed \in {7, 8, 9} => Cleared)

LEMMA VhiddInstall ==
  ASSUME SystemInv, StepsInv, VhiddInv, InstallSteps, todo # <<>>, Underway,
         command.verb = "install"
  PROVE  VhiddInv' /\ (SetsUpVhidd => Cleared)
<1> DEFINE n == Passed
<1>1. /\ command \in Command
      /\ n \in 0..14 /\ n < Len(Sequel(command)) /\ Len(Sequel(command)) \in 1..15
      /\ Head(todo).do # "remove" /\ Tail(todo) = Rest(n + 1)
  BY PlacedHead, SequelTyped
<1>2. /\ command.part # "agent" /\ n = 6 => Head(todo).do = "classify"
      /\ command.part # "agent" /\ n = 9 => Head(todo).do = "bootstrap" /\ What = "vhidd"
      /\ command.part # "agent" /\ n = 7 => Head(todo).do = "write"
      /\ command.part # "agent" /\ n = 8 => Head(todo).do = "bootout"
  BY PlacedHead DEF Step, What
<1>3. /\ Head(todo).do = "classify" => command.part # "agent" /\ n = 6
      /\ What = "vhidd" /\ Head(todo).do = "bootstrap" => command.part # "agent" /\ n = 9
  BY VhiddHeads
<1> HIDE DEF n
<1>4. CASE BootstrapAgain
  <2>1. UNCHANGED jobs
    BY <1>4 DEF BootstrapAgain
  <2>2. todo' = <<>> \/ UNCHANGED <<todo, command, found>>
    BY <1>4 DEF BootstrapAgain, GivesUp
  <2>3. UNCHANGED <<todo, command>> => Passed' = Passed
    BY DEF Passed, Sequel
  <2>4. QED
    BY <2>1, <2>2, <2>3 DEF VhiddInv, SetsUpVhidd, Cleared
<1>5. CASE Classify
  <2>1. command.part # "agent" /\ n = 6
    BY <1>3, <1>5 DEF Classify, Does
  <2>2. n + 4 < Len(Sequel(command)) /\ SubSeq(todo, 5, Len(todo)) = Rest(n + 4)
    BY <2>1, PlacedHead DEF n
  <2>3. UNCHANGED <<jobs, command>>
    BY <1>5 DEF Classify, Continues
  <2>next. Tail(todo) = Rest(7) /\ SubSeq(todo, 5, Len(todo)) = Rest(10)
    <3>1. n + 1 = 7 /\ n + 4 = 10
      BY <2>1
    <3>2. QED
      BY <1>1, <2>2, <3>1
  <2>4. PICK driver \in BOOLEAN, rival \in BOOLEAN :
          \E management \in {Manager(rival), "unreadable"} :
            IF ShouldInstallVhidd(driver, management)
            THEN Continues(Tail(todo))
                   /\ found' = [rival |-> rival, management |-> management]
            ELSE Continues(SubSeq(todo, 5, Len(todo)))
    BY <1>5 DEF Classify
  <2>5. PICK management \in {Manager(rival), "unreadable"} :
          IF ShouldInstallVhidd(driver, management)
          THEN Continues(Tail(todo))
                 /\ found' = [rival |-> rival, management |-> management]
          ELSE Continues(SubSeq(todo, 5, Len(todo)))
    BY <2>4
  <2>6. CASE ShouldInstallVhidd(driver, management)
    <3>1. found' = [rival |-> rival, management |-> management]
      BY <2>5, <2>6
    <3>2. rival => management \in {"ours", "unreadable"}
      BY <2>6 DEF ShouldInstallVhidd, Manager
    <3>3. found' \in [rival : BOOLEAN, management : Management]
      BY <3>1 DEF Manager, Management
    <3>4. QED
      BY <2>3, <3>1, <3>2, <3>3 DEF VhiddInv, Cleared, SetsUpVhidd
  <2>7. CASE ~ShouldInstallVhidd(driver, management)
    <3>1. Continues(Rest(10))
      BY <2>next, <2>5, <2>7
    <3>2. 10 <= Len(Sequel(command))
      BY <1>1, <2>1, <2>2
    <3>3. Passed' = 10
      BY <3>1, <3>2, Moves
    <3>4. QED
      BY <2>3, <3>3 DEF VhiddInv, SetsUpVhidd
  <2>8. QED
    BY <2>6, <2>7
<1>6. CASE Copy \/ PlaceTray \/ Write \/ Complete \/ BootsOut \/ BootOutFails \/ Bootstraps
  <2>1. Continues(Rest(n + 1))
    BY <1>1, <1>6
    DEF Copy, PlaceTray, Write, Complete, BootsOut, BootOutFails, Bootstraps, Done
  <2>2. Passed' = n + 1 /\ command' = command
    <3>1. n + 1 \in 0..15 /\ n + 1 <= Len(Sequel(command))
      BY <1>1
    <3>2. QED
      BY <2>1, <3>1, Moves DEF Continues
  <2>3. CASE Bootstraps
    <3>1. Head(todo).do = "bootstrap"
      BY <2>3 DEF Bootstraps, Does
    <3>2. command.part # "agent" => n \notin {6, 7, 8}
      BY <1>2, <3>1
    <3>3. SetsUpVhidd => What = "vhidd"
      BY <2>3 DEF Bootstraps, SetsUpVhidd, SystemInv, InstallTypeOK
    <3>4. SetsUpVhidd => Cleared
      BY <1>3, <3>1, <3>3 DEF VhiddInv, n
    <3>5. QED
      BY <1>1, <2>2, <3>2, <3>4 DEF VhiddInv
  <2>4. CASE ~Bootstraps
    <3>1. UNCHANGED found
      BY <1>6, <2>4 DEF Copy, PlaceTray, Write, Complete, BootsOut, BootOutFails
    <3>2. ~SetsUpVhidd
      BY <1>6, <2>4
      DEF Copy, PlaceTray, Write, Complete, BootsOut, BootOutFails, SetsUpVhidd, SystemInv,
          InstallTypeOK
    <3>3. command.part # "agent" => n # 6
      BY <1>2, <1>6 DEF Copy, PlaceTray, Write, Complete, BootsOut, BootOutFails,
        Bootstraps, Does
    <3>4. n \in 0..14
      BY <1>1
    <3>5. QED
      BY <2>2, <3>1, <3>2, <3>3, <3>4 DEF VhiddInv, Cleared, n
  <2>5. QED
    BY <2>3, <2>4
<1>7. QED
  BY <1>1, <1>4, <1>5, <1>6 DEF InstallSteps, Remove, Does

LEMMA VhiddUninstall ==
  ASSUME SystemInv, StepsInv, InstallSteps, todo # <<>>, Underway,
         command.verb = "uninstall"
  PROVE  VhiddInv' /\ ~SetsUpVhidd
<1>1. (BootsOut \/ BootOutFails \/ Remove) /\ command' = command
  BY UninstallMoves
<1>2. jobs'["vhidd"] \in {None, jobs["vhidd"]}
  BY <1>1 DEF BootsOut, BootOutFails, Remove, SystemInv, InstallTypeOK
<1>3. QED
  BY <1>1, <1>2 DEF VhiddInv, SetsUpVhidd

LEMMA VhiddStep ==
  ASSUME ProgressInv, VhiddInv, [SystemNext]_systemVars
  PROVE  VhiddInv' /\ (SetsUpVhidd => Cleared)
<1> USE DEF ProgressInv
<1>1. ASSUME NEW c \in Command, Begins(c)
      PROVE  VhiddInv' /\ ~SetsUpVhidd
  <2>1. Passed' = 0
    BY <1>1, NonePassed
  <2>2. QED
    BY <1>1, <2>1 DEF Begins, VhiddInv, SetsUpVhidd
<1>2. CASE InstallSteps
  <2>1. todo # <<>>
    BY <1>2 DEF InstallSteps, Copy, PlaceTray, Write, Complete, Classify, BootsOut,
      BootOutFails, Bootstraps, BootstrapAgain, Remove, Does
  <2>2. Underway
    BY <2>1 DEF SystemInv, InstallTypeOK, Underway
  <2>3. command.verb \in {"install", "uninstall"}
    BY <2>2 DEF StepsInv, Command
  <2>4. QED
    BY <1>2, <2>1, <2>2, <2>3, VhiddInstall, VhiddUninstall
<1>3. CASE Fails
  BY <1>3 DEF Fails, GivesUp, VhiddInv, SetsUpVhidd
<1>4. CASE DaemonSteps
  <2>1. UNCHANGED <<jobs, command, todo, found>>
    BY <1>4, DaemonKeeps
  <2>2. Passed' = Passed
    BY <2>1 DEF Passed, Sequel
  <2>3. QED
    BY <2>1, <2>2 DEF VhiddInv, SetsUpVhidd, Cleared
<1>5. QED
  BY <1>1, <1>2, <1>3, <1>4 DEF SystemNext, DaemonSteps

(* What an install remembers of its look until it starts our VHID job.     *)
THEOREM VhiddCorrect == SystemSpec => []VhiddInv
<1>1. InstallInit => VhiddInv
  BY DEF InstallInit, VhiddInv
<1>2. ProgressInv /\ VhiddInv /\ [SystemNext]_systemVars => VhiddInv'
  BY VhiddStep
<1>3. QED
  BY <1>1, <1>2, ProgressCorrect, PTL DEF SystemSpec

(* Our VHID job is started beside a rival only where it was ours already,  *)
(* or where launchctl gave no list, wherever earlier commands stopped      *)
(* (install.rs:387-438, vhidd.rs:7-10).                                    *)
THEOREM SetUpAloneHolds == SystemSpec => SetUpAlone
<1>1. ProgressInv /\ VhiddInv /\ [SystemNext]_systemVars =>
        [SetsUpVhidd /\ found.rival
           => found.management \in {"ours", "unreadable"}]_systemVars
  BY VhiddStep DEF Cleared
<1>2. QED
  BY <1>1, ProgressCorrect, VhiddCorrect, PTL DEF SystemSpec, SetUpAlone

-----------------------------------------------------------------------------
(* The daemons that follow each other, seen as the one keeper of           *)
(* RevivedKeeper.tla.                                                      *)

(* What the keeper shows: the kanatas that are no leftovers.               *)
Procs == Kanatas \ Leftover

(* OneKanata says nothing of a boot.  One of them at most is alive all the *)
(* time, since a daemon starts one only where there is none.               *)
Alone == \A p, q \in Procs : p = q

Wanted == phase \in Supervised

LEMMA NobodySecond ==
  ASSUME LifeInv, phase \in Keeps
  PROVE  Procs \subseteq {child} /\ (child = None => Procs = {})
BY LifeAssumption DEF LifeInv, OneKanata, Keeps, Kanatas, Procs

LEMMA SameShown ==
  ASSUME UNCHANGED <<phase, running>>
  PROVE  UNCHANGED Procs /\ UNCHANGED Revival!keeper
BY DEF running, Kanatas, Leftover, Procs, Revival!keeper

(* One process at most goes, and nothing else that the keeper shows.       *)
LEMMA OneLess ==
  ASSUME Alone, NEW p, Procs' = Procs \ {p}, Wanted' = Wanted
  PROVE  [Revival!RevivedNext]_(Revival!keeper) /\ Alone'
<1>1. CASE p \in Procs
  <2>1. Procs' = {}
    BY <1>1 DEF Alone
  <2>2. Revival!Die
    BY <1>1, <2>1 DEF Revival!Die, Procs, Wanted
  <2>3. QED
    BY <2>1, <2>2 DEF Revival!RevivedNext, Alone
<1>2. CASE p \notin Procs
  <2>1. Procs' = Procs
    BY <1>2
  <2>2. QED
    BY <2>1 DEF Revival!keeper, Procs, Wanted, Alone
<1>3. QED
  BY <1>1, <1>2

LEMMA ShownEnds ==
  ASSUME LifeTypeOK, NEW p \in Pid, Ends(p)
  PROVE  Procs' = Procs \ {p}
BY Ended DEF Procs

LEMMA BootRevives ==
  ASSUME LifeInv, Alone, BootSteps
  PROVE  [Revival!RevivedNext]_(Revival!keeper) /\ Alone'
<1>1. CASE GraceOver
  <2>1. Procs' = Procs \ {victim}
    BY <1>1 DEF GraceOver, Kanatas, Leftover, Procs
  <2>2. QED
    BY <1>1, <2>1, OneLess DEF GraceOver, Wanted
<1>2. CASE ScansNothing
  <2>1. Procs' = {} /\ Wanted' = Wanted
    BY <1>2 DEF ScansNothing, Kanatas, Leftover, Procs, Wanted, Supervised
  <2>2. CASE Procs = {}
    BY <2>1, <2>2 DEF Revival!keeper, Procs, Wanted, Alone
  <2>3. CASE Procs # {}
    <3>1. Revival!Die
      BY <2>1, <2>3 DEF Revival!Die, Procs, Wanted
    <3>2. QED
      BY <2>1, <3>1 DEF Revival!RevivedNext, Alone
  <2>4. QED
    BY <2>2, <2>3
<1>3. CASE BootEnds
  <2>1. Procs = {} /\ Procs' = {}
    BY <1>3, LifeAssumption
    DEF BootEnds, LifeInv, running, Kanatas, Leftover, Procs
  <2>2. Revival!TakeOver
    BY <1>3, <2>1 DEF BootEnds, Revival!TakeOver, Revival!Want, Procs, Supervised
  <2>3. QED
    BY <2>1, <2>2 DEF Revival!RevivedNext, Alone
<1>4. CASE LoadRecord \/ VictimGone \/ ScanStrays \/ SweepStray \/ Binds
  <2>1. UNCHANGED running /\ Wanted' = Wanted
    BY <1>4 DEF LoadRecord, VictimGone, ScanStrays, SweepStray, Binds, Wanted, Supervised
  <2>2. Procs' = Procs
    BY <2>1 DEF running, Kanatas, Leftover, Procs
  <2>3. QED
    BY <2>1, <2>2 DEF Revival!keeper, Procs, Wanted, Alone
<1>5. QED
  BY <1>1, <1>2, <1>3, <1>4 DEF BootSteps

LEMMA SupervisorRevives ==
  ASSUME LifeInv, Alone, SupervisorSteps
  PROVE  [Revival!RevivedNext]_(Revival!keeper) /\ Alone'
<1>1. CASE Spawn
  <2>1. Procs = {} /\ phase \in Supervised /\ UNCHANGED phase
    BY <1>1, NobodySecond DEF Spawn, Keeps
  <2>2. PICK p \in Pid, b \in Binary :
          exe[p] = None /\ exe' = [exe EXCEPT ![p] = b]
    BY <1>1 DEF Spawn
  <2>3. p \notin Leftover /\ UNCHANGED Leftover
    BY <1>1, <2>2 DEF Spawn, LifeInv, Leftover
  <2>4. Kanatas' \subseteq Kanatas \cup {p} /\ Kanatas \subseteq Leftover
    BY <2>1, <2>2 DEF LifeInv, LifeTypeOK, Kanatas, Procs
  <2>5. Procs' \in {{}, {p}}
    BY <2>3, <2>4 DEF Procs
  <2>6. Procs' = {p} => Revival!Launch
    BY <2>1 DEF Revival!Launch, Procs
  <2>7. Procs' = {} => UNCHANGED Revival!keeper
    BY <2>1 DEF Revival!keeper, Procs
  <2>8. QED
    BY <2>5, <2>6, <2>7 DEF Alone, Revival!RevivedNext
<1>2. CASE StopChild
  <2>1. child \in Pid /\ Ends(child) /\ Wanted' = Wanted
    BY <1>2 DEF StopChild, LifeInv, LifeTypeOK, Wanted
  <2>2. QED
    BY <2>1, ShownEnds, OneLess DEF LifeInv
<1>3. CASE Save \/ Reap
  BY <1>3, SameShown DEF Save, Reap, Alone
<1>4. QED
  BY <1>1, <1>2, <1>3 DEF SupervisorSteps

LEMMA ShutdownRevives ==
  ASSUME LifeInv, Alone, ShutdownSteps
  PROVE  [Revival!RevivedNext]_(Revival!keeper) /\ Alone'
<1>1. CASE ShutsDown
  <2>1. UNCHANGED Procs
    BY <1>1 DEF ShutsDown, running, Kanatas, Leftover, Procs
  <2>2. Revival!Crash
    BY <1>1, <2>1 DEF ShutsDown, Revival!Crash, Procs, Supervised
  <2>3. QED
    BY <2>1, <2>2 DEF Alone, Revival!RevivedNext
<1>2. CASE Terminated \/ ExitsCleanly
  <2>1. UNCHANGED running /\ Wanted' = Wanted
    BY <1>2 DEF Terminated, ExitsCleanly, Gone, Wanted, Supervised
  <2>2. Procs' = Procs
    BY <2>1 DEF running, Kanatas, Leftover, Procs
  <2>3. QED
    BY <2>1, <2>2 DEF Revival!keeper, Procs, Wanted, Alone
<1>3. QED
  BY <1>1, <1>2, SupervisorRevives DEF ShutdownSteps

LEMMA FaultRevives ==
  ASSUME LifeInv, Alone, LifeFaults
  PROVE  [Revival!RevivedNext]_(Revival!keeper) /\ Alone'
<1>1. CASE DaemonKilled
  <2>1. Procs' = Procs \/ Procs' = Procs \ {child}
    <3>1. child # None => child \in Pid
      BY DEF LifeInv, LifeTypeOK
    <3>2. CASE UNCHANGED running
      BY <3>2 DEF running, Kanatas, Leftover, Procs
    <3>3. CASE child # None /\ Ends(child)
      BY <3>1, <3>3, ShownEnds DEF LifeInv
    <3>4. QED
      BY <1>1, <3>2, <3>3 DEF DaemonKilled
  <2>2. ~Wanted'
    BY <1>1 DEF DaemonKilled, Gone, Wanted, Supervised
  <2>3. CASE Wanted
    <3>1. Procs \subseteq {child}
      BY <2>3, NobodySecond DEF Wanted, Keeps
    <3>2. Procs' \in {Procs, {}}
      BY <2>1, <3>1
    <3>3. Revival!Crash
      BY <2>2, <2>3, <3>2 DEF Revival!Crash, Procs, Wanted
    <3>4. QED
      BY <3>2, <3>3 DEF Revival!RevivedNext, Alone
  <2>4. CASE ~Wanted
    <3>1. Wanted' = Wanted
      BY <2>2, <2>4 DEF Wanted
    <3>2. Procs' = Procs \ {child} \/ Procs' = Procs
      BY <2>1
    <3>3. CASE Procs' = Procs
      BY <3>1, <3>3 DEF Revival!keeper, Procs, Wanted, Alone
    <3>4. QED
      BY <3>1, <3>2, <3>3, OneLess
  <2>5. QED
    BY <2>3, <2>4
<1>2. CASE BindFails \/ SaveFails
  <2>1. UNCHANGED running /\ Wanted' = Wanted
    BY <1>2 DEF BindFails, SaveFails, Wanted, Supervised
  <2>2. Procs' = Procs
    BY <2>1 DEF running, Kanatas, Leftover, Procs
  <2>3. QED
    BY <2>1, <2>2 DEF Revival!keeper, Procs, Wanted, Alone
<1>3. ASSUME NEW p \in Pid, Exits(p)
      PROVE  [Revival!RevivedNext]_(Revival!keeper) /\ Alone'
  <2>1. Ends(p) /\ Wanted' = Wanted
    BY <1>3 DEF Exits, process, Wanted
  <2>2. QED
    BY <2>1, ShownEnds, OneLess DEF LifeInv
<1>4. ASSUME NEW p \in Pid, Reused(p)
      PROVE  [Revival!RevivedNext]_(Revival!keeper) /\ Alone'
  <2>1. Procs' = Procs /\ Wanted' = Wanted
    BY <1>4, LifeAssumption
    DEF Reused, process, LifeInv, LifeTypeOK, Kanatas, Leftover, Procs, Wanted
  <2>2. QED
    BY <2>1 DEF Revival!keeper, Procs, Wanted, Alone
<1>5. QED
  BY <1>1, <1>2, <1>3, <1>4 DEF LifeFaults

LEMMA RevivalInitial == LifeInit => Revival!KeeperInit /\ Alone
BY LifeAssumption
DEF LifeInit, Kanatas, Leftover, Procs, Supervised, Alone, Revival!KeeperInit

LEMMA RevivalStep ==
  ASSUME LifeInv, Alone, DaemonMoves
  PROVE  [Revival!RevivedNext]_(Revival!keeper) /\ Alone'
<1>1. CASE (\E r \in Release : Launch(r)) \/ BootOut \/ BootStrap
  <2>1. UNCHANGED running /\ Wanted' = Wanted
    BY <1>1 DEF Launch, BootOut, BootStrap, process, Wanted, Supervised
  <2>2. Procs' = Procs
    BY <2>1 DEF running, Kanatas, Leftover, Procs
  <2>3. QED
    BY <2>1, <2>2 DEF Revival!keeper, Procs, Wanted, Alone
<1>2. CASE BootSteps
  BY <1>2, BootRevives
<1>3. CASE SupervisorSteps \/ ShutdownSteps
  BY <1>3, SupervisorRevives, ShutdownRevives
<1>4. CASE LifeFaults
  BY <1>4, FaultRevives
<1>5. CASE UNCHANGED <<phase, running>>
  BY <1>5, SameShown DEF Alone
<1>6. QED
  BY <1>1, <1>2, <1>3, <1>4, <1>5 DEF DaemonMoves, LifeNext

(* The daemons implement the keeper that may be revived: kanata is started *)
(* only by a daemon that took over when none but leftovers was there,      *)
(* through kills, failed writes of state.json, scans that find nothing and *)
(* pids that are reused (main.rs:283-316, orphan.rs:37-110,                *)
(* supervisor.rs:590-606).                                                 *)
THEOREM LifeRevives == LifeSpec => KeptAcrossRestarts
<1>1. LifeInv /\ Alone /\ [LifeNext]_lifeVars
        => [Revival!RevivedNext]_(Revival!keeper) /\ Alone'
  BY RevivalStep DEF DaemonMoves, lifeVars, process
<1>2. QED
  BY <1>1, RevivalInitial, LifeCorrect, PTL
  DEF LifeSpec, KeptAcrossRestarts, Revival!RevivedSpec

(* And they go on doing so whatever kanatactl installs, upgrades or        *)
(* removes meanwhile (install.rs:277-379).                                 *)
THEOREM KeptAcrossRestartsHolds == SystemSpec => KeptAcrossRestarts
<1>1. SystemInv /\ Alone /\ [SystemNext]_systemVars
        => [Revival!RevivedNext]_(Revival!keeper) /\ Alone'
  BY CommandsMoveDaemons, RevivalStep DEF SystemInv
<1>2. InstallInit => Revival!KeeperInit /\ Alone
  BY RevivalInitial DEF InstallInit
<1>3. QED
  BY <1>1, <1>2, SystemCorrect, PTL
  DEF SystemSpec, KeptAcrossRestarts, Revival!RevivedSpec
=============================================================================
