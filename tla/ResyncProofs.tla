----------------------------- MODULE ResyncProofs -----------------------------
(***************************************************************************)
(* Theorems about Resync.tla, for any devices, users, pids and capacities. *)
(* The composition behaves like the supervisor alone, so everything proved *)
(* in SupervisorProofs.tla holds of it; and the Restarts of the two tasks  *)
(* never end a pause.                                                      *)
(***************************************************************************)
EXTENDS Resync, SupervisorProofs, DeviceMonitorProofs

(* Seen from the supervisor, the two tasks are clients of its channel, and *)
(* the devices are nothing at all.                                         *)
LEMMA ResyncStep ==
  ASSUME [ResyncNext]_system
  PROVE  [Next]_vars
<1>1. ASSUME SendRestart PROVE [Next]_vars
  <2>1. "Restart" \in Command
    BY DEF Command, UserEvent
  <2>2. QED
    BY <1>1, <2>1 DEF SendRestart, Next, Environment
<1>2. CASE SupervisorSteps
  BY <1>2, ResyncAssumption DEF SupervisorSteps, SupervisorStep, Next, Environment
<1>3. CASE DevicesChange \/ DeviceTaskReceives \/ DebounceFires
  BY <1>3 DEF DevicesChange, DeviceTaskReceives, DebounceFires
<1>4. CASE DeviceTaskSends \/ WakeTaskSends
  BY <1>1, <1>4 DEF DeviceTaskSends, WakeTaskSends
<1>5. CASE WakeTaskReceives
  BY <1>5 DEF WakeTaskReceives
<1>6. CASE UNCHANGED system
  BY <1>6 DEF system
<1>7. QED
  BY <1>2, <1>3, <1>4, <1>5, <1>6 DEF ResyncNext

(* The composition implements the supervisor: whatever the device and the  *)
(* wake task do, nothing they do is more than a command of a client.       *)
THEOREM ResyncIsSupervisor == ResyncSpec => Spec
<1>1. ResyncInit => Init
  BY DEF ResyncInit
<1>2. QED
  BY <1>1, ResyncStep, PTL DEF ResyncSpec, Spec

(* Automatic restarts never leave two kanata processes alive.              *)
THEOREM ResyncOwnsItsKanata == ResyncSpec => []OwnsItsKanata
BY ResyncIsSupervisor, OwnsItsKanataHolds, PTL

(* Snapshot, state.json and events stay as right as they were, an outage   *)
(* of the output backend is reported as before, and each dispatch ends.    *)
THEOREM ResyncPublishes ==
  ResyncSpec => [](PublishedAgree /\ TimersMatchState /\ BackendReported /\ NeverStuck)
BY ResyncIsSupervisor, PublishedAgreeHolds, TimersMatchStateHolds, BackendReportedHolds,
  NeverStuckHolds, PTL

-----------------------------------------------------------------------------
TasksTypeOK ==
  /\ MonitorTypeOK
  /\ deviceTask \in {"Idle", "Sending"}
  /\ wakeTask \in {"Idle", "Sending"}

LEMMA TasksTypeStep ==
  ASSUME TasksTypeOK, [ResyncNext]_system
  PROVE  TasksTypeOK'
<1> USE DEF TasksTypeOK
<1>1. CASE SupervisorSteps
  BY <1>1 DEF SupervisorSteps, MonitorTypeOK, resync
<1>2. CASE DevicesChange
  <2>1. [MonitorNext]_monitor
    BY <1>2 DEF DevicesChange, MonitorNext
  <2>2. QED
    BY <1>2, <2>1, TypeStep DEF DevicesChange, resync
<1>3. CASE DeviceTaskReceives
  <2>1. [MonitorNext]_monitor
    BY <1>3 DEF DeviceTaskReceives, MonitorNext
  <2>2. QED
    BY <1>3, <2>1, TypeStep DEF DeviceTaskReceives, resync
<1>4. CASE DebounceFires
  BY <1>4 DEF DebounceFires, DeadlineFires, RestartIfRunning, MonitorTypeOK
<1>5. CASE DeviceTaskSends \/ WakeTaskSends
  BY <1>5 DEF DeviceTaskSends, WakeTaskSends, monitor, MonitorTypeOK
<1>6. CASE WakeTaskReceives
  BY <1>6 DEF WakeTaskReceives, RestartIfRunning, monitor, MonitorTypeOK
<1>7. CASE UNCHANGED system
  BY <1>7 DEF system, monitor, resync, MonitorTypeOK
<1>8. QED
  BY <1>1, <1>2, <1>3, <1>4, <1>5, <1>6, <1>7 DEF ResyncNext

(* Types of the composition.                                               *)
THEOREM ResyncTypeCorrect == ResyncSpec => []ResyncTypeOK
<1>1. ResyncInit => TasksTypeOK
  BY TypeInitial, ResyncAssumption DEF ResyncInit, TasksTypeOK
<1>2. TasksTypeOK /\ [ResyncNext]_system => TasksTypeOK'
  BY TasksTypeStep
<1>3. TypeOK /\ TasksTypeOK => ResyncTypeOK
  BY DEF TasksTypeOK, ResyncTypeOK
<1>4. QED
  BY <1>1, <1>2, <1>3, ResyncIsSupervisor, TypeCorrect, PTL DEF ResyncSpec

-----------------------------------------------------------------------------
(* In Paused the transition table has rows for three events only.          *)
LEMMA PausedRows ==
  ASSUME NEW m, NEW e, m.state = "Paused", e \notin {"Start", "Resume", "Stop"}
  PROVE  Handle(m, e).machine = m
BY DEF Handle, RestartsFromIdle, BackendDegraded, Ignore, Outcome

(* The machine moves where the supervisor handles an event, and nowhere    *)
(* else.                                                                   *)
LEMMA OnlyHandlingMoves ==
  ASSUME [ResyncNext]_system, machine' # machine
  PROVE  HandleEvent
<1>1. ASSUME SendRestart PROVE FALSE
  BY <1>1 DEF SendRestart, Send, vars, task
<1>2. CASE SupervisorSteps
  <2>1. ~Select
    BY DEF Select, ReceiveShutdown, ReceiveCommand, ChildExited, BackendDown,
           BackendUp, BackoffElapsed, HealthyElapsed, BackendGraceElapsed, Fires,
           GrantPollElapsed
  <2>2. ASSUME Busy PROVE HandleEvent
    BY <2>2 DEF Busy, GrantsReady, GrantsMissing, StopNothing, StopBegins, StopEnds,
       ArmBackoff, ArmHealthyTimer, ArmTimer, SpawnBegins, Spawned, SpawnRefused,
       Settle, SettleIgnored, Notify, HandleNext, ReturnToLoop, ReturnAndPublish,
       ReturnAndExit
  <2>3. ~ProcessExits /\ ~SignalKills
    BY DEF ProcessExits, SignalKills, task
  <2>4. (\A c \in UserCommand : ~Send(c)) /\ (\A b \in BackendLine : ~PrintBackend(b))
    BY DEF Send, PrintBackend, task
  <2>5. QED
    BY <1>2, <2>1, <2>2, <2>3, <2>4 DEF SupervisorSteps, SupervisorStep
<1>3. CASE DevicesChange \/ DeviceTaskReceives \/ DebounceFires
  BY <1>3 DEF DevicesChange, DeviceTaskReceives, DebounceFires, vars, task
<1>4. CASE DeviceTaskSends \/ WakeTaskSends
  BY <1>1, <1>4 DEF DeviceTaskSends, WakeTaskSends
<1>5. CASE WakeTaskReceives
  BY <1>5 DEF WakeTaskReceives, vars, task
<1>6. CASE UNCHANGED system
  BY <1>6 DEF system, vars, task
<1>7. QED
  BY <1>2, <1>3, <1>4, <1>5, <1>6 DEF ResyncNext

(* A hotplug or a wake never ends a pause: however old the snapshot was    *)
(* that a task looked at, its Restart is ignored once the pause is in      *)
(* force.                                                                  *)
THEOREM PausedStaysPausedHolds == ResyncSpec => PausedStaysPaused
<1>1. [ResyncNext]_system =>
        [machine.state = "Paused" /\ machine'.state # "Paused" =>
           Head(queue) \in {"Start", "Resume", "Stop"}]_system
  <2> SUFFICES ASSUME [ResyncNext]_system,
                      machine.state = "Paused", machine'.state # "Paused"
               PROVE  Head(queue) \in {"Start", "Resume", "Stop"}
    OBVIOUS
  <2>1. machine' = Handle(machine, Head(queue)).machine
    BY OnlyHandlingMoves DEF HandleEvent
  <2>2. QED
    BY <2>1, PausedRows
<1>2. QED
  BY <1>1, PTL DEF ResyncSpec, PausedStaysPaused
-----------------------------------------------------------------------------
(* No keyboard is missed.                                                  *)

(* A kanata that is not Running starts before it is, and one that is kept  *)
(* without its output backend gets it back before it is: either way it     *)
(* enumerates the devices, unless the report is already on its way.        *)
EnumeratesFirst ==
  /\ machine.state # "Running"
  /\ BackendDegraded(machine) => \A i \in DOMAIN lines : lines[i] # "Up"
  /\ \A i \in DOMAIN queue :
       queue[i] \notin {"SpawnSucceeded", "OutputBackendRecovered",
                        "OutputBackendUnavailable"}

MissedInv ==
  unsettled =>
    \/ InPipeline \/ deviceTask = "Sending" \/ RestartQueued \/ RestartHandled
    \/ EnumeratesFirst \/ pc = "Exited"

(* The rows that lead to Running, and to the degradation without a child's *)
(* end, are those of these three events.                                   *)
LEMMA HandleElsewhere ==
  ASSUME NEW m \in MachineType, m.state # "Running",
         NEW e, e \notin {"SpawnSucceeded", "OutputBackendRecovered",
                          "OutputBackendUnavailable"}
  PROVE  /\ Handle(m, e).machine.state # "Running"
         /\ BackendDegraded(Handle(m, e).machine) => BackendDegraded(m)
<1> DEFINE out == Handle(m, e)
<1>1. FreshBudget(m) \in MachineType
  BY FreshBudgetType
<1>2. CASE \/ m.state = "Degraded" /\ e = "Start"
           \/ m.state \in {"Stopped", "Paused", "Backoff"} /\ e = "Start"
           \/ m.state = "Paused" /\ e = "Resume"
  <2>1. out.machine.state = "Starting"
    BY <1>1, <1>2, EnterFields DEF Handle, RestartsFromIdle, DegradedReason
  <2>2. QED
    BY <2>1 DEF BackendDegraded
<1>3. CASE m.state \in {"Degraded", "Stopped", "Backoff"} /\ e = "Restart"
  <2>1. out.machine.state = "Starting"
    BY <1>3, EnterFields DEF Handle, RestartsFromIdle, DegradedReason
  <2>2. QED
    BY <2>1 DEF BackendDegraded
<1>4. CASE m.state \in {"Starting", "Degraded", "Backoff", "Paused"} /\ e = "Stop"
  <2>1. out.machine.state = "Stopped"
    BY <1>4, EnterFields DEF Handle, RestartsFromIdle, DegradedReason
  <2>2. QED
    BY <2>1 DEF BackendDegraded
<1>5. CASE m.state = "Starting" /\ e \in {"SpawnFailed", "Crash"}
  <2>1. out = OnFailure(m)
    BY <1>5 DEF Handle, RestartsFromIdle, DegradedReason
  <2>2. QED
    BY <2>1, OnFailureFields DEF BackendDegraded
<1>6. CASE m.state = "Starting" /\ e = "PanicEscape"
  <2>1. out.machine.state = "Stopped"
    BY <1>6, EnterFields DEF Handle, RestartsFromIdle, DegradedReason
  <2>2. QED
    BY <2>1 DEF BackendDegraded
<1>7. CASE m.state = "Backoff" /\ e = "BackoffElapsed"
  <2>1. out.machine.state = "Starting"
    BY <1>7, EnterFields DEF Handle, RestartsFromIdle, DegradedReason
  <2>2. QED
    BY <2>1 DEF BackendDegraded
<1>8. CASE m.state \in {"Starting", "Backoff"} /\ e \in DegradedReason
  <2>1. out = EnterDegraded(m, e, <<>>)
    BY <1>8 DEF Handle, RestartsFromIdle, DegradedReason
  <2>2. QED
    BY <2>1, EnterDegradedFields DEF BackendDegraded
<1>9. CASE ~ \/ m.state = "Degraded" /\ e = "Start"
             \/ m.state \in {"Stopped", "Paused", "Backoff"} /\ e = "Start"
             \/ m.state = "Paused" /\ e = "Resume"
             \/ m.state \in {"Degraded", "Stopped", "Backoff"} /\ e = "Restart"
             \/ m.state \in {"Starting", "Degraded", "Backoff", "Paused"} /\ e = "Stop"
             \/ m.state = "Starting" /\ e \in {"SpawnFailed", "Crash", "PanicEscape"}
             \/ m.state = "Backoff" /\ e = "BackoffElapsed"
             \/ m.state \in {"Starting", "Backoff"} /\ e \in DegradedReason
  <2>1. out = Ignore(m)
    BY <1>9 DEF Handle, RestartsFromIdle
  <2>2. QED
    BY <2>1, IgnoreFields
<1>10. QED
  BY <1>2, <1>3, <1>4, <1>5, <1>6, <1>7, <1>8, <1>9

(* A Restart leaves no state that is Running without a spawn.              *)
LEMMA HandleRestart ==
  ASSUME NEW m \in MachineType
  PROVE  /\ Handle(m, "Restart").machine.state # "Running"
         /\ ~BackendDegraded(Handle(m, "Restart").machine)
<1> DEFINE out == Handle(m, "Restart")
<1>1. CASE m.state \in {"Running", "Degraded", "Stopped", "Backoff"}
  <2>1. out.machine.state = "Starting"
    BY <1>1, EnterFields DEF Handle, RestartsFromIdle, DegradedReason
  <2>2. QED
    BY <2>1 DEF BackendDegraded
<1>2. CASE m.state \in {"Starting", "Paused"}
  <2>1. out = Ignore(m)
    BY <1>2 DEF Handle, RestartsFromIdle, DegradedReason, BackendDegraded
  <2>2. QED
    BY <1>2, <2>1, IgnoreFields DEF BackendDegraded
<1>3. QED
  BY <1>1, <1>2 DEF MachineType, SupervisorState

(* What the supervisor does with a Restart that waits in its channel.      *)
LEMMA QueuedIsHandled ==
  ASSUME TypeOK, SupervisorStep, RestartQueued
  PROVE  RestartQueued' \/ RestartHandled'
<1>1. PICK i \in DOMAIN inbox : inbox[i] = "Restart"
  BY DEF RestartQueued
<1>2. inbox \in Seq(Command)
  BY DEF TypeOK
<1>3. CASE ReceiveShutdown \/ ReceiveCommand
  <2>1. inbox # <<>> /\ inbox' = Tail(inbox)
    BY <1>3 DEF ReceiveShutdown, ReceiveCommand
  <2>2. CASE i = 1
    <3>1. Head(inbox) = "Restart"
      BY <1>1, <1>2, <2>1, <2>2
    <3>2. ~ReceiveShutdown
      BY <3>1 DEF ReceiveShutdown
    <3>3. queue' = <<"Restart">>
      BY <1>3, <3>1, <3>2 DEF ReceiveCommand, Dispatch
    <3>4. QED
      BY <3>3 DEF RestartHandled
  <2>3. CASE i # 1
    <3>1. i - 1 \in DOMAIN Tail(inbox) /\ Tail(inbox)[i - 1] = "Restart"
      BY <1>1, <1>2, <2>1, <2>3
    <3>2. QED
      BY <2>1, <3>1 DEF RestartQueued
  <2>4. QED
    BY <2>2, <2>3
<1>4. ASSUME NEW c \in UserCommand, Send(c) PROVE RestartQueued'
  <2>1. c \in Command /\ inbox' = Append(inbox, c)
    BY <1>4, ResyncAssumption DEF Send
  <2>2. i \in DOMAIN inbox' /\ inbox'[i] = "Restart"
    BY <1>1, <1>2, <2>1
  <2>3. QED
    BY <2>2 DEF RestartQueued
<1>5. CASE UNCHANGED inbox
  BY <1>5 DEF RestartQueued
<1>6. CASE Select /\ ~ReceiveShutdown /\ ~ReceiveCommand
  BY <1>5, <1>6 DEF Select, ChildExited, BackendDown, BackendUp, BackoffElapsed,
    HealthyElapsed, BackendGraceElapsed, Fires, GrantPollElapsed
<1>7. CASE Busy
  BY <1>5, <1>7 DEF Busy, GrantsReady, GrantsMissing, HandleEvent, StopNothing,
    StopBegins, StopEnds, ArmBackoff, ArmHealthyTimer, ArmTimer, SpawnBegins, Spawned,
    SpawnRefused, Settle, SettleIgnored, Notify, HandleNext, ReturnToLoop,
    ReturnAndPublish, ReturnAndExit
<1>8. CASE ProcessExits \/ SignalKills \/ \E b \in BackendLine : PrintBackend(b)
  BY <1>5, <1>8 DEF ProcessExits, SignalKills, PrintBackend
<1>9. QED
  BY <1>3, <1>4, <1>6, <1>7, <1>8 DEF SupervisorStep

(* Where an event waits, and that it waits alone.                          *)
LEMMA QueueAtPlaces ==
  ASSUME Consistent, TypeOK
  PROVE  /\ pc \in {"Select", "Probing", "Terminating", "Spawning"} => queue = <<>>
         /\ pc = "Handle" => \E e \in MachineEvent : queue = <<e>>
         /\ pc # "Exited" => queue = <<>> \/ \E e \in MachineEvent : queue = <<e>>
         /\ RestartHandled /\ pc # "Exited" => pc = "Handle" /\ queue = <<"Restart">>
<1>1. pc \in {"Select", "Probing"} => queue = <<>>
  BY DEF Consistent, PlaceInv
<1>2. pc \in {"Terminating", "Spawning"} => queue = <<>>
  BY DEF Consistent, PlaceInv, Executing
<1>3. pc = "Handle" => \E e \in MachineEvent : queue = <<e>>
  BY DEF Consistent, PlaceInv
<1>4. pc \in {"Execute", "Notify", "Next"} =>
        queue = <<>> \/ \E e \in SpawnRefusal \cup {"SpawnSucceeded"} : queue = <<e>>
  BY DEF Consistent, PlaceInv, Executed, Executing, SpawnReported
<1>5. SpawnRefusal \cup {"SpawnSucceeded"} \subseteq MachineEvent \ {"Restart"}
  BY DEF SpawnRefusal, MachineEvent, UserEvent, DegradedReason
<1>6. pc \in {"Select", "Probing", "Terminating", "Spawning", "Handle", "Execute",
              "Notify", "Next", "Exited"}
  BY DEF TypeOK, PC
<1>7. QED
  BY <1>1, <1>2, <1>3, <1>4, <1>5, <1>6 DEF RestartHandled

(* And with one that it handles.                                           *)
LEMMA HandledTurnsOver ==
  ASSUME TypeOK, Consistent, SupervisorStep, RestartHandled, pc # "Exited"
  PROVE  RestartHandled' \/ EnumeratesFirst'
<1>1. pc = "Handle" /\ queue = <<"Restart">>
  BY QueueAtPlaces
<1>2. CASE HandleEvent
  <2>1. machine' = Handle(machine, "Restart").machine /\ queue' = <<>>
    BY <1>1, <1>2 DEF HandleEvent
  <2>2. machine \in MachineType
    BY DEF TypeOK
  <2>3. machine'.state # "Running" /\ ~BackendDegraded(machine')
    BY <2>1, <2>2, HandleRestart
  <2>4. QED
    BY <2>1, <2>3 DEF EnumeratesFirst, BackendDegraded
<1>3. CASE UNCHANGED queue
  BY <1>3 DEF RestartHandled
<1>4. ASSUME ~HandleEvent PROVE UNCHANGED queue
  <2>1. ~Select
    BY <1>1 DEF Select, ReceiveShutdown, ReceiveCommand, ChildExited, BackendDown,
      BackendUp, BackoffElapsed, HealthyElapsed, BackendGraceElapsed, Fires,
      GrantPollElapsed, ChildTurn, TimerTurn
  <2>2. ~Busy
    BY <1>1, <1>4 DEF Busy, GrantsReady, GrantsMissing, StopNothing, StopBegins,
      StopEnds, ArmBackoff, ArmHealthyTimer, ArmTimer, SpawnBegins, Spawned,
      SpawnRefused, Settle, SettleIgnored, Notify, HandleNext, ReturnToLoop,
      ReturnAndPublish, ReturnAndExit, Executes
  <2>3. QED
    BY <2>1, <2>2 DEF SupervisorStep, Send, ProcessExits, SignalKills, PrintBackend, task
<1>5. QED
  BY <1>2, <1>3, <1>4

(* A kanata that is to enumerate first does so before anything else makes  *)
(* it Running.                                                             *)
LEMMA StillEnumeratesFirst ==
  ASSUME TypeOK, Consistent, SupervisorStep, EnumeratesFirst, ~KanataEnumerates
  PROVE  EnumeratesFirst' \/ pc' = "Exited"
<1> DEFINE Reports == {"SpawnSucceeded", "OutputBackendRecovered",
                       "OutputBackendUnavailable"}
<1>1. ASSUME UNCHANGED machine, lines' \in {lines, <<>>}, UNCHANGED queue
      PROVE  EnumeratesFirst'
  BY <1>1 DEF EnumeratesFirst, BackendDegraded
<1>2. ASSUME UNCHANGED machine, lines' \in {lines, <<>>},
             NEW e \in {e \in MachineEvent \cup Command : e \notin Reports}, queue' = <<e>>
      PROVE  EnumeratesFirst'
  BY <1>2 DEF EnumeratesFirst, BackendDegraded
<1>3. CASE Select
  <2>1. CASE ReceiveShutdown \/ ReceiveCommand
    <3>1. Head(inbox) \in Command
      BY <2>1 DEF ReceiveShutdown, ReceiveCommand, TypeOK
    <3>2. PICK e \in {"Stop", Head(inbox)} : queue' = <<e>>
      BY <2>1 DEF ReceiveShutdown, ReceiveCommand, Dispatch
    <3>3. e \in Command /\ e \notin Reports
      BY <3>1, <3>2 DEF Command, UserEvent
    <3>4. QED
      BY <1>2, <2>1, <3>2, <3>3 DEF ReceiveShutdown, ReceiveCommand, kanata
  <2>2. CASE ChildExited
    <3>1. PICK e \in ObservedExit : queue' = <<e>>
      BY <2>2 DEF ChildExited, Dispatch
    <3>2. e \in MachineEvent /\ e \notin Reports
      BY <3>1 DEF ObservedExit, MachineEvent, ExitClass, DegradedReason
    <3>3. QED
      BY <1>2, <2>2, <3>1, <3>2 DEF ChildExited
  <2>3. CASE BackendDown
    <3>1. lines' = Tail(lines) /\ lines # <<>> /\ UNCHANGED <<machine, queue>>
      BY <2>3 DEF BackendDown
    <3>2. \A i \in DOMAIN Tail(lines) : i + 1 \in DOMAIN lines /\ Tail(lines)[i] = lines[i + 1]
      BY <3>1 DEF TypeOK
    <3>3. QED
      BY <3>1, <3>2 DEF EnumeratesFirst, BackendDegraded
  <2>4. CASE BackendUp
    <3>1. lines # <<>> /\ Head(lines) = "Up" /\ lines' = Tail(lines) /\ UNCHANGED machine
      BY <2>4 DEF BackendUp
    <3>2. 1 \in DOMAIN lines /\ lines[1] = "Up"
      BY <3>1 DEF TypeOK
    <3>3. ~BackendDegraded(machine)
      BY <3>2 DEF EnumeratesFirst
    <3>4. UNCHANGED queue
      BY <2>4, <3>3 DEF BackendUp
    <3>5. QED
      BY <3>1, <3>3, <3>4 DEF EnumeratesFirst, BackendDegraded
  <2>5. CASE BackoffElapsed \/ HealthyElapsed \/ BackendGraceElapsed
    <3>1. PICK e \in {"BackoffElapsed", "HealthyElapsed", "OutputBackendLost"} :
            queue' = <<e>>
      BY <2>5 DEF BackoffElapsed, HealthyElapsed, BackendGraceElapsed, Fires, Dispatch
    <3>2. e \in MachineEvent /\ e \notin Reports
      BY <3>1 DEF MachineEvent
    <3>3. QED
      BY <1>2, <2>5, <3>1, <3>2
      DEF BackoffElapsed, HealthyElapsed, BackendGraceElapsed, Fires, kanata
  <2>6. CASE GrantPollElapsed
    BY <1>1, <2>6 DEF GrantPollElapsed, kanata
  <2>7. QED
    BY <1>3, <2>1, <2>2, <2>3, <2>4, <2>5, <2>6 DEF Select
<1>4. CASE HandleEvent
  <2>1. PICK e \in MachineEvent : queue = <<e>>
    BY <1>4, QueueAtPlaces DEF HandleEvent
  <2>2. e \notin Reports
    BY <2>1 DEF EnumeratesFirst
  <2>3. machine' = Handle(machine, e).machine /\ queue' = <<>> /\ lines' = lines
    BY <1>4, <2>1 DEF HandleEvent, kanata
  <2>4. machine \in MachineType
    BY DEF TypeOK
  <2>5. /\ machine'.state # "Running"
        /\ BackendDegraded(machine') => BackendDegraded(machine)
    BY <2>2, <2>3, <2>4, HandleElsewhere DEF EnumeratesFirst
  <2>6. QED
    BY <2>3, <2>5 DEF EnumeratesFirst, BackendDegraded
<1>5. CASE GrantsReady
  <2>1. "Restart" \in MachineEvent /\ queue' = <<"Restart">>
    BY <1>5 DEF GrantsReady, Dispatch, MachineEvent, UserEvent
  <2>2. QED
    BY <1>2, <1>5, <2>1 DEF GrantsReady, kanata
<1>6. CASE SpawnRefused
  <2>1. queue = <<>>
    BY <1>6, QueueAtPlaces DEF SpawnRefused
  <2>2. PICK e \in SpawnRefusal : queue' = <<e>>
    BY <1>6, <2>1 DEF SpawnRefused
  <2>3. e \in MachineEvent /\ e \notin Reports
    BY <2>2 DEF SpawnRefusal, MachineEvent, DegradedReason
  <2>4. QED
    BY <1>2, <1>6, <2>2, <2>3 DEF SpawnRefused, kanata
<1>7. CASE Busy /\ ~HandleEvent /\ ~GrantsReady /\ ~SpawnRefused
  <2>1. ~Spawned
    BY DEF KanataEnumerates
  <2>2. UNCHANGED <<machine, queue>> /\ lines' \in {lines, <<>>}
    BY <1>7, <2>1 DEF Busy, GrantsMissing, StopNothing,
      StopBegins, StopEnds, ArmBackoff, ArmHealthyTimer, ArmTimer, SpawnBegins,
      Settle, SettleIgnored, Notify, HandleNext, ReturnToLoop,
      ReturnAndPublish, ReturnAndExit, kanata
  <2>3. QED
    BY <1>1, <2>2
<1>8. CASE \E b \in BackendLine : PrintBackend(b)
  <2>1. lines' = Append(lines, "Down") /\ UNCHANGED <<machine, queue>>
    BY <1>8 DEF PrintBackend, BackendLine, KanataEnumerates, task
  <2>2. \A i \in DOMAIN Append(lines, "Down") :
          Append(lines, "Down")[i] = "Down" \/ (i \in DOMAIN lines /\ Append(lines, "Down")[i] = lines[i])
    BY DEF TypeOK
  <2>3. QED
    BY <2>1, <2>2 DEF EnumeratesFirst, BackendDegraded
<1>9. CASE (\E c \in UserCommand : Send(c)) \/ ProcessExits \/ SignalKills
  BY <1>1, <1>9 DEF Send, ProcessExits, SignalKills, task, kanata
<1>10. QED
  BY <1>3, <1>4, <1>5, <1>6, <1>7, <1>8, <1>9 DEF SupervisorStep

LEMMA SupervisorMissesNone ==
  ASSUME ResyncTypeOK, Consistent, MissedInv, SupervisorSteps
  PROVE  MissedInv'
<1> SUFFICES ASSUME unsettled'
             PROVE  \/ InPipeline' \/ deviceTask' = "Sending" \/ RestartQueued'
                    \/ RestartHandled' \/ EnumeratesFirst' \/ pc' = "Exited"
  BY DEF MissedInv
<1>1. TypeOK /\ SupervisorStep /\ unsettled /\ ~KanataEnumerates
  BY DEF SupervisorSteps, ResyncTypeOK, MonitorTypeOK
<1>2. CASE InPipeline \/ deviceTask = "Sending"
  BY <1>2 DEF SupervisorSteps, InPipeline, Pending, resync
<1>3. CASE RestartQueued
  BY <1>1, <1>3, QueuedIsHandled
<1>4. CASE pc = "Exited"
  <2>1. UNCHANGED pc
    BY <1>1, <1>4 DEF SupervisorStep, Select, Busy, ReceiveShutdown, ReceiveCommand,
      ChildExited, BackendDown, BackendUp, BackoffElapsed, HealthyElapsed,
      BackendGraceElapsed, Fires, GrantPollElapsed, ChildTurn, TimerTurn, GrantsReady,
      GrantsMissing, HandleEvent, StopNothing, StopBegins, StopEnds, ArmBackoff,
      ArmHealthyTimer, ArmTimer, SpawnBegins, Spawned, SpawnRefused, Settle,
      SettleIgnored, Notify, HandleNext, ReturnToLoop, ReturnAndPublish,
      ReturnAndExit, Executes, Send, ProcessExits, SignalKills, PrintBackend, task
  <2>2. QED
    BY <1>4, <2>1
<1>5. CASE RestartHandled /\ pc # "Exited"
  BY <1>1, <1>5, HandledTurnsOver
<1>6. CASE EnumeratesFirst
  BY <1>1, <1>6, StillEnumeratesFirst
<1>7. QED
  BY <1>1, <1>2, <1>3, <1>4, <1>5, <1>6 DEF MissedInv

(* When the debounce fires and the snapshot does not say Running, neither  *)
(* does the machine, and nothing it has before it makes it so without a    *)
(* spawn or a recovery still to come.                                      *)
LEMMA NotRunningAtDeadline ==
  ASSUME ResyncTypeOK, Consistent, PublishedAgree, TimersMatchState, CaughtUp,
         snapshot.state # "Running"
  PROVE  EnumeratesFirst \/ pc = "Exited"
<1> SUFFICES ASSUME pc # "Exited" PROVE EnumeratesFirst
  OBVIOUS
<1>1. pc \in {"Select", "Probing", "Terminating", "Spawning"} /\ queue = <<>>
  BY QueueAtPlaces DEF CaughtUp, ResyncTypeOK
<1>2. machine.state # "Running"
  <2>1. CASE pc = "Select"
    BY <2>1 DEF PublishedAgree, SnapshotOf
  <2>2. CASE pc = "Probing"
    BY <2>2 DEF TimersMatchState, WatchesGrant
  <2>3. CASE pc \in {"Terminating", "Spawning"}
    BY <2>3 DEF Consistent, PlaceInv, Executing
  <2>4. QED
    BY <1>1, <2>1, <2>2, <2>3
<1>3. QED
  BY <1>1, <1>2 DEF EnumeratesFirst, CaughtUp

(* The device task and the hotplugs.                                       *)
LEMMA DevicesMissNone ==
  ASSUME ResyncTypeOK, MissedInv, DevicesChange \/ DeviceTaskReceives
  PROVE  MissedInv'
<1> SUFFICES ASSUME unsettled'
             PROVE  \/ InPipeline' \/ deviceTask' = "Sending" \/ RestartQueued'
                    \/ RestartHandled' \/ EnumeratesFirst' \/ pc' = "Exited"
  BY DEF MissedInv
<1>1. MonitorTypeOK /\ [MonitorNext]_monitor
  BY DEF ResyncTypeOK, DevicesChange, DeviceTaskReceives, MonitorNext
<1>2. UNCHANGED <<vars, resync>>
  BY DEF DevicesChange, DeviceTaskReceives
<1>3. CASE unsettled => InPipeline
  <2>1. NoLostHotplug
    BY <1>3 DEF NoLostHotplug, InPipeline
  <2>2. NoLostHotplug'
    BY <1>1, <2>1, NoLostStep
  <2>3. QED
    BY <2>2 DEF NoLostHotplug, InPipeline, Pending
<1>4. CASE \/ deviceTask = "Sending" \/ RestartQueued \/ RestartHandled
           \/ EnumeratesFirst \/ pc = "Exited"
  BY <1>2, <1>4
  DEF vars, task, kanata, resync, RestartQueued, RestartHandled, EnumeratesFirst
<1>5. QED
  BY <1>3, <1>4 DEF MissedInv

(* The debounce hands over to the device task, or to a kanata that is to   *)
(* enumerate anyway.                                                       *)
LEMMA DebounceMissesNone ==
  ASSUME ResyncTypeOK, Consistent, PublishedAgree, TimersMatchState, DebounceFires
  PROVE  MissedInv'
<1>1. CASE snapshot.state = "Running"
  BY <1>1 DEF DebounceFires, RestartIfRunning, MissedInv
<1>2. CASE snapshot.state # "Running"
  <2>1. EnumeratesFirst \/ pc = "Exited"
    BY <1>2, NotRunningAtDeadline DEF DebounceFires
  <2>2. UNCHANGED vars
    BY DEF DebounceFires
  <2>3. EnumeratesFirst' \/ pc' = "Exited"
    BY <2>1, <2>2 DEF vars, task, kanata, EnumeratesFirst
  <2>4. QED
    BY <2>3 DEF MissedInv
<1>3. QED
  BY <1>1, <1>2

(* A Restart that is sent waits behind those that wait already.            *)
LEMMA SendMissesNone ==
  ASSUME ResyncTypeOK, MissedInv, SendRestart, UNCHANGED monitor,
         deviceTask' = deviceTask \/ deviceTask = "Sending"
  PROVE  MissedInv'
<1>1. CASE Send("Restart")
  <2>1. inbox \in Seq(Command)
    BY DEF ResyncTypeOK, TypeOK
  <2>2. inbox' = Append(inbox, "Restart")
    BY <1>1 DEF Send
  <2>3. Len(inbox) + 1 \in DOMAIN inbox' /\ inbox'[Len(inbox) + 1] = "Restart"
    BY <2>1, <2>2
  <2>4. QED
    BY <2>3 DEF MissedInv, RestartQueued
<1>2. CASE pc = "Exited" /\ UNCHANGED vars
  BY <1>2 DEF vars, task, MissedInv
<1>3. QED
  BY <1>1, <1>2 DEF SendRestart

LEMMA MissedStep ==
  ASSUME ResyncTypeOK, Consistent, PublishedAgree, TimersMatchState, MissedInv,
         [ResyncNext]_system
  PROVE  MissedInv'
<1>1. ASSUME UNCHANGED <<vars, monitor, deviceTask>> PROVE MissedInv'
  BY <1>1 DEF vars, task, kanata, monitor, MissedInv, InPipeline, Pending,
    RestartQueued, RestartHandled, EnumeratesFirst
<1>2. CASE DeviceTaskSends \/ WakeTaskSends
  BY <1>2, SendMissesNone DEF DeviceTaskSends, WakeTaskSends
<1>3. CASE WakeTaskReceives \/ UNCHANGED system
  BY <1>1, <1>3 DEF WakeTaskReceives, system, resync
<1>4. QED
  BY <1>2, <1>3, SupervisorMissesNone, DevicesMissNone, DebounceMissesNone
  DEF ResyncNext

(* No running kanata is left with a keyboard it does not know, unless the  *)
(* news of it is on its way (device/mod.rs:151-190).                       *)
THEOREM NoKeyboardMissedHolds == ResyncSpec => []NoKeyboardMissed
<1>1. ResyncInit => MissedInv
  BY DEF ResyncInit, MonitorInit, MissedInv
<1>2. /\ ResyncTypeOK /\ Consistent /\ PublishedAgree /\ TimersMatchState
      /\ MissedInv /\ [ResyncNext]_system
      => MissedInv'
  BY MissedStep
<1>3. Consistent /\ MissedInv => NoKeyboardMissed
  <2>1. Consistent /\ pc = "Exited" => machine.state # "Running"
    BY DEF Consistent, PlaceInv
  <2>2. QED
    BY <2>1 DEF MissedInv, EnumeratesFirst, NoKeyboardMissed
<1>4. QED
  BY <1>1, <1>2, <1>3, ResyncTypeCorrect, ResyncIsSupervisor, ConsistencyCorrect,
    PublishedAgreeHolds, TimersMatchStateHolds, PTL DEF ResyncSpec
=============================================================================
