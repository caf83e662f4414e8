--------------------------- MODULE SupervisorProofs ---------------------------
(***************************************************************************)
(* Theorems about Supervisor.tla, for every set of pids, every retry       *)
(* budget and every capacity of the command channel.                       *)
(***************************************************************************)
EXTENDS Supervisor, TLAPS

OutcomeType == [machine : MachineType, actions : Plan, moved : BOOLEAN]

(* The transition table maps machines to machines, and plans only the      *)
(* sequences of actions dispatch() knows how to carry out.                 *)
LEMMA EnterType ==
  ASSUME NEW m \in MachineType, NEW next \in SupervisorState, NEW actions \in Plan
  PROVE  Enter(m, next, actions) \in OutcomeType
BY DEF Enter, Outcome, OutcomeType, MachineType

LEMMA EnterDegradedType ==
  ASSUME NEW m \in MachineType, NEW why \in DegradedReason, NEW actions \in Plan
  PROVE  EnterDegraded(m, why, actions) \in OutcomeType
BY DEF EnterDegraded, Outcome, OutcomeType, MachineType, SupervisorState

LEMMA IgnoreType ==
  ASSUME NEW m \in MachineType
  PROVE  Ignore(m) \in OutcomeType
BY DEF Ignore, Outcome, OutcomeType, Plan

LEMMA FreshBudgetType ==
  ASSUME NEW m \in MachineType
  PROVE  FreshBudget(m) \in MachineType
BY BudgetAssumption DEF FreshBudget, MachineType

LEMMA PlanMembers ==
  /\ <<>> \in Plan /\ <<"StopChild">> \in Plan /\ <<"SpawnChild">> \in Plan
  /\ <<"ArmBackoff">> \in Plan /\ <<"ArmHealthyTimer">> \in Plan
  /\ <<"StopChild", "SpawnChild">> \in Plan
BY DEF Plan

LEMMA OnFailureType ==
  ASSUME NEW m \in MachineType
  PROVE  OnFailure(m) \in OutcomeType
<1> DEFINE counted == [m EXCEPT !.failures = SaturatingSucc(m.failures)]
<1>1. counted \in MachineType
  BY BudgetAssumption DEF SaturatingSucc, MachineType
<1>2. EnterDegraded(counted, "RetryBudgetExhausted", <<>>) \in OutcomeType
  BY <1>1, EnterDegradedType, PlanMembers DEF DegradedReason
<1>3. Enter(counted, "Backoff", <<"ArmBackoff">>) \in OutcomeType
  BY <1>1, EnterType, PlanMembers DEF SupervisorState
<1>4. QED
  BY <1>2, <1>3 DEF OnFailure

LEMMA HandleType ==
  ASSUME NEW m \in MachineType, NEW e \in MachineEvent
  PROVE  Handle(m, e) \in OutcomeType
<1>1. \A next \in SupervisorState, actions \in Plan :
        /\ Enter(m, next, actions) \in OutcomeType
        /\ Enter(FreshBudget(m), next, actions) \in OutcomeType
  BY EnterType, FreshBudgetType
<1>2. \A why \in DegradedReason, actions \in Plan :
        EnterDegraded(m, why, actions) \in OutcomeType
  BY EnterDegradedType
<1>3. Ignore(m) \in OutcomeType /\ Ignore(FreshBudget(m)) \in OutcomeType
  BY IgnoreType, FreshBudgetType
<1>4. OnFailure(m) \in OutcomeType
  BY OnFailureType
<1>5. "OutputBackendUnavailable" \in DegradedReason
  BY DEF DegradedReason
<1>6. \A next \in {"Starting", "Stopped", "Paused", "Running"} :
        next \in SupervisorState
  BY DEF SupervisorState
<1>7. QED
  BY <1>1, <1>2, <1>3, <1>4, <1>5, <1>6, PlanMembers, SMTT(60) DEF Handle
-----------------------------------------------------------------------------
(* Types.  TypeOK is not inductive by itself: Notify reads the transition  *)
(* to announce, HandleEvent the head of the queue, and the end of an       *)
(* action drops the head of the plan.                                      *)
TypeInv ==
  /\ TypeOK
  /\ pc = "Notify" => change # None
  /\ pc = "Handle" => queue # <<>>
  /\ pc \in {"Terminating", "Spawning"} => todo # <<>>

LEMMA ConstantsInTypes ==
  /\ NewMachine \in MachineType
  /\ UserEvent \subseteq MachineEvent
  /\ ObservedExit \subseteq MachineEvent
  /\ SpawnRefusal \subseteq MachineEvent
  /\ {"SpawnSucceeded", "BackoffElapsed", "HealthyElapsed", "OutputBackendLost",
      "OutputBackendRecovered"} \subseteq MachineEvent
BY BudgetAssumption
DEF NewMachine, MachineType, SupervisorState, UserEvent, MachineEvent,
    ObservedExit, SpawnRefusal, ExitClass, DegradedReason

LEMMA PlanTail ==
  ASSUME NEW plan \in Plan, plan # <<>>
  PROVE  Tail(plan) \in Plan
<1>1. CASE plan = <<"StopChild">>
  BY <1>1 DEF Plan
<1>2. CASE plan = <<"SpawnChild">>
  BY <1>2 DEF Plan
<1>3. CASE plan = <<"ArmBackoff">>
  BY <1>3 DEF Plan
<1>4. CASE plan = <<"ArmHealthyTimer">>
  BY <1>4 DEF Plan
<1>5. CASE plan = <<"StopChild", "SpawnChild">>
  BY <1>5 DEF Plan
<1>6. QED
  BY <1>1, <1>2, <1>3, <1>4, <1>5 DEF Plan

LEMMA SnapshotType ==
  ASSUME NEW m \in MachineType, NEW c \in Pid \cup {None}
  PROVE  SnapshotOf(m, c) \in Snapshot
BY DEF SnapshotOf, Snapshot, MachineType

LEMMA PublishType ==
  ASSUME TypeOK, Publish(machine, child)
  PROVE  snapshot' \in Snapshot /\ disk' \in Snapshot \cup {None}
BY SnapshotType DEF Publish, Persist, TypeOK

LEMMA TimersType ==
  ASSUME NEW m, NEW armed \in SUBSET Timer
  PROVE  /\ SyncGrantWatch(m, armed) \in SUBSET Timer
         /\ KeepTimers(m, armed) \in SUBSET Timer
BY DEF SyncGrantWatch, KeepTimers, Timer

LEMMA TypeInit == Init => TypeInv
<1> SUFFICES ASSUME Init PROVE TypeInv
  OBVIOUS
<1>1. snapshot \in Snapshot
  BY ConstantsInTypes, SnapshotType DEF Init
<1>2. heard \in View
  BY DEF Init, View, SupervisorState
<1>3. QED
  BY <1>1, <1>2, ConstantsInTypes, PlanMembers
  DEF Init, TypeInv, TypeOK, PC, BackendLine

(* The steps that leave dispatch() alone: wakes, probes and returns.       *)
LEMMA TypeSelect ==
  ASSUME TypeInv, Select
  PROVE  TypeInv'
<1> USE DEF TypeInv
<1>1. CASE ReceiveShutdown
  BY <1>1, ConstantsInTypes
  DEF TypeOK, PC, ReceiveShutdown, Dispatch, UserEvent, published, kanata
<1>2. CASE ReceiveCommand
  <2>1. Head(inbox) \in MachineEvent /\ inbox' \in Seq(Command)
    BY <1>2, ConstantsInTypes DEF ReceiveCommand, TypeOK, Command
  <2>2. QED
    BY <1>2, <2>1 DEF TypeOK, PC, ReceiveCommand, Dispatch, published, kanata
<1>3. CASE ChildExited
  BY <1>3, ConstantsInTypes DEF TypeOK, PC, ChildExited, Dispatch, published, ChildTurn
<1>4. CASE BackendDown
  BY <1>4, TimersType
  DEF TypeOK, PC, BackendDown, BackToSelect, published, Timer, ChildTurn
<1>5. CASE BackendUp
  <2>1. timers' \in SUBSET Timer /\ lines' \in Seq(BackendLine)
    BY <1>5, TimersType DEF BackendUp, BackToSelect, TypeOK
  <2>2. queue' \in Seq(MachineEvent) /\ cont' \in {"Loop", "Publish", "Exit"}
    <3>1. CASE Dispatch("OutputBackendRecovered", "Loop")
      BY <3>1, ConstantsInTypes DEF Dispatch
    <3>2. CASE UNCHANGED <<queue, cont>>
      BY <3>2 DEF TypeOK
    <3>3. QED
      BY <1>5, <3>1, <3>2 DEF BackendUp
  <2>3. pc' = "Select" \/ (pc' = "Handle" /\ queue' # <<>>)
    BY <1>5 DEF BackendUp, BackToSelect, Dispatch
  <2>4. QED
    BY <1>5, <2>1, <2>2, <2>3 DEF TypeOK, PC, BackendUp, published
<1>6. CASE BackoffElapsed \/ HealthyElapsed \/ BackendGraceElapsed
  <2>1. PICK timer \in Timer, e \in MachineEvent : Fires(timer, e)
    BY <1>6, ConstantsInTypes
    DEF BackoffElapsed, HealthyElapsed, BackendGraceElapsed, Timer
  <2>2. timers' \in SUBSET Timer
    BY <2>1 DEF Fires, TypeOK
  <2>3. QED
    BY <2>1, <2>2 DEF Fires, Dispatch, TypeOK, PC, published, kanata
<1>7. CASE GrantPollElapsed
  BY <1>7 DEF TypeOK, PC, GrantPollElapsed, published, kanata
<1>8. QED
  BY <1>1, <1>2, <1>3, <1>4, <1>5, <1>6, <1>7 DEF Select

LEMMA TypeBusy ==
  ASSUME TypeInv, Busy
  PROVE  TypeInv'
<1> USE DEF TypeInv
<1>1. CASE GrantsReady \/ GrantsMissing
  <2>1. CASE GrantsReady
    BY <2>1, ConstantsInTypes
    DEF TypeOK, PC, GrantsReady, Dispatch, UserEvent, published, kanata
  <2>2. CASE GrantsMissing
    BY <2>2, TimersType
    DEF TypeOK, PC, GrantsMissing, BackToSelect, published, kanata
  <2>3. QED
    BY <1>1, <2>1, <2>2
<1>2. CASE HandleEvent
  <2> DEFINE out == Handle(machine, Head(queue))
  <2>1. out \in OutcomeType
    BY <1>2, HandleType DEF HandleEvent, TypeOK
  <2>2. change' \in StateChanged \cup {None}
    BY <1>2, <2>1 DEF HandleEvent, OutcomeType, MachineType, StateChanged, TypeOK
  <2>3. timers' \in SUBSET Timer
    BY <1>2, TimersType DEF HandleEvent, TypeOK
  <2>4. machine' \in MachineType /\ todo' \in Plan
    BY <1>2, <2>1 DEF HandleEvent, OutcomeType
  <2>5. queue' \in Seq(MachineEvent)
    BY <1>2 DEF HandleEvent, TypeOK
  <2>6. QED
    BY <1>2, <2>2, <2>3, <2>4, <2>5
    DEF TypeOK, PC, HandleEvent, published, kanata
<1>3. CASE StopNothing \/ StopBegins \/ SpawnBegins
  <2>1. CASE StopNothing
    BY <2>1, PlanTail DEF TypeOK, StopNothing, Executes, published, kanata
  <2>2. CASE StopBegins
    BY <2>2 DEF TypeOK, PC, StopBegins, Executes, published
  <2>3. CASE SpawnBegins
    BY <2>3 DEF TypeOK, PC, SpawnBegins, Executes, published, kanata
  <2>4. QED
    BY <1>3, <2>1, <2>2, <2>3
<1>13. CASE ArmBackoff \/ ArmHealthyTimer
  <2>1. \E action \in Action, timer \in Timer : ArmTimer(action, timer)
    BY <1>13 DEF ArmBackoff, ArmHealthyTimer, Action, Timer
  <2>2. QED
    BY <2>1, PlanTail DEF TypeOK, ArmTimer, Executes, published, kanata
<1>4. CASE StopEnds
  BY <1>4, PlanTail, PublishType DEF TypeOK, PC, StopEnds, kanata
<1>5. CASE Spawned
  BY <1>5, PlanTail, ConstantsInTypes DEF TypeOK, PC, Spawned, published, BackendLine
<1>6. CASE SpawnRefused
  BY <1>6, PlanTail, ConstantsInTypes DEF TypeOK, PC, SpawnRefused, published, kanata
<1>7. CASE Settle
  BY <1>7, PublishType DEF TypeOK, PC, Settle, kanata
<1>8. CASE SettleIgnored \/ HandleNext
  BY <1>8 DEF TypeOK, PC, SettleIgnored, HandleNext, published, kanata
<1>9. CASE Notify
  BY <1>9 DEF TypeOK, PC, Notify, StateChanged, View, kanata
<1>10. CASE ReturnToLoop \/ ReturnAndPublish
  BY <1>10, PublishType, TimersType
  DEF TypeOK, PC, ReturnToLoop, ReturnAndPublish, BackToSelect, published, kanata
<1>11. CASE ReturnAndExit
  BY <1>11, SnapshotType DEF TypeOK, PC, ReturnAndExit, Persist, kanata
<1>12. QED
  BY <1>1, <1>2, <1>3, <1>4, <1>5, <1>6, <1>7, <1>8, <1>9, <1>10, <1>11,
     <1>13 DEF Busy

LEMMA TypeEnvironment ==
  ASSUME TypeInv, Environment
  PROVE  TypeInv'
<1> USE DEF TypeInv
<1>1. CASE \E c \in Command : Send(c)
  BY <1>1 DEF TypeOK, Send, task, published, kanata
<1>2. CASE ProcessExits \/ SignalKills
  BY <1>2 DEF TypeOK, ProcessExits, SignalKills, task, published
<1>3. CASE \E b \in BackendLine : PrintBackend(b)
  BY <1>3 DEF TypeOK, PrintBackend, task, published
<1>4. QED
  BY <1>1, <1>2, <1>3 DEF Environment

(* The machine, the timers, the plan of side effects and the channels keep *)
(* their types; the failure counter stays within its width.                *)
THEOREM TypeCorrect == Spec => []TypeOK
<1>1. TypeInv /\ [Next]_vars => TypeInv'
  <2> SUFFICES ASSUME TypeInv, [Next]_vars PROVE TypeInv'
    OBVIOUS
  <2>1. CASE UNCHANGED vars
    BY <2>1 DEF TypeInv, TypeOK, vars, task, published, kanata
  <2>2. CASE Finished
    BY <2>1, <2>2 DEF Finished
  <2>3. QED
    BY <2>1, <2>2, TypeSelect, TypeBusy, TypeEnvironment DEF Next
<1>2. TypeInv => TypeOK
  BY DEF TypeInv
<1>3. QED
  BY TypeInit, <1>1, <1>2, PTL DEF Spec
-----------------------------------------------------------------------------
(* What the rows of the transition table have in common, as far as the     *)
(* ownership of the child depends on them.                                 *)
LEMMA EnterFields ==
  ASSUME NEW m \in MachineType, NEW next, NEW actions
  PROVE  /\ Enter(m, next, actions).machine.state = next
         /\ Enter(m, next, actions).machine.reason = None
         /\ Enter(m, next, actions).actions = actions
BY DEF Enter, Outcome, MachineType

LEMMA EnterDegradedFields ==
  ASSUME NEW m \in MachineType, NEW why, NEW actions
  PROVE  /\ EnterDegraded(m, why, actions).machine.state = "Degraded"
         /\ EnterDegraded(m, why, actions).machine.reason = why
         /\ EnterDegraded(m, why, actions).actions = actions
BY DEF EnterDegraded, Outcome, MachineType

LEMMA IgnoreFields ==
  ASSUME NEW m \in MachineType
  PROVE  /\ Ignore(m).machine = m
         /\ Ignore(m).actions = <<>>
         /\ Ignore(FreshBudget(m)).machine.state = m.state
         /\ Ignore(FreshBudget(m)).machine.reason = m.reason
         /\ Ignore(FreshBudget(m)).actions = <<>>
BY DEF Ignore, Outcome, FreshBudget, MachineType

LEMMA OnFailureFields ==
  ASSUME NEW m \in MachineType
  PROVE  \/ /\ OnFailure(m).machine.state = "Backoff"
            /\ OnFailure(m).actions = <<"ArmBackoff">>
         \/ /\ OnFailure(m).machine.state = "Degraded"
            /\ OnFailure(m).machine.reason = "RetryBudgetExhausted"
            /\ OnFailure(m).actions = <<>>
<1> DEFINE counted == [m EXCEPT !.failures = SaturatingSucc(m.failures)]
<1>1. counted \in MachineType
  BY BudgetAssumption DEF SaturatingSucc, MachineType
<1>2. QED
  BY <1>1, EnterFields, EnterDegradedFields DEF OnFailure

(* The report of a spawn attempt.                                          *)
LEMMA HandleSpawnReport ==
  ASSUME NEW m \in MachineType, m.state = "Starting",
         NEW e \in SpawnRefusal \cup {"SpawnSucceeded"}
  PROVE  \/ /\ e = "SpawnSucceeded"
            /\ Handle(m, e).machine.state = "Running"
            /\ Handle(m, e).actions = <<"ArmHealthyTimer">>
         \/ /\ e # "SpawnSucceeded"
            /\ Handle(m, e).machine.state = "Backoff"
            /\ Handle(m, e).actions = <<"ArmBackoff">>
         \/ /\ e # "SpawnSucceeded"
            /\ Handle(m, e).machine.state = "Degraded"
            /\ Handle(m, e).actions = <<>>
<1>1. CASE e = "SpawnSucceeded"
  BY <1>1, EnterFields DEF Handle, DegradedReason
<1>2. CASE e = "SpawnFailed"
  BY <1>2, OnFailureFields DEF Handle, DegradedReason
<1>3. CASE e \in {"DriverNotActivated", "VhidDaemonDown", "ConfigBroken",
                  "KanataBinMissing"}
  <2>1. Handle(m, e) = EnterDegraded(m, e, <<>>)
    BY <1>3 DEF Handle, DegradedReason
  <2>2. QED
    BY <1>3, <2>1, EnterDegradedFields
<1>4. QED
  BY <1>1, <1>2, <1>3 DEF SpawnRefusal

(* Any other event, which is only handled outside Starting.                *)
LEMMA HandleWake ==
  ASSUME NEW m \in MachineType, m.state # "Starting", NEW e \in MachineEvent
  PROVE  LET out == Handle(m, e)
         IN  \/ /\ out.actions = <<"StopChild">>
                /\ out.machine.state \in {"Stopped", "Paused", "Degraded"}
             \/ /\ out.actions = <<"StopChild", "SpawnChild">>
                /\ out.machine.state = "Starting"
             \/ /\ out.actions = <<"SpawnChild">>
                /\ out.machine.state = "Starting"
                /\ m.state \in {"Stopped", "Paused", "Backoff"}
             \/ /\ out.actions = <<"ArmHealthyTimer">>
                /\ out.machine.state = "Running"
                /\ e = "OutputBackendRecovered"
             \/ /\ out.actions = <<"ArmBackoff">>
                /\ out.machine.state = "Backoff"
                /\ e = "Crash"
             \/ /\ out.actions = <<>>
                /\ out.machine.state = m.state
                /\ out.machine.reason = m.reason
                /\ m.state = "Running" => e \notin ObservedExit
             \/ /\ out.actions = <<>>
                /\ out.machine.state \in {"Stopped", "Degraded"}
                /\ m.state \in {"Backoff", "Paused"} \/ e \in ObservedExit
             \/ /\ out.actions = <<>>
                /\ BackendDegraded(out.machine)
<1> USE EnterFields, EnterDegradedFields, IgnoreFields, OnFailureFields
<1>1. CASE m.state = "Stopped"
  BY <1>1, FreshBudgetType DEF Handle, RestartsFromIdle, BackendDegraded
<1>2. CASE m.state = "Paused"
  BY <1>2, FreshBudgetType DEF Handle, RestartsFromIdle, BackendDegraded
<1>3. CASE m.state = "Backoff"
  BY <1>3, FreshBudgetType DEF Handle, RestartsFromIdle, BackendDegraded
<1>4. CASE m.state = "Degraded"
  BY <1>4, FreshBudgetType DEF Handle, RestartsFromIdle, BackendDegraded
<1>5. CASE m.state = "Running"
  <2>1. CASE e \in DegradedReason
    <3>1. Handle(m, e) = EnterDegraded(m, e, <<"StopChild">>)
      BY <1>5, <2>1 DEF Handle, DegradedReason
    <3>2. QED
      BY <3>1
  <2>2. CASE e \in {"PanicEscape", "Crash"}
    <3>1. /\ e = "Crash" => Handle(m, e) = OnFailure(m)
          /\ e = "PanicEscape" => Handle(m, e) = Enter(m, "Stopped", <<>>)
      BY <1>5, <2>2 DEF Handle, DegradedReason
    <3>2. QED
      BY <2>2, <3>1 DEF ObservedExit
  <2>3. CASE e \notin DegradedReason /\ e \notin {"PanicEscape", "Crash"}
    <3>1. e \notin ObservedExit
      BY <2>3 DEF ObservedExit, DegradedReason
    <3>2. \/ Handle(m, e) = Enter(m, "Starting", <<"StopChild", "SpawnChild">>)
          \/ Handle(m, e) = Enter(m, "Stopped", <<"StopChild">>)
          \/ Handle(m, e) = Enter(m, "Paused", <<"StopChild">>)
          \/ Handle(m, e) = Ignore(FreshBudget(m))
          \/ Handle(m, e) = EnterDegraded(m, "OutputBackendUnavailable", <<>>)
          \/ Handle(m, e) = Ignore(m)
      BY <1>5, <2>3 DEF Handle, BackendDegraded, RestartsFromIdle
    <3>3. CASE Handle(m, e) \in {Ignore(m), Ignore(FreshBudget(m))}
      <4>1. /\ Handle(m, e).actions = <<>>
            /\ Handle(m, e).machine.state = m.state
            /\ Handle(m, e).machine.reason = m.reason
        BY <3>3
      <4>2. QED
        BY <3>1, <4>1
    <3>4. CASE Handle(m, e) = EnterDegraded(m, "OutputBackendUnavailable", <<>>)
      BY <3>4 DEF BackendDegraded
    <3>5. CASE Handle(m, e) = Enter(m, "Starting", <<"StopChild", "SpawnChild">>)
      BY <3>5
    <3>6. CASE Handle(m, e) \in {Enter(m, "Stopped", <<"StopChild">>),
                                Enter(m, "Paused", <<"StopChild">>)}
      BY <3>6
    <3>7. QED
      BY <3>2, <3>3, <3>4, <3>5, <3>6
  <2>4. QED
    BY <2>1, <2>2, <2>3
<1>6. QED
  BY <1>1, <1>2, <1>3, <1>4, <1>5 DEF MachineType, SupervisorState

(* A Stop leads to Stopped.                                                *)
LEMMA HandleStop ==
  ASSUME NEW m \in MachineType, m.state # "Starting"
  PROVE  Handle(m, "Stop").machine.state = "Stopped"
BY EnterFields, IgnoreFields
DEF Handle, MachineType, SupervisorState, DegradedReason, BackendDegraded,
    RestartsFromIdle
-----------------------------------------------------------------------------
(* Consistent is inductive.                                                *)
LEMMA ConsistentInit == Init => Consistent
BY DEF Init, Consistent, PlaceInv, AtRest, ExitInv, ProcessInv, NewMachine,
       BackendDegraded

LEMMA ConsistentSelect ==
  ASSUME TypeOK, Consistent, Select
  PROVE  Consistent'
<1> USE DEF Consistent, ProcessInv, ExitInv
<1>1. pc = "Select" /\ queue = <<>> /\ todo = <<>> /\ AtRest /\ cont # "Exit"
  BY DEF Select, ReceiveShutdown, ReceiveCommand, ChildExited, BackendDown,
         BackendUp, BackoffElapsed, HealthyElapsed, BackendGraceElapsed,
         GrantPollElapsed, Fires, ChildTurn, TimerTurn, PlaceInv
<1>2. ASSUME NEW e \in MachineEvent, NEW after, Dispatch(e, after),
             UNCHANGED <<machine, victim, todo, change>>,
             \/ UNCHANGED <<child, live>> /\ e \notin ObservedExit
             \/ /\ child' = None /\ live' \subseteq {child', victim'}
                /\ e \in ObservedExit,
             e = "OutputBackendRecovered" => child' # None,
             e # "RetryBudgetExhausted",
             after = "Exit" => e = "Stop"
      PROVE  Consistent'
  <2>1. pc' = "Handle" /\ queue' = <<e>> /\ cont' = after
    BY <1>2 DEF Dispatch
  <2>2. WakeReported(e)'
    BY <1>1, <1>2 DEF WakeReported, AtRest, BackendDegraded
  <2>3. PlaceInv'
    BY <1>1, <1>2, <2>1, <2>2 DEF PlaceInv
  <2>4. QED
    BY <1>1, <1>2, <2>1, <2>3
<1>3. CASE ReceiveShutdown
  <2>1. "Stop" \in MachineEvent /\ "Stop" \notin ObservedExit
    BY DEF MachineEvent, UserEvent, ObservedExit
  <2>2. "Stop" # "OutputBackendRecovered" /\ "Stop" # "RetryBudgetExhausted"
    OBVIOUS
  <2>3. QED
    BY <1>2, <1>3, <2>1, <2>2, Zenon DEF ReceiveShutdown, kanata
<1>4. CASE ReceiveCommand
  <2>1. Head(inbox) \in UserEvent
    BY <1>4 DEF ReceiveCommand, TypeOK, Command
  <2>2. /\ Head(inbox) \in MachineEvent
        /\ Head(inbox) \notin ObservedExit
        /\ Head(inbox) # "OutputBackendRecovered"
        /\ Head(inbox) # "RetryBudgetExhausted"
    BY <2>1 DEF MachineEvent, UserEvent, ObservedExit
  <2>3. QED
    BY <1>2, <1>4, <2>2 DEF ReceiveCommand, kanata
<1>5. CASE ChildExited
  <2>1. PICK e \in ObservedExit : Dispatch(e, "Publish")
    BY <1>5 DEF ChildExited
  <2>2. /\ e \in MachineEvent
        /\ e # "OutputBackendRecovered" /\ e # "RetryBudgetExhausted"
    BY ConstantsInTypes DEF ObservedExit
  <2>3. live' \subseteq {child', victim'}
    BY <1>5 DEF ChildExited
  <2>4. QED
    BY <1>2, <1>5, <2>1, <2>2, <2>3 DEF ChildExited
<1>6. CASE BackoffElapsed \/ HealthyElapsed \/ BackendGraceElapsed
  <2>1. PICK e \in {"BackoffElapsed", "HealthyElapsed", "OutputBackendLost"},
             timer \in Timer : Fires(timer, e)
    BY <1>6 DEF BackoffElapsed, HealthyElapsed, BackendGraceElapsed, Timer
  <2>2. e \in MachineEvent /\ e \notin ObservedExit
    BY ConstantsInTypes DEF ObservedExit
  <2>3. QED
    BY <1>2, <2>1, <2>2 DEF Fires, kanata
<1>7. CASE BackendUp /\ BackendDegraded(machine)
  <2>1. "OutputBackendRecovered" \in MachineEvent \ ObservedExit
    BY ConstantsInTypes DEF ObservedExit
  <2>2. Dispatch("OutputBackendRecovered", "Loop")
    BY <1>7 DEF BackendUp
  <2>3. QED
    BY <1>2, <1>7, <2>1, <2>2 DEF BackendUp
<1>8. CASE BackendDown \/ (BackendUp /\ ~BackendDegraded(machine))
  <2>1. /\ pc' = "Select"
        /\ UNCHANGED <<machine, child, victim, queue, todo, change, cont, live>>
    BY <1>8 DEF BackendDown, BackendUp, BackToSelect
  <2>2. QED
    BY <1>1, <2>1 DEF PlaceInv, AtRest, BackendDegraded
<1>9. CASE GrantPollElapsed
  BY <1>1, <1>9 DEF GrantPollElapsed, PlaceInv, AtRest, BackendDegraded, kanata
<1>10. QED
  BY <1>3, <1>4, <1>5, <1>6, <1>7, <1>8, <1>9 DEF Select

LEMMA ConsistentHandle ==
  ASSUME TypeOK, Consistent, HandleEvent
  PROVE  Consistent'
<1> DEFINE out == Handle(machine, Head(queue))
<1>1. PICK e \in MachineEvent :
        todo = <<>> /\ queue = <<e>> /\ (SpawnReported(e) \/ WakeReported(e))
  BY DEF Consistent, PlaceInv, HandleEvent
<1>2. /\ Head(queue) = e /\ queue' = <<>> /\ pc = "Handle" /\ pc' = "Execute"
      /\ machine' = Handle(machine, e).machine /\ todo' = Handle(machine, e).actions
      /\ UNCHANGED <<child, victim, cont, live>>
  BY <1>1 DEF HandleEvent, kanata
<1>3. machine \in MachineType
  BY DEF TypeOK
<1>4. (Executed \/ Executing)'
  <2>1. CASE SpawnReported(e)
    BY <1>2, <1>3, <2>1, HandleSpawnReport
    DEF SpawnReported, Executed, Executing, AtRest
  <2>2. CASE WakeReported(e)
    BY <1>2, <1>3, <2>2, HandleWake
    DEF WakeReported, Executed, Executing, AtRest, BackendDegraded, ObservedExit
  <2>3. QED
    BY <1>1, <2>1, <2>2
<1>5. cont = "Exit" => machine'.state = "Stopped"
  <2>1. SUFFICES ASSUME cont = "Exit" PROVE machine'.state = "Stopped"
    OBVIOUS
  <2>2. e = "Stop"
    BY <1>1, <1>2, <2>1 DEF Consistent, ExitInv
  <2>3. machine.state # "Starting"
    BY <1>1, <2>2 DEF SpawnReported, SpawnRefusal, WakeReported
  <2>4. QED
    BY <1>2, <1>3, <2>2, <2>3, HandleStop
<1>6. QED
  BY <1>2, <1>4, <1>5 DEF Consistent, PlaceInv, ExitInv, ProcessInv

LEMMA PlanTails ==
  /\ Tail(<<"StopChild">>) = <<>>
  /\ Tail(<<"ArmBackoff">>) = <<>>
  /\ Tail(<<"ArmHealthyTimer">>) = <<>>
  /\ Tail(<<"StopChild", "SpawnChild">>) = <<"SpawnChild">>
OBVIOUS

LEMMA ConsistentExecute ==
  ASSUME TypeOK, Consistent,
         StopNothing \/ StopBegins \/ StopEnds \/ ArmBackoff \/ ArmHealthyTimer
           \/ SpawnBegins \/ Spawned \/ SpawnRefused
  PROVE  Consistent'
<1> USE DEF Consistent, ProcessInv, ExitInv
<1>1. CASE StopNothing
  <2>1. pc = "Execute" /\ pc' = "Execute" /\ child = None /\ Executing
    BY <1>1 DEF StopNothing, Executes, PlaceInv, Executed
  <2>2. (Executed \/ Executing)'
    <3>1. /\ Head(todo) = "StopChild" /\ todo' = Tail(todo)
          /\ UNCHANGED <<machine, child, queue>>
      BY <1>1 DEF StopNothing, Executes
    <3>2. CASE todo = <<"StopChild">>
      BY <2>1, <3>1, <3>2, PlanTails DEF Executing, Executed, AtRest
    <3>3. CASE todo = <<"StopChild", "SpawnChild">>
      BY <2>1, <3>1, <3>3, PlanTails DEF Executing
    <3>4. QED
      BY <2>1, <3>1, <3>2, <3>3 DEF Executing
  <2>3. QED
    BY <1>1, <2>1, <2>2 DEF StopNothing, PlaceInv, kanata
<1>2. CASE StopBegins
  <2>1. pc = "Execute" /\ pc' = "Terminating" /\ child # None /\ Executing
    BY <1>2 DEF StopBegins, Executes, PlaceInv, Executed
  <2>2. Executing' /\ child' = None /\ Head(todo') = "StopChild"
    BY <1>2, <2>1 DEF StopBegins, Executes, Executing
  <2>3. QED
    BY <1>2, <2>1, <2>2 DEF StopBegins, PlaceInv
<1>3. CASE StopEnds
  <2>1. /\ pc = "Terminating" /\ pc' = "Execute" /\ victim' = None
        /\ Executing /\ child = None /\ Head(todo) = "StopChild"
        /\ victim \notin live
    BY <1>3 DEF StopEnds, PlaceInv
  <2>2. (Executed \/ Executing)'
    <3>1. todo' = Tail(todo) /\ UNCHANGED <<machine, child, queue>>
      BY <1>3 DEF StopEnds
    <3>2. CASE todo = <<"StopChild">>
      BY <2>1, <3>1, <3>2, PlanTails DEF Executing, Executed, AtRest
    <3>3. CASE todo = <<"StopChild", "SpawnChild">>
      BY <2>1, <3>1, <3>3, PlanTails DEF Executing
    <3>4. QED
      BY <2>1, <3>2, <3>3 DEF Executing
  <2>3. QED
    BY <1>3, <2>1, <2>2 DEF StopEnds, PlaceInv, kanata
<1>4. CASE ArmBackoff \/ ArmHealthyTimer
  <2>1. pc = "Execute" /\ pc' = "Execute" /\ Executing
    BY <1>4 DEF ArmBackoff, ArmHealthyTimer, ArmTimer, Executes, PlaceInv, Executed
  <2>2. Executed'
    <3>1. /\ Head(todo) \in {"ArmBackoff", "ArmHealthyTimer"} /\ todo' = Tail(todo)
          /\ UNCHANGED <<machine, child, queue>>
      BY <1>4 DEF ArmBackoff, ArmHealthyTimer, ArmTimer, Executes
    <3>2. CASE todo = <<"ArmBackoff">>
      BY <2>1, <3>1, <3>2, PlanTails DEF Executing, Executed, AtRest
    <3>3. CASE todo = <<"ArmHealthyTimer">>
      BY <2>1, <3>1, <3>3, PlanTails DEF Executing, Executed, AtRest
    <3>4. QED
      BY <2>1, <3>1, <3>2, <3>3 DEF Executing
  <2>3. QED
    BY <1>4, <2>1, <2>2
    DEF ArmBackoff, ArmHealthyTimer, ArmTimer, PlaceInv, kanata
<1>5. CASE SpawnBegins
  <2>1. pc = "Execute" /\ pc' = "Spawning" /\ Executing /\ todo = <<"SpawnChild">>
    BY <1>5 DEF SpawnBegins, Executes, PlaceInv, Executed, Executing
  <2>2. Executing' /\ todo' = <<"SpawnChild">>
    BY <1>5, <2>1 DEF SpawnBegins, Executing
  <2>3. machine.state = "Starting"
    BY <2>1 DEF Executing
  <2>4. QED
    BY <1>5, <2>1, <2>2, <2>3 DEF SpawnBegins, PlaceInv, kanata
<1>6. CASE Spawned \/ SpawnRefused
  <2>1. /\ pc = "Spawning" /\ todo = <<"SpawnChild">> /\ queue = <<>>
        /\ machine.state = "Starting" /\ child = None
    BY <1>6 DEF Spawned, SpawnRefused, PlaceInv, Executing
  <2>2. PICK e \in SpawnRefusal \cup {"SpawnSucceeded"} :
          /\ queue' = Append(queue, e)
          /\ child' # None <=> e = "SpawnSucceeded"
    BY <1>6, <2>1, SupervisorAssumption DEF Spawned, SpawnRefused, SpawnRefusal
  <2>3. e \in MachineEvent
    BY ConstantsInTypes
  <2>4. queue' = <<e>>
    BY <2>1, <2>2
  <2>5. SpawnReported(e)'
    BY <1>6, <2>1, <2>2 DEF Spawned, SpawnRefused, SpawnReported
  <2>6. pc' = "Execute" /\ todo' = <<>> /\ cont' = cont /\ victim' = victim
        /\ machine' = machine
    BY <1>6, <2>1 DEF Spawned, SpawnRefused
  <2>7. live' \subseteq {child', victim'}
    BY <1>6, <2>1 DEF Spawned, SpawnRefused, kanata
  <2>8. Executed'
    BY <2>3, <2>4, <2>5, <2>6 DEF Executed
  <2>9. QED
    BY <2>1, <2>6, <2>7, <2>8 DEF PlaceInv
<1>7. QED
  BY <1>1, <1>2, <1>3, <1>4, <1>5, <1>6

LEMMA ConsistentReturn ==
  ASSUME TypeOK, Consistent,
         GrantsReady \/ GrantsMissing \/ Settle \/ SettleIgnored \/ Notify
           \/ HandleNext \/ ReturnToLoop \/ ReturnAndPublish \/ ReturnAndExit
  PROVE  Consistent'
<1> USE DEF Consistent, ProcessInv, ExitInv
<1>1. CASE GrantsReady
  <2>1. pc = "Probing" /\ queue = <<>> /\ todo = <<>> /\ AtRest /\ cont # "Exit"
    BY <1>1 DEF GrantsReady, PlaceInv
  <2>2. "Restart" \in MachineEvent /\ "Restart" \notin ObservedExit
    BY DEF MachineEvent, UserEvent, ObservedExit
  <2>3. WakeReported("Restart")'
    BY <1>1, <2>1, <2>2 DEF GrantsReady, Dispatch, WakeReported, AtRest, BackendDegraded
  <2>4. pc' = "Handle" /\ queue' = <<"Restart">> /\ todo' = <<>> /\ cont' = "Loop"
    BY <1>1, <2>1 DEF GrantsReady, Dispatch
  <2>5. PlaceInv'
    BY <2>2, <2>3, <2>4 DEF PlaceInv
  <2>6. QED
    BY <1>1, <2>1, <2>4, <2>5 DEF GrantsReady, kanata
<1>2. CASE GrantsMissing
  BY <1>2
  DEF GrantsMissing, BackToSelect, PlaceInv, AtRest, BackendDegraded, kanata
<1>3. CASE Settle \/ SettleIgnored \/ Notify
  <2>1. Executed /\ pc \in {"Execute", "Notify"}
    BY <1>3 DEF Settle, SettleIgnored, Notify, PlaceInv, Executing
  <2>2. /\ pc' \in {"Notify", "Next"}
        /\ UNCHANGED <<machine, child, victim, queue, todo, cont, live>>
        /\ pc' = "Notify" => change' # None
    BY <1>3 DEF Settle, SettleIgnored, Notify, kanata
  <2>3. Executed'
    BY <2>1, <2>2 DEF Executed, AtRest, BackendDegraded, SpawnReported
  <2>4. QED
    BY <2>1, <2>2, <2>3 DEF PlaceInv
<1>4. CASE HandleNext
  <2>1. /\ pc = "Next" /\ pc' = "Handle"
        /\ UNCHANGED <<machine, child, victim, queue, todo, cont, live>>
    BY <1>4 DEF HandleNext, kanata
  <2>2. todo = <<>> /\ \E e \in MachineEvent : queue = <<e>> /\ SpawnReported(e)
    BY <1>4, <2>1 DEF HandleNext, PlaceInv, Executed
  <2>3. PlaceInv'
    BY <2>1, <2>2 DEF PlaceInv, SpawnReported
  <2>4. cont # "Exit"
    BY <2>1, <2>2 DEF SpawnReported
  <2>5. QED
    BY <2>1, <2>3, <2>4
<1>5. CASE ReturnToLoop \/ ReturnAndPublish
  <2>1. /\ pc = "Next" /\ pc' = "Select" /\ cont # "Exit"
        /\ UNCHANGED <<machine, child, victim, queue, todo, cont, live>>
    BY <1>5 DEF ReturnToLoop, ReturnAndPublish, BackToSelect, kanata
  <2>2. queue = <<>> /\ todo = <<>> /\ AtRest
    BY <1>5, <2>1 DEF ReturnToLoop, ReturnAndPublish, PlaceInv, Executed
  <2>3. QED
    BY <2>1, <2>2 DEF PlaceInv, AtRest, BackendDegraded
<1>6. CASE ReturnAndExit
  <2>1. /\ pc = "Next" /\ pc' = "Exited" /\ cont = "Exit"
        /\ UNCHANGED <<machine, child, victim, queue, todo, cont, live>>
    BY <1>6 DEF ReturnAndExit, kanata
  <2>2. machine.state = "Stopped" /\ child = None
    BY <1>6, <2>1 DEF ReturnAndExit, PlaceInv, Executed, AtRest, BackendDegraded
  <2>3. QED
    BY <2>1, <2>2 DEF PlaceInv
<1>7. QED
  BY <1>1, <1>2, <1>3, <1>4, <1>5, <1>6

(* Neither the clients, nor kanata, touch what the task owns.              *)
LEMMA ConsistentOutside ==
  ASSUME Consistent, UNCHANGED task, live' \subseteq live
  PROVE  Consistent'
BY DEF Consistent, PlaceInv, AtRest, ExitInv, ProcessInv, Executing, Executed,
       SpawnReported, WakeReported, BackendDegraded, task

(* At each await the machine, the owned child, the child being terminated  *)
(* and what dispatch() still has to do fit together.                       *)
THEOREM ConsistencyCorrect == Spec => []Consistent
<1>1. TypeOK /\ Consistent /\ [Next]_vars => Consistent'
  <2> SUFFICES ASSUME TypeOK, Consistent, [Next]_vars PROVE Consistent'
    OBVIOUS
  <2>1. CASE Select
    BY <2>1, ConsistentSelect
  <2>2. CASE Busy
    BY <2>2, ConsistentHandle, ConsistentExecute, ConsistentReturn DEF Busy
  <2>3. CASE Environment
    BY <2>3, ConsistentOutside
    DEF Environment, Send, ProcessExits, SignalKills, PrintBackend, kanata
  <2>4. CASE Finished \/ UNCHANGED vars
    BY <2>4, ConsistentOutside DEF Finished, vars, kanata
  <2>5. QED
    BY <2>1, <2>2, <2>3, <2>4 DEF Next
<1>2. QED
  BY ConsistentInit, TypeCorrect, <1>1, PTL DEF Spec
-----------------------------------------------------------------------------
(* At no moment are two kanata processes of the daemon alive.              *)
THEOREM SingleInstanceHolds == Spec => []SingleInstance
<1>1. TypeOK /\ Consistent => SingleInstance
  BY SupervisorAssumption
  DEF Consistent, ProcessInv, PlaceInv, SingleInstance, TypeOK
<1>2. QED
  BY <1>1, TypeCorrect, ConsistencyCorrect, PTL

(* When the loop has returned no kanata is left.                           *)
THEOREM NothingLeftBehindHolds == Spec => []NothingLeftBehind
<1>1. TypeOK /\ Consistent => NothingLeftBehind
  BY SupervisorAssumption
  DEF Consistent, ProcessInv, PlaceInv, NothingLeftBehind, TypeOK
<1>2. QED
  BY <1>1, TypeCorrect, ConsistencyCorrect, PTL

(* Between two dispatches the machine and the owned child agree.           *)
THEOREM ChildMatchesStateHolds == Spec => []ChildMatchesState
<1>1. Consistent => ChildMatchesState
  BY DEF Consistent, PlaceInv, AtRest, ChildMatchesState
<1>2. QED
  BY <1>1, ConsistencyCorrect, PTL

(* The three together: the daemon's kanata is accounted for.               *)
THEOREM OwnsItsKanataHolds == Spec => []OwnsItsKanata
<1>1. SingleInstance /\ NothingLeftBehind /\ ChildMatchesState => OwnsItsKanata
  BY DEF OwnsItsKanata
<1>2. QED
  BY <1>1, SingleInstanceHolds, NothingLeftBehindHolds, ChildMatchesStateHolds, PTL

-----------------------------------------------------------------------------
(* The supervisor implements the keeper.  Only a spawn adds a process, in  *)
(* Starting and with none left; only HandleEvent changes what is wanted.   *)
LEMMA NoneAlive ==
  ASSUME TypeOK, Consistent, pc = "Spawning"
  PROVE  live = {} /\ child = None /\ machine.state = "Starting"
BY SupervisorAssumption
DEF Consistent, PlaceInv, ProcessInv, Executing, TypeOK

LEMMA KeeperStutters ==
  ASSUME UNCHANGED <<machine, live>>
  PROVE  UNCHANGED Kept!keeper
BY DEF Kept!keeper, Wanted, BackendDegraded

(* Every step of the supervisor is a step of the keeper of Keeper.tla or   *)
(* changes nothing the keeper shows.                                       *)
THEOREM RefinesKeeper == Spec => KeepsOneKanata
<1>1. Init => Kept!KeeperInit
  <2> SUFFICES ASSUME Init PROVE Kept!KeeperInit
    OBVIOUS
  <2>1. ~Wanted
    BY DEF Init, NewMachine, Wanted, BackendDegraded
  <2>2. QED
    BY <2>1, Zenon DEF Init, Kept!KeeperInit, Wanted
<1>2. TypeOK /\ Consistent /\ [Next]_vars => [Kept!KeeperNext]_(Kept!keeper)
  <2> SUFFICES ASSUME TypeOK, Consistent, [Next]_vars
               PROVE  [Kept!KeeperNext]_(Kept!keeper)
    OBVIOUS
  <2>1. CASE Spawned
    <3>1. pc = "Spawning" /\ UNCHANGED machine /\ \E p \in Pid : live' = live \cup {p}
      BY <2>1 DEF Spawned
    <3>2. Wanted /\ UNCHANGED Wanted
      BY <3>1, NoneAlive DEF Wanted, BackendDegraded
    <3>3. Kept!Launch
      BY <3>1, <3>2, NoneAlive DEF Kept!Launch
    <3>4. QED
      BY <3>3 DEF Kept!KeeperNext
  <2>2. CASE HandleEvent
    <3>1. UNCHANGED live
      BY <2>2 DEF HandleEvent, kanata
    <3>2. CASE Wanted <=> Wanted'
      BY <3>1, <3>2 DEF Kept!keeper, Wanted
    <3>3. CASE Wanted /\ ~Wanted'
      BY <3>1, <3>3 DEF Kept!GiveUp, Kept!KeeperNext, Wanted
    <3>4. CASE ~Wanted /\ Wanted'
      BY <3>1, <3>4 DEF Kept!Want, Kept!KeeperNext, Wanted
    <3>5. QED
      BY <3>2, <3>3, <3>4
  <2>3. CASE ProcessExits \/ SignalKills
    <3>1. PICK p \in live : live' = live \ {p}
      BY <2>3 DEF ProcessExits, SignalKills
    <3>2. live' = {}
      BY <3>1, SupervisorAssumption DEF Consistent, ProcessInv, PlaceInv, TypeOK
    <3>3. UNCHANGED Wanted
      BY <2>3 DEF ProcessExits, SignalKills, task, Wanted, BackendDegraded
    <3>4. Kept!Die
      BY <3>1, <3>2, <3>3 DEF Kept!Die
    <3>5. QED
      BY <3>4 DEF Kept!KeeperNext
  <2>4. CASE Select
    BY <2>4, KeeperStutters
    DEF Select, ReceiveShutdown, ReceiveCommand, ChildExited, BackendDown,
        BackendUp, BackoffElapsed, HealthyElapsed, BackendGraceElapsed, Fires,
        GrantPollElapsed, kanata
  <2>5. CASE Busy /\ ~HandleEvent /\ ~Spawned
    BY <2>5, KeeperStutters
    DEF Busy, GrantsReady, GrantsMissing, StopNothing, StopBegins, StopEnds,
        ArmBackoff, ArmHealthyTimer, ArmTimer, SpawnBegins, SpawnRefused, Settle,
        SettleIgnored, Notify, HandleNext, ReturnToLoop, ReturnAndPublish,
        ReturnAndExit, kanata
  <2>6. CASE \/ \E c \in Command : Send(c)
             \/ \E b \in BackendLine : PrintBackend(b)
             \/ Finished \/ UNCHANGED vars
    BY <2>6, KeeperStutters
    DEF Send, PrintBackend, Finished, vars, task, kanata
  <2>7. QED
    BY <2>1, <2>2, <2>3, <2>4, <2>5, <2>6 DEF Next, Environment, Busy
<1>3. QED
  BY <1>1, <1>2, TypeCorrect, ConsistencyCorrect, PTL
  DEF Spec, KeepsOneKanata, Kept!KeeperSpec
-----------------------------------------------------------------------------
(* The retry budget.                                                       *)
LEMMA EnterWithinBudget ==
  ASSUME NEW m \in MachineType,
         NEW next \in SupervisorState \ {"Backoff", "Degraded"}, NEW actions
  PROVE  WithinBudget(Enter(m, next, actions).machine)
BY NoneAssumption
DEF Enter, Outcome, WithinBudget, MachineType, DegradedReason

LEMMA FaultWithinBudget ==
  ASSUME NEW m \in MachineType, NEW why \in DegradedReason, NEW actions,
         why = "RetryBudgetExhausted" => m.failures >= Budget
  PROVE  WithinBudget(EnterDegraded(m, why, actions).machine)
BY NoneAssumption DEF EnterDegraded, Outcome, WithinBudget, MachineType

LEMMA FailureWithinBudget ==
  ASSUME NEW m \in MachineType
  PROVE  WithinBudget(OnFailure(m).machine)
<1> DEFINE counted == [m EXCEPT !.failures = SaturatingSucc(m.failures)]
<1>1. /\ counted \in MachineType
      /\ counted.failures \in Nat
      /\ counted.failures >= 1 \/ counted.failures >= Budget
  BY BudgetAssumption DEF SaturatingSucc, MachineType
<1>2. CASE BudgetSpent(counted.failures)
  BY <1>1, <1>2, FaultWithinBudget DEF OnFailure, BudgetSpent, DegradedReason
<1>3. CASE ~BudgetSpent(counted.failures)
  <2>1. OnFailure(m).machine = [counted EXCEPT !.state = "Backoff", !.reason = None]
    BY <1>3 DEF OnFailure, Enter, Outcome
  <2>2. /\ OnFailure(m).machine.state = "Backoff"
        /\ OnFailure(m).machine.reason = None
        /\ OnFailure(m).machine.failures = counted.failures
    BY <1>1, <2>1 DEF MachineType
  <2>3. counted.failures \in 1..(Budget - 1)
    BY <1>1, <1>3, BudgetAssumption DEF BudgetSpent
  <2>4. None # "RetryBudgetExhausted"
    BY NoneAssumption DEF DegradedReason
  <2>5. QED
    BY <2>2, <2>3, <2>4 DEF WithinBudget
<1>4. QED
  BY <1>2, <1>3

LEMMA HandleWithinBudget ==
  ASSUME NEW m \in MachineType, WithinBudget(m),
         NEW e \in MachineEvent \ {"RetryBudgetExhausted"}
  PROVE  WithinBudget(Handle(m, e).machine)
<1>1. \A next \in {"Starting", "Stopped", "Paused", "Running"}, actions \in Plan :
        /\ WithinBudget(Enter(m, next, actions).machine)
        /\ WithinBudget(Enter(FreshBudget(m), next, actions).machine)
  BY EnterWithinBudget, FreshBudgetType DEF SupervisorState
<1>2. \A actions \in Plan, why \in DegradedReason \ {"RetryBudgetExhausted"} :
        WithinBudget(EnterDegraded(m, why, actions).machine)
  BY FaultWithinBudget
<1>3. /\ WithinBudget(Ignore(m).machine)
      /\ m.state = "Running" => WithinBudget(Ignore(FreshBudget(m)).machine)
  BY NoneAssumption
  DEF Ignore, FreshBudget, Outcome, WithinBudget, MachineType, DegradedReason
<1>4. "OutputBackendUnavailable" \in DegradedReason \ {"RetryBudgetExhausted"}
  BY DEF DegradedReason
<1>5. WithinBudget(OnFailure(m).machine)
  BY FailureWithinBudget
<1>6. CASE e \in DegradedReason
  BY <1>2, <1>3, <1>6, PlanMembers, SMTT(60) DEF Handle, DegradedReason
<1>7. CASE e \notin DegradedReason
  BY <1>1, <1>2, <1>3, <1>4, <1>5, <1>7, PlanMembers, SMTT(60) DEF Handle
<1>8. QED
  BY <1>6, <1>7

(* Backoff only while budget remains, and its exhaustion reported truly.   *)
THEOREM BudgetRespectedHolds == Spec => []BudgetRespected
<1>1. Init => BudgetRespected
  BY NoneAssumption
  DEF Init, BudgetRespected, WithinBudget, NewMachine, DegradedReason
<1>2. TypeOK /\ Consistent /\ BudgetRespected /\ [Next]_vars => BudgetRespected'
  <2> SUFFICES ASSUME TypeOK, Consistent, BudgetRespected, [Next]_vars
               PROVE  BudgetRespected'
    OBVIOUS
  <2>1. CASE HandleEvent
    <3>1. PICK e \in MachineEvent : queue = <<e>> /\ e # "RetryBudgetExhausted"
      BY <2>1
      DEF HandleEvent, Consistent, PlaceInv, SpawnReported, WakeReported, SpawnRefusal
    <3>2. machine' = Handle(machine, e).machine
      BY <2>1, <3>1 DEF HandleEvent
    <3>3. QED
      BY <3>1, <3>2, HandleWithinBudget DEF BudgetRespected, TypeOK
  <2>2. CASE UNCHANGED machine
    BY <2>2 DEF BudgetRespected, WithinBudget
  <2>3. HandleEvent \/ UNCHANGED machine
    BY DEF Next, Select, Busy, Environment, ReceiveShutdown, ReceiveCommand,
       ChildExited, BackendDown, BackendUp, BackoffElapsed, HealthyElapsed,
       BackendGraceElapsed, Fires, GrantPollElapsed, GrantsReady, GrantsMissing,
       StopNothing, StopBegins, StopEnds, ArmBackoff, ArmHealthyTimer, ArmTimer,
       SpawnBegins, Spawned, SpawnRefused, Settle, SettleIgnored, Notify,
       HandleNext, ReturnToLoop, ReturnAndPublish, ReturnAndExit, Send,
       ProcessExits, SignalKills, PrintBackend, Finished, vars, task
  <2>4. QED
    BY <2>1, <2>2, <2>3
<1>3. QED
  BY <1>1, <1>2, TypeCorrect, ConsistencyCorrect, PTL DEF Spec
-----------------------------------------------------------------------------
(* The timers.  The retry timer of Backoff exists from the moment the      *)
(* state is entered until its event is handled: as an action still to be   *)
(* executed, as a timer, as an event in the queue.                         *)
RetryPending ==
  \/ "backoff" \in timers
  \/ pc = "Execute" /\ todo = <<"ArmBackoff">>
  \/ pc = "Handle" /\ queue = <<"BackoffElapsed">>

TimersInv ==
  /\ "backoff" \in timers => machine.state = "Backoff"
  /\ machine.state = "Backoff" => RetryPending
  /\ timers \cap {"healthy", "backend"} # {} => machine.state = "Running"
  /\ pc = "Select" => ("grant" \in timers <=> WatchesGrant(machine))
  /\ pc = "Probing" => WatchesGrant(machine)

(* Backoff is entered with the action that arms its timer, and left by the *)
(* event of that timer.                                                    *)
LEMMA HandleToBackoff ==
  ASSUME NEW m \in MachineType, NEW e \in MachineEvent,
         Handle(m, e).machine.state = "Backoff"
  PROVE  \/ Handle(m, e).actions = <<"ArmBackoff">>
         \/ m.state = "Backoff" /\ e # "BackoffElapsed"
<1> USE EnterFields, EnterDegradedFields, IgnoreFields, OnFailureFields
<1>1. CASE m.state = "Starting"
  <2>1. \/ Handle(m, e) = Enter(m, "Stopped", <<"StopChild">>)
        \/ Handle(m, e) = Enter(m, "Stopped", <<>>)
        \/ Handle(m, e) = Enter(m, "Running", <<"ArmHealthyTimer">>)
        \/ Handle(m, e) = OnFailure(m)
        \/ Handle(m, e) = EnterDegraded(m, e, <<>>)
        \/ Handle(m, e) = Ignore(m)
    BY <1>1 DEF Handle, BackendDegraded, RestartsFromIdle
  <2>2. QED
    BY <1>1, <2>1
<1>2. CASE m.state = "Backoff" /\ e = "BackoffElapsed"
  BY <1>2 DEF Handle, BackendDegraded, RestartsFromIdle, DegradedReason
<1>3. CASE m.state # "Starting" /\ ~(m.state = "Backoff" /\ e = "BackoffElapsed")
  BY <1>3, HandleWake DEF BackendDegraded
<1>4. QED
  BY <1>1, <1>2, <1>3

LEMMA TimersSelect ==
  ASSUME TypeOK, Consistent, TimersInv, Select
  PROVE  TimersInv'
<1> USE DEF TimersInv, RetryPending
<1>1. pc = "Select" /\ queue = <<>> /\ todo = <<>>
  BY DEF Select, ReceiveShutdown, ReceiveCommand, ChildExited, BackendDown,
         BackendUp, BackoffElapsed, HealthyElapsed, BackendGraceElapsed,
         GrantPollElapsed, Fires, ChildTurn, TimerTurn, Consistent, PlaceInv
<1>2. machine' = machine
  BY DEF Select, ReceiveShutdown, ReceiveCommand, ChildExited, BackendDown,
         BackendUp, BackoffElapsed, HealthyElapsed, BackendGraceElapsed,
         GrantPollElapsed, Fires
<1>3. machine.state = "Backoff" => "backoff" \in timers
  BY <1>1
<1>4. CASE /\ pc' = "Handle"
           /\ timers' \subseteq timers
           /\ "backoff" \in timers \ timers' => queue' = <<"BackoffElapsed">>
  BY <1>2, <1>3, <1>4
<1>5. CASE ReceiveShutdown \/ ReceiveCommand \/ ChildExited
  BY <1>4, <1>5 DEF ReceiveShutdown, ReceiveCommand, ChildExited, Dispatch
<1>6. CASE BackoffElapsed \/ HealthyElapsed \/ BackendGraceElapsed
  BY <1>4, <1>6
  DEF BackoffElapsed, HealthyElapsed, BackendGraceElapsed, Fires, Dispatch
<1>7. CASE BackendUp /\ BackendDegraded(machine)
  BY <1>4, <1>7 DEF BackendUp, Dispatch
<1>8. CASE BackendDown \/ (BackendUp /\ ~BackendDegraded(machine))
  <2>1. PICK armed : /\ BackToSelect(machine, armed)
                     /\ "backoff" \in armed <=> "backoff" \in timers
                     /\ "healthy" \in armed <=> "healthy" \in timers
                     /\ "backend" \in armed =>
                          "backend" \in timers \/ machine.state = "Running"
    BY <1>8 DEF BackendDown, BackendUp
  <2>2. /\ pc' = "Select"
        /\ "grant" \in timers' <=> WatchesGrant(machine)
        /\ \A timer \in {"backoff", "healthy", "backend"} :
             timer \in timers' <=> timer \in armed
    BY <2>1 DEF BackToSelect, SyncGrantWatch
  <2>3. timers' \cap {"healthy", "backend"} # {} => machine.state = "Running"
    BY <2>1, <2>2
  <2>4. "backoff" \in timers' <=> "backoff" \in timers
    BY <2>1, <2>2
  <2>5. QED
    BY <1>2, <1>3, <2>2, <2>3, <2>4 DEF WatchesGrant
<1>9. CASE GrantPollElapsed
  BY <1>1, <1>2, <1>3, <1>9 DEF GrantPollElapsed, WatchesGrant
<1>10. QED
  BY <1>5, <1>6, <1>7, <1>8, <1>9 DEF Select

LEMMA TimersHandle ==
  ASSUME TypeOK, Consistent, TimersInv, HandleEvent
  PROVE  TimersInv'
<1>1. PICK e \in MachineEvent : queue = <<e>>
  BY DEF Consistent, PlaceInv, HandleEvent
<1>2. /\ pc = "Handle" /\ pc' = "Execute"
      /\ machine' = Handle(machine, e).machine
      /\ todo' = Handle(machine, e).actions
      /\ timers' = KeepTimers(machine', timers)
  BY <1>1 DEF HandleEvent
<1>3. /\ "backoff" \in timers' <=> "backoff" \in timers /\ machine'.state = "Backoff"
      /\ timers' \cap {"healthy", "backend"} # {} => machine'.state = "Running"
  BY <1>2 DEF KeepTimers
<1>4. ASSUME machine'.state = "Backoff" PROVE RetryPending'
  <2>1. CASE todo' = <<"ArmBackoff">>
    BY <1>2, <2>1 DEF RetryPending
  <2>2. CASE machine.state = "Backoff" /\ e # "BackoffElapsed"
    <3>1. queue # <<"BackoffElapsed">>
      BY <1>1, <2>2
    <3>2. "backoff" \in timers
      BY <1>2, <2>2, <3>1 DEF TimersInv, RetryPending
    <3>3. QED
      BY <1>3, <1>4, <3>2 DEF RetryPending
  <2>3. QED
    BY <1>2, <1>4, <2>1, <2>2, HandleToBackoff DEF TypeOK
<1>5. QED
  BY <1>2, <1>3, <1>4 DEF TimersInv

(* The rest of dispatch() only arms the timers of the state it is in.      *)
LEMMA TimersBusy ==
  ASSUME TypeOK, Consistent, TimersInv, Busy, ~HandleEvent
  PROVE  TimersInv'
<1>1. machine' = machine
  BY DEF Busy, GrantsReady, GrantsMissing, StopNothing, StopBegins, StopEnds,
     ArmBackoff, ArmHealthyTimer, ArmTimer, SpawnBegins, Spawned, SpawnRefused,
     Settle, SettleIgnored, Notify, HandleNext, ReturnToLoop, ReturnAndPublish,
     ReturnAndExit
<1>2. CASE ArmBackoff \/ ArmHealthyTimer
  <2>1. /\ pc = "Execute" /\ pc' = "Execute"
        /\ \/ timers' = timers \cup {"backoff"} /\ Head(todo) = "ArmBackoff"
           \/ timers' = timers \cup {"healthy"} /\ Head(todo) = "ArmHealthyTimer"
        /\ todo # <<>>
    BY <1>2 DEF ArmBackoff, ArmHealthyTimer, ArmTimer, Executes
  <2>2. Executing
    BY <2>1 DEF Consistent, PlaceInv, Executed
  <2>3. /\ Head(todo) = "ArmBackoff" => machine.state = "Backoff"
        /\ Head(todo) = "ArmHealthyTimer" =>
             machine.state = "Running" /\ todo # <<"ArmBackoff">>
    BY <2>2 DEF Executing
  <2>4. QED
    BY <1>1, <2>1, <2>3 DEF TimersInv, RetryPending
<1>3. CASE GrantsMissing \/ ReturnToLoop \/ ReturnAndPublish
  <2>1. BackToSelect(machine, timers) /\ pc \in {"Probing", "Next"}
    BY <1>3 DEF GrantsMissing, ReturnToLoop, ReturnAndPublish
  <2>2. /\ pc' = "Select"
        /\ "grant" \in timers' <=> WatchesGrant(machine)
        /\ timers' \ {"grant"} = timers \ {"grant"}
    BY <2>1 DEF BackToSelect, SyncGrantWatch
  <2>3. QED
    BY <1>1, <2>1, <2>2 DEF TimersInv, RetryPending, WatchesGrant
<1>4. CASE GrantsReady
  BY <1>1, <1>4
  DEF GrantsReady, Dispatch, TimersInv, RetryPending, WatchesGrant
<1>5. CASE StopNothing \/ StopBegins \/ StopEnds \/ SpawnBegins \/ Spawned
             \/ SpawnRefused
  <2>1. timers' = timers /\ pc' \in {"Execute", "Terminating", "Spawning"}
    BY <1>5
    DEF StopNothing, StopBegins, StopEnds, SpawnBegins, Spawned, SpawnRefused,
        Executes
  <2>2. machine.state # "Backoff"
    <3>1. Executing /\ Head(todo) \in {"StopChild", "SpawnChild"}
      BY <1>5
      DEF StopNothing, StopBegins, StopEnds, SpawnBegins, Spawned, SpawnRefused,
          Executes, Consistent, PlaceInv, Executed
    <3>2. QED
      BY <3>1 DEF Executing
  <2>3. QED
    BY <1>1, <2>1, <2>2 DEF TimersInv, RetryPending
<1>6. CASE Settle \/ SettleIgnored \/ Notify \/ HandleNext \/ ReturnAndExit
  <2>1. /\ timers' = timers /\ pc' \notin {"Select", "Probing"}
        /\ pc = "Execute" => todo = <<>>
        /\ pc \in {"Execute", "Notify", "Next"}
    BY <1>6 DEF Settle, SettleIgnored, Notify, HandleNext, ReturnAndExit
  <2>2. <<>> # <<"ArmBackoff">>
    OBVIOUS
  <2>3. QED
    BY <1>1, <2>1, <2>2 DEF TimersInv, RetryPending
<1>7. QED
  BY <1>2, <1>3, <1>4, <1>5, <1>6 DEF Busy

LEMMA TimersCorrect == Spec => []TimersInv
<1>1. Init => TimersInv
  BY DEF Init, TimersInv, RetryPending, NewMachine, WatchesGrant
<1>2. TypeOK /\ Consistent /\ TimersInv /\ [Next]_vars => TimersInv'
  <2> SUFFICES ASSUME TypeOK, Consistent, TimersInv, [Next]_vars
               PROVE  TimersInv'
    OBVIOUS
  <2>1. CASE UNCHANGED task
    BY <2>1 DEF TimersInv, RetryPending, WatchesGrant, task
  <2>2. CASE Environment \/ Finished \/ UNCHANGED vars
    BY <2>1, <2>2 DEF Environment, Send, ProcessExits, SignalKills, PrintBackend,
       Finished, vars
  <2>3. QED
    BY <2>2, TimersSelect, TimersHandle, TimersBusy DEF Next
<1>3. QED
  BY <1>1, <1>2, TypeCorrect, ConsistencyCorrect, PTL DEF Spec

(* Whoever waits in Backoff is woken, and no timer outlives its state.      *)
THEOREM TimersMatchStateHolds == Spec => []TimersMatchState
<1>1. Consistent /\ TimersInv => TimersMatchState
  BY DEF Consistent, PlaceInv, TimersInv, RetryPending, TimersMatchState
<1>2. QED
  BY <1>1, TimersCorrect, ConsistencyCorrect, PTL
-----------------------------------------------------------------------------
(* What is published, at each place of the task.                           *)
Told == heard = [state |-> machine.state, reason |-> machine.reason]

Shown == snapshot = SnapshotOf(machine, child)

(* A transition waits to be announced, and it continues the chain.         *)
Announces ==
  /\ change # None
  /\ change.from = heard.state
  /\ change.to = machine.state
  /\ change.reason = machine.reason
  /\ change.to # heard.state

(* Nothing waits: the subscribers know the state, and the snapshot is true *)
(* unless the handler of an exit still has to publish it.                  *)
Agreed == Told /\ (Shown \/ cont = "Publish")

PublishInv ==
  /\ pc \in {"Select", "Probing"} => Told /\ Shown
  /\ pc \in {"Handle", "Next"} => Agreed
  /\ pc \in {"Execute", "Terminating", "Spawning"} =>
       Announces \/ (change = None /\ todo = <<>> /\ Agreed)
  /\ pc = "Notify" => Announces /\ Shown
  /\ PersistOutcomes = {"written"} /\ disk # None => disk = snapshot


(* A row of the table either enters another state, and is announced, or    *)
(* leaves state and reason as they are and asks for nothing.               *)
Changes(m, out) == out.moved /\ out.machine.state # m.state

Stays(m, out) ==
  /\ ~out.moved
  /\ out.actions = <<>>
  /\ out.machine.state = m.state
  /\ out.machine.reason = m.reason

LEMMA OutcomeMoves ==
  ASSUME NEW m \in MachineType
  PROVE  /\ \A next, actions : next # m.state => Changes(m, Enter(m, next, actions))
         /\ \A next, actions :
              next # m.state => Changes(m, Enter(FreshBudget(m), next, actions))
         /\ \A why, actions :
              m.state # "Degraded" => Changes(m, EnterDegraded(m, why, actions))
         /\ Stays(m, Ignore(m)) /\ Stays(m, Ignore(FreshBudget(m)))
BY DEF Changes, Stays, Enter, EnterDegraded, Ignore, FreshBudget, Outcome, MachineType

LEMMA OnFailureMoves ==
  ASSUME NEW m \in MachineType, m.state \in {"Starting", "Running"}
  PROVE  Changes(m, OnFailure(m))
<1> DEFINE counted == [m EXCEPT !.failures = SaturatingSucc(m.failures)]
<1>1. counted \in MachineType /\ counted.state = m.state
  BY BudgetAssumption DEF SaturatingSucc, MachineType
<1>2. /\ Changes(counted, EnterDegraded(counted, "RetryBudgetExhausted", <<>>))
      /\ Changes(counted, Enter(counted, "Backoff", <<"ArmBackoff">>))
  BY <1>1, OutcomeMoves
<1>3. QED
  BY <1>1, <1>2 DEF OnFailure, Changes

LEMMA HandleMoves ==
  ASSUME NEW m \in MachineType, NEW e \in MachineEvent
  PROVE  Changes(m, Handle(m, e)) \/ Stays(m, Handle(m, e))
<1> DEFINE Good(out) == Changes(m, out) \/ Stays(m, out)
<1>1. /\ \A next, actions : next # m.state => Good(Enter(m, next, actions))
      /\ \A next, actions :
           next # m.state => Good(Enter(FreshBudget(m), next, actions))
      /\ \A why, actions :
           m.state # "Degraded" => Good(EnterDegraded(m, why, actions))
      /\ Good(Ignore(m)) /\ Good(Ignore(FreshBudget(m)))
  BY OutcomeMoves
<1>2. m.state \in {"Starting", "Running"} => Good(OnFailure(m))
  BY OnFailureMoves
<1> HIDE DEF Good
<1>3. Good(Handle(m, e))
  BY <1>1, <1>2, SMTT(60) DEF Handle, RestartsFromIdle, BackendDegraded
<1>4. QED
  BY <1>3 DEF Good

LEMMA PublishSelect ==
  ASSUME TypeOK, Consistent, PublishInv, Select
  PROVE  PublishInv'
<1> USE DEF PublishInv, Told, Shown, Agreed
<1>1. pc = "Select" /\ Told /\ Shown
  BY DEF Select, ReceiveShutdown, ReceiveCommand, ChildExited, BackendDown,
         BackendUp, BackoffElapsed, HealthyElapsed, BackendGraceElapsed,
         GrantPollElapsed, Fires, ChildTurn, TimerTurn
<1>2. UNCHANGED <<machine, snapshot, disk, heard>>
  BY DEF Select, ReceiveShutdown, ReceiveCommand, ChildExited, BackendDown,
         BackendUp, BackoffElapsed, HealthyElapsed, BackendGraceElapsed,
         GrantPollElapsed, Fires, published
<1>3. CASE ChildExited
  BY <1>1, <1>2, <1>3 DEF ChildExited, Dispatch
<1>4. CASE ~ChildExited
  <2>1. child' = child /\ pc' \in {"Select", "Probing", "Handle"}
    BY <1>4
    DEF Select, ReceiveShutdown, ReceiveCommand, BackendDown, BackendUp,
        BackoffElapsed, HealthyElapsed, BackendGraceElapsed, GrantPollElapsed,
        Fires, Dispatch, BackToSelect
  <2>2. QED
    BY <1>1, <1>2, <2>1
<1>5. QED
  BY <1>3, <1>4

LEMMA PublishHandle ==
  ASSUME TypeOK, Consistent, PublishInv, HandleEvent
  PROVE  PublishInv'
<1>1. PICK e \in MachineEvent : queue = <<e>>
  BY DEF Consistent, PlaceInv, HandleEvent
<1> DEFINE out == Handle(machine, e)
<1>2. /\ pc = "Handle" /\ pc' = "Execute"
      /\ machine' = out.machine
      /\ todo' = out.actions
      /\ change' = IF out.moved
                   THEN [from |-> machine.state, to |-> out.machine.state,
                         reason |-> out.machine.reason]
                   ELSE None
      /\ UNCHANGED <<child, cont, snapshot, disk, heard>>
  BY <1>1 DEF HandleEvent, published
<1>3. Agreed
  BY <1>2 DEF PublishInv
<1>4. out \in OutcomeType /\ (Changes(machine, out) \/ Stays(machine, out))
  BY HandleType, HandleMoves DEF TypeOK
<1> HIDE DEF out
<1>5. CASE Changes(machine, out)
  <2>1. change' = [from |-> machine.state, to |-> out.machine.state,
                   reason |-> out.machine.reason]
    BY <1>2, <1>5 DEF Changes
  <2>2. change' \in StateChanged
    BY <1>4, <2>1 DEF TypeOK, MachineType, OutcomeType, StateChanged
  <2>3. change' # None
    BY <2>2, ChangeAssumption
  <2>4. Announces'
    BY <1>2, <1>3, <1>5, <2>1, <2>3 DEF Announces, Changes, Agreed, Told
  <2>5. QED
    BY <1>2, <2>4 DEF PublishInv
<1>6. CASE Stays(machine, out)
  <2>1. change' = None /\ todo' = <<>>
    BY <1>2, <1>6 DEF Stays
  <2>2. Agreed'
    BY <1>2, <1>3, <1>6 DEF Stays, Agreed, Told, Shown, SnapshotOf
  <2>3. QED
    BY <1>2, <2>1, <2>2 DEF PublishInv
<1>7. QED
  BY <1>4, <1>5, <1>6

LEMMA Published ==
  ASSUME PublishInv, Publish(machine, child)
  PROVE  /\ snapshot' = SnapshotOf(machine, child)
         /\ PersistOutcomes = {"written"} => disk' = snapshot'
BY DEF Publish, Persist

LEMMA PublishExecute ==
  ASSUME TypeOK, Consistent, PublishInv,
         StopNothing \/ StopBegins \/ StopEnds \/ ArmBackoff \/ ArmHealthyTimer
           \/ SpawnBegins \/ Spawned \/ SpawnRefused
  PROVE  PublishInv'
<1>1. /\ pc \in {"Execute", "Terminating", "Spawning"}
      /\ pc' \in {"Execute", "Terminating", "Spawning"}
      /\ UNCHANGED <<machine, change, heard>>
  BY DEF StopNothing, StopBegins, StopEnds, ArmBackoff, ArmHealthyTimer, ArmTimer,
     SpawnBegins, Spawned, SpawnRefused, Executes, published
<1>2. todo # <<>>
  BY DEF StopNothing, StopBegins, StopEnds, ArmBackoff, ArmHealthyTimer, ArmTimer,
     SpawnBegins, Spawned, SpawnRefused, Executes, Consistent, PlaceInv, Executing
<1>3. Announces'
  BY <1>1, <1>2 DEF PublishInv, Announces
<1>4. (PersistOutcomes = {"written"} /\ disk # None => disk = snapshot)'
  <2>1. CASE StopEnds
    BY <2>1, Published DEF StopEnds
  <2>2. CASE UNCHANGED <<snapshot, disk>>
    BY <2>2 DEF PublishInv
  <2>3. QED
    BY <2>1, <2>2 DEF StopNothing, StopBegins, ArmBackoff, ArmHealthyTimer,
       ArmTimer, SpawnBegins, Spawned, SpawnRefused, published
<1>5. QED
  BY <1>1, <1>3, <1>4 DEF PublishInv

LEMMA PublishReturn ==
  ASSUME TypeOK, Consistent, PublishInv,
         GrantsReady \/ GrantsMissing \/ Settle \/ SettleIgnored \/ Notify
           \/ HandleNext \/ ReturnToLoop \/ ReturnAndPublish \/ ReturnAndExit
  PROVE  PublishInv'
<1> USE DEF PublishInv
<1>1. UNCHANGED <<machine, child>>
  BY DEF GrantsReady, GrantsMissing, Settle, SettleIgnored, Notify, HandleNext,
     ReturnToLoop, ReturnAndPublish, ReturnAndExit
<1>2. CASE Settle
  <2>1. /\ pc = "Execute" /\ pc' = "Notify" /\ UNCHANGED <<change, heard>>
        /\ Publish(machine, child) /\ change # None
    BY <1>2 DEF Settle
  <2>2. Announces'
    BY <1>1, <2>1 DEF Announces
  <2>3. Shown'
    BY <1>1, <2>1, Published DEF Shown
  <2>4. QED
    BY <2>1, <2>2, <2>3, Published
<1>3. CASE SettleIgnored
  <2>1. Agreed
    BY <1>3 DEF SettleIgnored, Announces
  <2>2. QED
    BY <1>3, <2>1 DEF SettleIgnored, Agreed, Told, Shown, published
<1>4. CASE Notify
  BY <1>1, <1>4 DEF Notify, Announces, Agreed, Told, Shown
<1>5. CASE GrantsReady \/ GrantsMissing
  BY <1>1, <1>5
  DEF GrantsReady, GrantsMissing, Dispatch, BackToSelect, Agreed, Told, Shown,
      published
<1>6. CASE HandleNext
  BY <1>1, <1>6 DEF HandleNext, Agreed, Told, Shown, published
<1>7. CASE ReturnToLoop
  <2>1. Told /\ Shown /\ pc' = "Select"
    BY <1>7 DEF ReturnToLoop, BackToSelect, Agreed
  <2>2. QED
    BY <1>1, <1>7, <2>1 DEF ReturnToLoop, Told, Shown, published
<1>8. CASE ReturnAndPublish
  <2>1. Told /\ pc' = "Select" /\ heard' = heard /\ Publish(machine, child)
    BY <1>8 DEF ReturnAndPublish, BackToSelect, Agreed
  <2>2. Shown' /\ Told'
    BY <1>1, <2>1, Published DEF Told, Shown
  <2>3. QED
    BY <2>1, <2>2, Published
<1>9. CASE ReturnAndExit
  <2>1. Shown /\ pc' = "Exited" /\ snapshot' = snapshot /\ Persist(machine, child)
    BY <1>9 DEF ReturnAndExit, Agreed
  <2>2. PersistOutcomes = {"written"} => disk' = snapshot'
    BY <2>1 DEF Persist, Shown
  <2>3. QED
    BY <2>1, <2>2
<1>10. QED
  BY <1>2, <1>3, <1>4, <1>5, <1>6, <1>7, <1>8, <1>9

(* What is published is right at each await, or what would make it right is*)
(* still to come in dispatch().                                            *)
THEOREM PublishCorrect == Spec => []PublishInv
<1>1. Init => PublishInv
  BY DEF Init, PublishInv, Told, Shown, NewMachine
<1>2. TypeOK /\ Consistent /\ PublishInv /\ [Next]_vars => PublishInv'
  <2> SUFFICES ASSUME TypeOK, Consistent, PublishInv, [Next]_vars
               PROVE  PublishInv'
    OBVIOUS
  <2>1. CASE UNCHANGED <<task, published>>
    BY <2>1
    DEF PublishInv, Told, Shown, Agreed, Announces, SnapshotOf, task, published
  <2>2. CASE Environment \/ Finished \/ UNCHANGED vars
    BY <2>1, <2>2 DEF Environment, Send, ProcessExits, SignalKills, PrintBackend,
       Finished, vars
  <2>3. QED
    BY <2>2, PublishSelect, PublishHandle, PublishExecute, PublishReturn
    DEF Next, Busy
<1>3. QED
  BY <1>1, <1>2, TypeCorrect, ConsistencyCorrect, PTL DEF Spec

(* Between two dispatches the three publications agree with the task.      *)
THEOREM PublishedAgreeHolds == Spec => []PublishedAgree
<1>1. PublishInv => PublishedAgree
  BY DEF PublishInv, Told, Shown, PublishedAgree
<1>2. QED
  BY <1>1, PublishCorrect, PTL

(* No event is lost, doubled, out of order, or older than the snapshot.    *)
THEOREM EventsChainHold == Spec => EventsChain
<1>1. PublishInv /\ [Next]_vars =>
        [Notify =>
           /\ change.from = heard.state /\ change.to # heard.state
           /\ snapshot.state = heard'.state /\ snapshot.reason = heard'.reason]_vars
  <2> SUFFICES ASSUME PublishInv, Notify
               PROVE  /\ change.from = heard.state /\ change.to # heard.state
                      /\ snapshot.state = heard'.state
                      /\ snapshot.reason = heard'.reason
    OBVIOUS
  <2>1. Announces /\ Shown
    BY DEF Notify, PublishInv
  <2>2. heard'.state = machine.state /\ heard'.reason = machine.reason
    BY <2>1 DEF Notify, Announces
  <2>3. snapshot.state = machine.state /\ snapshot.reason = machine.reason
    BY <2>1 DEF Shown, SnapshotOf
  <2>4. QED
    BY <2>1, <2>2, <2>3 DEF Announces
<1>2. QED
  BY <1>1, PublishCorrect, PTL DEF Spec, EventsChain
-----------------------------------------------------------------------------
(* The output backend of the child.                                        *)
BelievedDown == "backend" \in timers \/ BackendDegraded(machine)

(* The places at which the last line read has had its effect: it waits in  *)
(* the queue otherwise, or the child is about to be stopped.               *)
Judged ==
  CASE pc = "Handle" ->
         queue \notin {<<"OutputBackendLost">>, <<"OutputBackendRecovered">>}
    [] pc = "Execute" -> todo = <<>> \/ Head(todo) # "StopChild"
    [] OTHER -> TRUE

(* With every line of the child read, the task believes what the child     *)
(* printed last.  Unread lines end with it.                                *)
BackendInv ==
  child # None =>
    /\ lines # <<>> => backend = lines[Len(lines)]
    /\ lines = <<>> =>
         /\ Judged => (backend = "Down" <=> BelievedDown)
         /\ pc = "Handle" /\ queue = <<"OutputBackendLost">> => backend = "Down"
         /\ pc = "Handle" /\ queue = <<"OutputBackendRecovered">> =>
              backend = "Up" /\ "backend" \notin timers

(* What the table does with an event while a child is owned.               *)
LEMMA HandleOwned ==
  ASSUME NEW m \in MachineType, m.state = "Running" \/ BackendDegraded(m),
         NEW e \in MachineEvent \ ObservedExit
  PROVE  LET out == Handle(m, e)
         IN  \/ out.actions \in {<<"StopChild">>, <<"StopChild", "SpawnChild">>}
             \/ /\ e = "OutputBackendLost"
                /\ BackendDegraded(out.machine)
                /\ out.actions = <<>>
             \/ /\ e = "OutputBackendRecovered"
                /\ out.machine.state = "Running"
                /\ out.machine.reason = None \/ out.machine.reason = m.reason
                /\ out.actions \in {<<>>, <<"ArmHealthyTimer">>}
             \/ /\ e \notin {"OutputBackendLost", "OutputBackendRecovered"}
                /\ out.machine.state = m.state
                /\ out.machine.reason = m.reason
                /\ out.actions = <<>>
<1> USE EnterFields, EnterDegradedFields, IgnoreFields
<1>1. CASE m.state = "Running"
  <2>1. CASE e \in DegradedReason
    <3>1. Handle(m, e) = EnterDegraded(m, e, <<"StopChild">>)
      BY <1>1, <2>1 DEF Handle, DegradedReason
    <3>2. QED
      BY <3>1
  <2>2. CASE e \notin DegradedReason
    <3>1. e \notin {"Crash", "PanicEscape"}
      BY DEF ObservedExit
    <3>2. CASE e = "OutputBackendLost"
      BY <1>1, <3>2 DEF Handle, DegradedReason, BackendDegraded
    <3>3. CASE e = "OutputBackendRecovered"
      BY <1>1, <3>3 DEF Handle, DegradedReason, BackendDegraded
    <3>4. CASE e \notin {"OutputBackendLost", "OutputBackendRecovered"}
      <4>1. \/ Handle(m, e) = Enter(m, "Starting", <<"StopChild", "SpawnChild">>)
            \/ Handle(m, e) = Enter(m, "Stopped", <<"StopChild">>)
            \/ Handle(m, e) = Enter(m, "Paused", <<"StopChild">>)
            \/ Handle(m, e) = Ignore(FreshBudget(m))
            \/ Handle(m, e) = Ignore(m)
        BY <1>1, <2>2, <3>1, <3>4 DEF Handle, BackendDegraded, RestartsFromIdle
      <4>2. CASE Handle(m, e) \in {Ignore(m), Ignore(FreshBudget(m))}
        <5>1. /\ Handle(m, e).actions = <<>>
              /\ Handle(m, e).machine.state = m.state
              /\ Handle(m, e).machine.reason = m.reason
          BY <4>2
        <5>2. QED
          BY <3>4, <5>1
      <4>3. CASE Handle(m, e) = Enter(m, "Starting", <<"StopChild", "SpawnChild">>)
        BY <4>3
      <4>4. CASE Handle(m, e) \in {Enter(m, "Stopped", <<"StopChild">>),
                                  Enter(m, "Paused", <<"StopChild">>)}
        BY <4>4
      <4>5. QED
        BY <4>1, <4>2, <4>3, <4>4
    <3>5. QED
      BY <3>2, <3>3, <3>4
  <2>3. QED
    BY <2>1, <2>2
<1>2. CASE BackendDegraded(m)
  <2>1. m.state = "Degraded" /\ m.reason = "OutputBackendUnavailable"
    BY <1>2 DEF BackendDegraded
  <2>2. FreshBudget(m) \in MachineType
    BY FreshBudgetType
  <2>3. CASE e = "OutputBackendRecovered"
    BY <1>2, <2>1, <2>3 DEF Handle, DegradedReason
  <2>4. CASE e # "OutputBackendRecovered"
    <3>1. \/ Handle(m, e) = Enter(FreshBudget(m), "Starting", <<"StopChild", "SpawnChild">>)
          \/ Handle(m, e) = Enter(m, "Starting", <<"StopChild", "SpawnChild">>)
          \/ Handle(m, e) = Enter(m, "Stopped", <<"StopChild">>)
          \/ Handle(m, e) = Ignore(m)
      BY <2>1, <2>4 DEF Handle, RestartsFromIdle
    <3>2. CASE Handle(m, e) = Ignore(m)
      <4>1. Handle(m, e).machine = m /\ Handle(m, e).actions = <<>>
        BY <3>2
      <4>2. QED
        BY <1>2, <2>4, <4>1
    <3>3. CASE Handle(m, e) # Ignore(m)
      <4>1. Handle(m, e).actions \in {<<"StopChild">>, <<"StopChild", "SpawnChild">>}
        BY <2>2, <3>1, <3>3
      <4>2. QED
        BY <4>1
    <3>4. QED
      BY <3>2, <3>3
  <2>5. QED
    BY <2>3, <2>4
<1>3. QED
  BY <1>1, <1>2

LEMMA LastOfTail ==
  ASSUME NEW s \in Seq(BackendLine), s # <<>>
  PROVE  /\ Tail(s) = <<>> => s[Len(s)] = Head(s)
         /\ Tail(s) # <<>> => Tail(s)[Len(Tail(s))] = s[Len(s)]
<1>1. PICK n \in Nat : n = Len(s) /\ n # 0
  OBVIOUS
<1>2. Len(Tail(s)) = n - 1 /\ Tail(s) \in Seq(BackendLine)
  BY <1>1
<1>3. \A t \in Seq(BackendLine) : t = <<>> <=> Len(t) = 0
  OBVIOUS
<1>4. Tail(s) = <<>> <=> n = 1
  <2>1. PICK t \in Seq(BackendLine) : t = Tail(s) /\ Len(t) = n - 1
    BY <1>2
  <2>2. t = <<>> <=> n - 1 = 0
    BY <1>3, <2>1
  <2>3. QED
    BY <1>1, <2>1, <2>2
<1>5. \A i \in 1..(n - 1) : Tail(s)[i] = s[i + 1]
  BY <1>1, <1>2
<1>6. Head(s) = s[1]
  OBVIOUS
<1>7. CASE n = 1
  BY <1>1, <1>6, <1>7, <1>4
<1>8. CASE n # 1
  <2>1. n - 1 \in 1..(n - 1) /\ (n - 1) + 1 = n
    BY <1>1, <1>8
  <2>2. Tail(s)[n - 1] = s[n]
    BY <1>5, <2>1
  <2>3. Tail(s) # <<>>
    BY <1>8, <1>4
  <2>4. QED
    BY <1>1, <1>2, <2>2, <2>3
<1>9. QED
  BY <1>7, <1>8

LEMMA BackendSelect ==
  ASSUME TypeOK, Consistent, TimersInv, BackendInv, Select
  PROVE  BackendInv'
<1>1. pc = "Select" /\ queue = <<>> /\ AtRest
  BY DEF Select, ReceiveShutdown, ReceiveCommand, ChildExited, BackendDown,
         BackendUp, BackoffElapsed, HealthyElapsed, BackendGraceElapsed,
         GrantPollElapsed, Fires, ChildTurn, TimerTurn, Consistent, PlaceInv
<1>2. machine' = machine /\ backend' = backend
  BY DEF Select, ReceiveShutdown, ReceiveCommand, ChildExited, BackendDown,
         BackendUp, BackoffElapsed, HealthyElapsed, BackendGraceElapsed,
         GrantPollElapsed, Fires, kanata
<1>3. child # None =>
        /\ lines # <<>> => backend = lines[Len(lines)]
        /\ lines = <<>> => (backend = "Down" <=> BelievedDown)
  BY <1>1 DEF BackendInv, Judged
<1>4. ASSUME NEW e, queue' = <<e>>, pc' = "Handle", UNCHANGED <<child, lines>>,
             "backend" \in timers' <=> "backend" \in timers,
             e \notin {"OutputBackendLost", "OutputBackendRecovered"}
      PROVE  BackendInv'
  BY <1>2, <1>3, <1>4 DEF BackendInv, Judged, BelievedDown, BackendDegraded
<1>5. CASE ReceiveShutdown \/ ReceiveCommand
  <2>1. Head(inbox) \in Command
    BY <1>5 DEF ReceiveShutdown, ReceiveCommand, TypeOK
  <2>2. PICK e : /\ queue' = <<e>> /\ pc' = "Handle"
                 /\ e \notin {"OutputBackendLost", "OutputBackendRecovered"}
    BY <1>5, <2>1 DEF ReceiveShutdown, ReceiveCommand, Dispatch, Command, UserEvent
  <2>3. UNCHANGED <<child, lines, timers>>
    BY <1>5 DEF ReceiveShutdown, ReceiveCommand, kanata
  <2>4. QED
    BY <1>4, <2>2, <2>3
<1>6. CASE ChildExited
  BY <1>6 DEF ChildExited, BackendInv
<1>7. CASE BackoffElapsed
  BY <1>4, <1>7 DEF BackoffElapsed, Fires, Dispatch, kanata
<1>8. CASE HealthyElapsed
  BY <1>4, <1>8 DEF HealthyElapsed, Fires, Dispatch, kanata
<1>9. CASE BackendGraceElapsed
  <2>1. /\ "backend" \in timers /\ lines' = lines /\ child' = child
        /\ pc' = "Handle" /\ queue' = <<"OutputBackendLost">>
        /\ child # None => lines = <<>>
    BY <1>9 DEF BackendGraceElapsed, Fires, Dispatch, kanata, TimerTurn, ChildReady
  <2>2. child # None => backend = "Down"
    BY <1>3, <2>1 DEF BelievedDown
  <2>3. QED
    BY <1>2, <2>1, <2>2 DEF BackendInv, Judged
<1>10. CASE GrantPollElapsed
  BY <1>2, <1>3, <1>10
  DEF GrantPollElapsed, kanata, BackendInv, Judged, BelievedDown, BackendDegraded
<1>11. CASE BackendDown \/ BackendUp
  <2>1. /\ child # None /\ lines # <<>> /\ lines' = Tail(lines) /\ child' = child
    BY <1>11 DEF BackendDown, BackendUp
  <2>2. /\ lines' # <<>> => backend' = lines'[Len(lines')]
        /\ lines' = <<>> => backend' = Head(lines)
    BY <1>2, <1>3, <2>1, LastOfTail DEF TypeOK
  <2>3. CASE BackendDown
    <3>1. /\ Head(lines) = "Down"
          /\ pc' = "Select"
          /\ machine.state = "Running" => "backend" \in timers'
      BY <2>3 DEF BackendDown, BackToSelect, SyncGrantWatch
    <3>2. BelievedDown'
      BY <1>1, <1>2, <2>1, <3>1 DEF AtRest, BelievedDown, BackendDegraded
    <3>3. QED
      BY <2>2, <3>1, <3>2 DEF BackendInv
  <2>4. CASE BackendUp /\ BackendDegraded(machine)
    <3>1. /\ Head(lines) = "Up" /\ "backend" \notin timers'
          /\ pc' = "Handle" /\ queue' = <<"OutputBackendRecovered">>
      BY <2>4 DEF BackendUp, Dispatch
    <3>2. QED
      BY <2>2, <3>1 DEF BackendInv, Judged
  <2>5. CASE BackendUp /\ ~BackendDegraded(machine)
    <3>1. /\ Head(lines) = "Up" /\ "backend" \notin timers' /\ pc' = "Select"
      BY <2>5 DEF BackendUp, BackToSelect, SyncGrantWatch
    <3>2. ~BelievedDown'
      BY <1>2, <2>5, <3>1 DEF BelievedDown, BackendDegraded
    <3>3. QED
      BY <2>2, <3>1, <3>2 DEF BackendInv
  <2>6. QED
    BY <1>11, <2>3, <2>4, <2>5
<1>12. QED
  BY <1>5, <1>6, <1>7, <1>8, <1>9, <1>10, <1>11 DEF Select

LEMMA BackendHandle ==
  ASSUME TypeOK, Consistent, TimersInv, BackendInv, HandleEvent
  PROVE  BackendInv'
<1>1. PICK e \in MachineEvent : queue = <<e>> /\ (SpawnReported(e) \/ WakeReported(e))
  BY DEF Consistent, PlaceInv, HandleEvent
<1> DEFINE out == Handle(machine, e)
<1>2. /\ pc = "Handle" /\ pc' = "Execute"
      /\ machine' = out.machine
      /\ todo' = out.actions
      /\ timers' = KeepTimers(machine', timers)
      /\ UNCHANGED <<child, lines, backend>>
  BY <1>1 DEF HandleEvent, kanata
<1> HIDE DEF out
<1>3. "backend" \in timers' <=> "backend" \in timers /\ machine'.state = "Running"
  BY <1>2 DEF KeepTimers
<1>4. SUFFICES ASSUME child # None, lines = <<>>, todo' = <<>> \/ Head(todo') # "StopChild"
               PROVE  (backend = "Down" <=> BelievedDown')
  BY <1>2 DEF BackendInv, Judged
<1>5. \/ queue \in {<<"OutputBackendLost">>, <<"OutputBackendRecovered">>}
      \/ backend = "Down" <=> BelievedDown
  BY <1>2, <1>4 DEF BackendInv, Judged
<1>6. CASE SpawnReported(e)
  <2>1. e = "SpawnSucceeded" /\ machine.state = "Starting"
    BY <1>4, <1>6 DEF SpawnReported
  <2>2. machine'.state = "Running"
    BY <1>2, <2>1, HandleSpawnReport DEF out, TypeOK
  <2>3. backend = "Down" <=> BelievedDown
    BY <1>1, <1>5, <2>1
  <2>4. QED
    BY <1>3, <2>1, <2>2, <2>3 DEF BelievedDown, BackendDegraded
<1>7. CASE WakeReported(e)
  <2>1. /\ machine.state = "Running" \/ BackendDegraded(machine)
        /\ e \notin ObservedExit
    BY <1>4, <1>7 DEF WakeReported
  <2>2. /\ todo' # <<"StopChild">> /\ todo' # <<"StopChild", "SpawnChild">>
    BY <1>4
  <2>3. \/ /\ e = "OutputBackendLost"
           /\ BackendDegraded(machine')
        \/ /\ e = "OutputBackendRecovered"
           /\ machine'.state = "Running"
        \/ /\ e \notin {"OutputBackendLost", "OutputBackendRecovered"}
           /\ machine'.state = machine.state
           /\ machine'.reason = machine.reason
    <3>1. machine \in MachineType /\ e \in MachineEvent \ ObservedExit
      BY <2>1 DEF TypeOK
    <3>2. QED
      BY <1>2, <2>1, <2>2, <3>1, HandleOwned DEF out
  <2>4. CASE e = "OutputBackendLost"
    BY <1>1, <1>2, <1>4, <2>3, <2>4 DEF BackendInv, BelievedDown
  <2>5. CASE e = "OutputBackendRecovered"
    BY <1>1, <1>2, <1>3, <1>4, <2>3, <2>5 DEF BackendInv, BelievedDown, BackendDegraded
  <2>6. CASE e \notin {"OutputBackendLost", "OutputBackendRecovered"}
    <3>1. backend = "Down" <=> BelievedDown
      BY <1>1, <1>5, <2>6
    <3>2. BackendDegraded(machine) <=> BackendDegraded(machine')
      BY <2>3, <2>6 DEF BackendDegraded
    <3>3. "backend" \in timers => machine.state = "Running"
      BY DEF TimersInv
    <3>4. QED
      BY <1>3, <2>3, <2>6, <3>1, <3>2, <3>3 DEF BelievedDown
  <2>7. QED
    BY <2>4, <2>5, <2>6
<1>8. QED
  BY <1>1, <1>6, <1>7

(* The rest of dispatch() neither reads a line nor changes the state.      *)
LEMMA BackendBusy ==
  ASSUME TypeOK, Consistent, TimersInv, BackendInv, Busy, ~HandleEvent
  PROVE  BackendInv'
<1>1. machine' = machine
  BY DEF Busy, GrantsReady, GrantsMissing, StopNothing, StopBegins, StopEnds,
     ArmBackoff, ArmHealthyTimer, ArmTimer, SpawnBegins, Spawned, SpawnRefused,
     Settle, SettleIgnored, Notify, HandleNext, ReturnToLoop, ReturnAndPublish,
     ReturnAndExit
<1>2. ASSUME UNCHANGED <<child, lines, backend>>, Judged' => Judged,
             "backend" \in timers' <=> "backend" \in timers,
             pc' = "Handle" => Judged'
      PROVE  BackendInv'
  BY <1>1, <1>2 DEF BackendInv, BelievedDown, BackendDegraded, Judged
<1>3. CASE StopBegins \/ StopEnds
  <2>1. child' = None
    BY <1>3 DEF StopBegins, StopEnds, Consistent, PlaceInv
  <2>2. QED
    BY <2>1 DEF BackendInv
<1>4. CASE StopNothing
  BY <1>4 DEF StopNothing, BackendInv
<1>5. CASE Spawned
  <2>1. lines' = <<>> /\ backend' = "Up" /\ pc' = "Execute" /\ timers' = timers
    BY <1>5 DEF Spawned
  <2>2. machine.state = "Starting"
    BY <1>5 DEF Spawned, Consistent, PlaceInv, Executing
  <2>3. ~BelievedDown'
    BY <1>1, <2>1, <2>2 DEF BelievedDown, BackendDegraded, TimersInv
  <2>4. QED
    BY <2>1, <2>3 DEF BackendInv
<1>6. CASE SpawnBegins \/ SpawnRefused
  <2>1. child' = None
    BY <1>6 DEF SpawnBegins, SpawnRefused, Executes, Consistent, PlaceInv, Executing, Executed
  <2>2. QED
    BY <2>1 DEF BackendInv
<1>7. CASE ArmBackoff \/ ArmHealthyTimer
  <2>1. /\ pc = "Execute" /\ pc' = "Execute" /\ todo # <<>> /\ Head(todo) # "StopChild"
        /\ UNCHANGED <<child, lines, backend>>
        /\ "backend" \in timers' <=> "backend" \in timers
    BY <1>7 DEF ArmBackoff, ArmHealthyTimer, ArmTimer, Executes, kanata
  <2>2. QED
    BY <1>2, <2>1 DEF Judged
<1>8. CASE GrantsMissing \/ ReturnToLoop \/ ReturnAndPublish
  <2>1. /\ pc \in {"Probing", "Next"} /\ pc' = "Select"
        /\ UNCHANGED <<child, lines, backend>>
        /\ "backend" \in timers' <=> "backend" \in timers
    BY <1>8
    DEF GrantsMissing, ReturnToLoop, ReturnAndPublish, BackToSelect, SyncGrantWatch, kanata
  <2>2. QED
    BY <1>2, <2>1 DEF Judged
<1>9. CASE GrantsReady
  <2>1. /\ pc = "Probing" /\ pc' = "Handle" /\ queue' = <<"Restart">>
        /\ UNCHANGED <<child, lines, backend, timers>>
    BY <1>9 DEF GrantsReady, Dispatch, kanata
  <2>2. QED
    BY <1>2, <2>1 DEF Judged
<1>10. CASE Settle \/ SettleIgnored \/ Notify \/ ReturnAndExit
  <2>1. /\ pc \in {"Execute", "Notify", "Next"} /\ pc' # "Handle" /\ pc' # "Execute"
        /\ pc = "Execute" => todo = <<>>
        /\ UNCHANGED <<child, lines, backend, timers>>
    BY <1>10 DEF Settle, SettleIgnored, Notify, ReturnAndExit, kanata
  <2>2. QED
    BY <1>2, <2>1 DEF Judged
<1>11. CASE HandleNext
  <2>1. /\ pc = "Next" /\ pc' = "Handle" /\ queue' = queue /\ queue # <<>>
        /\ UNCHANGED <<child, lines, backend, timers>>
    BY <1>11 DEF HandleNext, kanata
  <2>2. PICK e \in MachineEvent : queue = <<e>> /\ SpawnReported(e)
    BY <2>1 DEF Consistent, PlaceInv, Executed
  <2>3. queue' \notin {<<"OutputBackendLost">>, <<"OutputBackendRecovered">>}
    BY <2>1, <2>2 DEF SpawnReported, SpawnRefusal
  <2>4. QED
    BY <1>2, <2>1, <2>3 DEF Judged
<1>12. QED
  BY <1>3, <1>4, <1>5, <1>6, <1>7, <1>8, <1>9, <1>10, <1>11 DEF Busy

LEMMA BackendOutside ==
  ASSUME TypeOK, BackendInv, Environment \/ Finished \/ UNCHANGED vars
  PROVE  BackendInv'
<1>1. ASSUME UNCHANGED <<task, lines, backend>> PROVE BackendInv'
  BY <1>1 DEF BackendInv, Judged, BelievedDown, BackendDegraded, task
<1>2. ASSUME NEW b \in BackendLine, PrintBackend(b) PROVE BackendInv'
  <2>1. lines' = Append(lines, b) /\ backend' = b /\ lines \in Seq(BackendLine)
    BY <1>2 DEF PrintBackend, TypeOK
  <2>2. lines' # <<>> /\ lines'[Len(lines')] = b
    BY <2>1
  <2>3. QED
    BY <2>1, <2>2 DEF BackendInv
<1>3. QED
  BY <1>1, <1>2
  DEF Environment, Send, ProcessExits, SignalKills, Finished, vars, kanata

(* What a kanata says about its output backend reaches the user, and       *)
(* nothing of it outlives that kanata (supervisor.rs:356-395).             *)
THEOREM BackendReportedHolds == Spec => []BackendReported
<1>1. Init => BackendInv
  BY DEF Init, BackendInv
<1>2. TypeOK /\ Consistent /\ TimersInv /\ BackendInv /\ [Next]_vars => BackendInv'
  BY BackendSelect, BackendHandle, BackendBusy, BackendOutside DEF Next
<1>3. BackendInv => BackendReported
  BY DEF BackendInv, Judged, BelievedDown, BackendReported
<1>4. QED
  BY <1>1, <1>2, <1>3, TypeCorrect, ConsistencyCorrect, TimersCorrect, PTL DEF Spec
-----------------------------------------------------------------------------
(* Every dispatch ends, as far as safety goes: its steps count down.       *)
LEMMA PlanCosts ==
  /\ <<>> \notin {<<"StopChild", "SpawnChild">>, <<"SpawnChild">>, <<"StopChild">>,
                  <<"ArmBackoff">>, <<"ArmHealthyTimer">>}
  /\ todo = <<>> => PlanCost = 0
  /\ todo \in {<<"ArmBackoff">>, <<"ArmHealthyTimer">>} => PlanCost = 1
  /\ todo = <<"StopChild">> => PlanCost = 2
  /\ todo = <<"SpawnChild">> => PlanCost = 7
  /\ todo = <<"StopChild", "SpawnChild">> => PlanCost = 9
BY DEF PlanCost

(* What is left at each place.                                             *)
Costs ==
  /\ ReportCost \in {0, 5} /\ PlanCost \in {0, 1, 2, 7, 9}
  /\ queue = <<>> => ReportCost = 0
  /\ queue # <<>> => ReportCost = 5
  /\ pc \in {"Select", "Exited"} => StepsLeft = 0
  /\ pc = "Next" => StepsLeft = ReportCost + 1
  /\ pc = "Notify" => StepsLeft = ReportCost + 2
  /\ pc = "Execute" => /\ StepsLeft = ReportCost + PlanCost + 3
                       /\ ReportCost = 0 \/ PlanCost = 0
  /\ pc \in {"Terminating", "Spawning"} => StepsLeft = PlanCost + 2
  /\ pc = "Handle" => StepsLeft = IF machine.state = "Starting" THEN 5 ELSE 13
  /\ pc = "Probing" => StepsLeft = 14

LEMMA CostsCorrect == Spec => []Costs
<1>1. TypeOK /\ Consistent => Costs
  <2> SUFFICES ASSUME TypeOK, Consistent PROVE Costs
    OBVIOUS
  <2>1. PlanCost \in {0, 1, 2, 7, 9}
    BY PlanCosts DEF TypeOK, Plan
  <2>2. pc = "Execute" => ReportCost = 0 \/ PlanCost = 0
    BY PlanCosts DEF Consistent, PlaceInv, Executed, Executing, ReportCost
  <2>3. QED
    BY <2>1, <2>2 DEF Costs, StepsLeft, ReportCost
<1>2. QED
  BY <1>1, TypeCorrect, ConsistencyCorrect, PTL

LEMMA ShrinksHandle ==
  ASSUME TypeOK, Consistent, Costs, Costs', HandleEvent
  PROVE  StepsLeft' < StepsLeft
<1>1. PICK e \in MachineEvent : queue = <<e>> /\ (SpawnReported(e) \/ WakeReported(e))
  BY DEF Consistent, PlaceInv, HandleEvent
<1>2. /\ pc = "Handle" /\ pc' = "Execute"
      /\ todo' = Handle(machine, e).actions
      /\ queue' = <<>>
  BY <1>1 DEF HandleEvent
<1>3. /\ StepsLeft = IF machine.state = "Starting" THEN 5 ELSE 13
      /\ StepsLeft' = PlanCost' + 3
      /\ PlanCost' \in {0, 1, 2, 7, 9}
  <2>1. /\ ReportCost' = 0 /\ PlanCost' \in {0, 1, 2, 7, 9}
        /\ StepsLeft' = ReportCost' + PlanCost' + 3
    BY <1>2 DEF Costs
  <2>2. QED
    BY <1>2, <2>1 DEF Costs
<1>4. CASE SpawnReported(e)
  <2>1. todo' \in {<<>>, <<"ArmBackoff">>, <<"ArmHealthyTimer">>} /\ machine.state = "Starting"
    BY <1>2, <1>4, HandleSpawnReport DEF SpawnReported, TypeOK
  <2>2. PlanCost' \in {0, 1}
    BY <2>1 DEF PlanCost
  <2>3. StepsLeft = 5
    BY <1>3, <2>1
  <2>4. PICK k \in 0..1 : k = PlanCost'
    BY <2>2
  <2>5. k + 3 < 5
    OBVIOUS
  <2>6. StepsLeft' = k + 3
    BY <1>3, <2>4
  <2>7. QED
    BY <2>3, <2>5, <2>6
<1>5. CASE WakeReported(e)
  <2>1. machine.state # "Starting"
    BY <1>5 DEF WakeReported
  <2>2. StepsLeft = 13
    BY <1>3, <2>1
  <2>3. PICK k \in 0..9 : k = PlanCost'
    BY <1>3
  <2>4. k + 3 < 13
    OBVIOUS
  <2>5. StepsLeft' = k + 3
    BY <1>3, <2>3
  <2>6. QED
    BY <2>2, <2>4, <2>5
<1>6. QED
  BY <1>1, <1>4, <1>5

LEMMA ShrinksExecute ==
  ASSUME TypeOK, Consistent, Costs, Costs',
         StopNothing \/ StopBegins \/ StopEnds \/ ArmBackoff \/ ArmHealthyTimer
           \/ SpawnBegins \/ Spawned \/ SpawnRefused
  PROVE  StepsLeft' < StepsLeft
<1> DEFINE c == PlanCost
           d == PlanCost'
<1>1. /\ todo # <<>> /\ queue = <<>>
      /\ pc \in {"Execute", "Terminating", "Spawning"}
  BY PlanCosts
  DEF StopNothing, StopBegins, StopEnds, ArmBackoff, ArmHealthyTimer, ArmTimer,
      SpawnBegins, Spawned, SpawnRefused, Executes, Consistent, PlaceInv,
      Executing, Executed
<1>2. /\ pc = "Execute" => StepsLeft = c + 3
      /\ pc # "Execute" => StepsLeft = c + 2
      /\ c \in {1, 2, 7, 9}
  <2>1. c \in {1, 2, 7, 9}
    BY <1>1, PlanCosts DEF TypeOK, Plan
  <2>2. ReportCost = 0
    BY <1>1 DEF Costs
  <2>3. QED
    BY <1>1, <2>1, <2>2 DEF Costs
<1>3. d \in {0, 1, 2, 7, 9}
  BY DEF Costs
<1>4. CASE StopBegins \/ SpawnBegins
  <2>1. pc = "Execute" /\ pc' \in {"Terminating", "Spawning"} /\ todo' = todo
    BY <1>4 DEF StopBegins, SpawnBegins, Executes
  <2>2. d = c
    BY <2>1 DEF PlanCost
  <2>3. StepsLeft' = d + 2
    BY <2>1 DEF Costs
  <2>4. QED
    BY <1>2, <2>1, <2>2, <2>3
<1>5. CASE StopNothing \/ StopEnds \/ ArmBackoff \/ ArmHealthyTimer
  <2>1. /\ pc' = "Execute" /\ todo' = Tail(todo) /\ queue' = <<>>
    BY <1>1, <1>5
    DEF StopNothing, StopEnds, ArmBackoff, ArmHealthyTimer, ArmTimer, Executes
  <2>2. StepsLeft' = d + 3
    <3>1. ReportCost' = 0 /\ StepsLeft' = ReportCost' + d + 3
      BY <2>1 DEF Costs
    <3>2. QED
      BY <1>3, <3>1
  <2>3. /\ Head(todo) = "StopChild" \/ todo \in {<<"ArmBackoff">>, <<"ArmHealthyTimer">>}
    BY <1>1, <1>5
    DEF StopNothing, StopEnds, ArmBackoff, ArmHealthyTimer, ArmTimer, Executes,
        Consistent, PlaceInv, Executing, Executed
  <2>4. CASE todo = <<"StopChild", "SpawnChild">>
    <3>1. c = 9 /\ d = 7
      BY <2>1, <2>4, PlanCosts, PlanTails DEF PlanCost
    <3>2. QED
      BY <1>1, <1>2, <2>2, <3>1
  <2>5. CASE todo = <<"StopChild">>
    <3>1. c = 2 /\ d = 0
      BY <2>1, <2>5, PlanCosts, PlanTails DEF PlanCost
    <3>2. QED
      BY <1>1, <1>2, <2>2, <3>1
  <2>6. CASE todo \in {<<"ArmBackoff">>, <<"ArmHealthyTimer">>}
    <3>1. c = 1 /\ d = 0
      BY <2>1, <2>6, PlanCosts, PlanTails DEF PlanCost
    <3>2. pc = "Execute"
      BY <2>6 DEF Consistent, PlaceInv, Executing, Executed,
         StopNothing, StopBegins, StopEnds, ArmBackoff, ArmHealthyTimer, ArmTimer,
         SpawnBegins, Spawned, SpawnRefused, Executes
    <3>3. QED
      BY <1>2, <2>2, <3>1, <3>2
  <2>7. QED
    BY <1>1, <2>3, <2>4, <2>5, <2>6 DEF TypeOK, Plan
<1>6. CASE Spawned \/ SpawnRefused
  <2>1. /\ pc = "Spawning" /\ pc' = "Execute" /\ todo = <<"SpawnChild">>
        /\ todo' = Tail(todo)
    BY <1>6 DEF Spawned, SpawnRefused, Consistent, PlaceInv
  <2>2. c = 7 /\ d = 0
    BY <2>1, PlanCosts, PlanTails DEF PlanCost
  <2>3. ReportCost' \in {0, 5} /\ StepsLeft' = ReportCost' + d + 3
    BY <2>1 DEF Costs
  <2>4. StepsLeft = 7 + 2
    BY <1>2, <2>1, <2>2
  <2>5. PICK k \in 0..5 : k = ReportCost'
    BY <2>3
  <2>6. k + 3 < 7 + 2
    OBVIOUS
  <2>7. StepsLeft' = k + 3
    <3>1. StepsLeft' = k + 0 + 3
      BY <2>2, <2>3, <2>5
    <3>2. k + 0 + 3 = k + 3
      OBVIOUS
    <3>3. QED
      BY <3>1, <3>2
  <2>8. QED
    BY <2>4, <2>6, <2>7
<1>7. QED
  BY <1>4, <1>5, <1>6

LEMMA ShrinksReturn ==
  ASSUME TypeOK, Consistent, Costs, Costs',
         GrantsReady \/ GrantsMissing \/ Settle \/ SettleIgnored \/ Notify
           \/ HandleNext \/ ReturnToLoop \/ ReturnAndPublish \/ ReturnAndExit
  PROVE  StepsLeft' < StepsLeft
<1>1. CASE GrantsReady \/ GrantsMissing
  <2>1. pc = "Probing" /\ pc' \in {"Handle", "Select"}
    BY <1>1 DEF GrantsReady, GrantsMissing, Dispatch, BackToSelect
  <2>2. QED
    BY <2>1 DEF Costs
<1>2. CASE Settle \/ SettleIgnored
  <2>1. /\ pc = "Execute" /\ pc' \in {"Notify", "Next"} /\ todo = <<>> /\ queue' = queue
    BY <1>2 DEF Settle, SettleIgnored
  <2>2. ReportCost' = ReportCost /\ PlanCost = 0
    BY <2>1, PlanCosts DEF ReportCost
  <2>3. StepsLeft = ReportCost + 3 /\ StepsLeft' \in {ReportCost + 2, ReportCost + 1}
    <3>1. StepsLeft = ReportCost + PlanCost + 3 /\ ReportCost \in {0, 5}
      BY <2>1 DEF Costs
    <3>2. StepsLeft' \in {ReportCost' + 2, ReportCost' + 1}
      BY <2>1 DEF Costs
    <3>3. QED
      BY <2>2, <3>1, <3>2
  <2>4. QED
    BY <2>3 DEF Costs
<1>3. CASE Notify
  <2>1. /\ pc = "Notify" /\ pc' = "Next" /\ queue' = queue
    BY <1>3 DEF Notify
  <2>2. ReportCost' = ReportCost
    BY <2>1 DEF ReportCost
  <2>3. StepsLeft = ReportCost + 2 /\ StepsLeft' = ReportCost' + 1 /\ ReportCost \in {0, 5}
    BY <2>1 DEF Costs
  <2>4. QED
    BY <2>2, <2>3
<1>4. CASE HandleNext
  <2>1. /\ pc = "Next" /\ pc' = "Handle" /\ queue # <<>> /\ machine' = machine
    BY <1>4 DEF HandleNext
  <2>2. machine.state = "Starting"
    BY <2>1 DEF Consistent, PlaceInv, Executed, SpawnReported
  <2>3. StepsLeft = ReportCost + 1 /\ ReportCost = 5 /\ StepsLeft' = 5
    BY <2>1, <2>2 DEF Costs
  <2>4. QED
    BY <2>3
<1>5. CASE ReturnToLoop \/ ReturnAndPublish \/ ReturnAndExit
  <2>1. /\ pc = "Next" /\ pc' \in {"Select", "Exited"}
    BY <1>5 DEF ReturnToLoop, ReturnAndPublish, ReturnAndExit, BackToSelect
  <2>2. StepsLeft' = 0 /\ StepsLeft = ReportCost + 1 /\ ReportCost \in {0, 5}
    BY <2>1 DEF Costs
  <2>3. QED
    BY <2>2
<1>6. QED
  BY <1>1, <1>2, <1>3, <1>4, <1>5

(* Each step of the task outside its select brings the dispatch nearer its *)
(* end, and nothing else touches it.                                       *)
THEOREM DispatchShrinksHolds == Spec => DispatchShrinks
<1>1. ASSUME TypeOK, Consistent, Costs, Costs', [Next]_vars, pc # "Select"
      PROVE  UNCHANGED task \/ StepsLeft' < StepsLeft
  <2>1. CASE Select
    BY <1>1, <2>1
    DEF Select, ReceiveShutdown, ReceiveCommand, ChildExited, BackendDown,
        BackendUp, BackoffElapsed, HealthyElapsed, BackendGraceElapsed,
        GrantPollElapsed, Fires, ChildTurn, TimerTurn
  <2>2. CASE Busy
    BY <1>1, <2>2, ShrinksHandle, ShrinksExecute, ShrinksReturn DEF Busy
  <2>3. CASE Environment \/ Finished \/ UNCHANGED vars
    BY <2>3 DEF Environment, Send, ProcessExits, SignalKills, PrintBackend,
       Finished, vars
  <2>4. QED
    BY <1>1, <2>1, <2>2, <2>3 DEF Next
<1>2. TypeOK /\ Consistent /\ Costs /\ Costs' /\ [Next]_vars
        => [pc # "Select" => UNCHANGED task \/ StepsLeft' < StepsLeft]_vars
  BY <1>1
<1>3. QED
  BY <1>2, TypeCorrect, ConsistencyCorrect, CostsCorrect, PTL DEF Spec, DispatchShrinks

(* And there is always something to do until then.                         *)
THEOREM NeverStuckHolds == Spec => []NeverStuck
<1>1. TypeOK /\ Consistent /\ Costs => NeverStuck
  <2> SUFFICES ASSUME TypeOK, Consistent, Costs PROVE NeverStuck
    OBVIOUS
  <2>1. StepsLeft \in 0..14 /\ (StepsLeft = 0 <=> pc \in {"Select", "Exited"})
    BY DEF Costs, TypeOK, PC
  <2>2. pc = "Handle" => queue # <<>>
    BY DEF Consistent, PlaceInv
  <2>3. pc = "Terminating" => victim # None
    BY DEF Consistent, ProcessInv
  <2>4. QED
    BY <2>1, <2>2, <2>3 DEF NeverStuck, Consistent, TypeOK
<1>2. QED
  BY <1>1, TypeCorrect, ConsistencyCorrect, CostsCorrect, PTL
=============================================================================
