------------------------------- MODULE Machine -------------------------------
(***************************************************************************)
(* The pure state machine of kanatabar-core (machine.rs, state.rs,         *)
(* backoff.rs): the transition table that decides, for a state and an      *)
(* event, the next state, the failure count, the reason for being Degraded *)
(* and the side effects the supervisor has to carry out, in order.  The    *)
(* module has no variables: Supervisor.tla drives the table.               *)
(*                                                                         *)
(* The delay of ArmBackoff is time, which the supervisor abstracts; its    *)
(* arithmetic is left to the pure module planned in the README.            *)
(***************************************************************************)
EXTENDS Naturals, Sequences

CONSTANTS
  None,         \* the absent value of an Option
  Budget,       \* consecutive failures that exhaust the retry budget
  MaxFailures   \* the largest value of the u32 failure counter

ASSUME BudgetAssumption ==
  /\ Budget \in Nat
  /\ MaxFailures \in Nat
  /\ Budget <= MaxFailures

SupervisorState ==
  {"Stopped", "Starting", "Running", "Backoff", "Degraded", "Paused"}

DegradedReason ==
  {"RetryBudgetExhausted", "DriverNotActivated", "VhidDaemonDown",
   "ConfigBroken", "KanataBinMissing", "InputMonitoringDenied",
   "DeviceGrabConflict", "TcpPortConflict", "OutputBackendUnavailable"}

ExitClass == {"Requested", "PanicEscape", "Crash"}

UserEvent == {"Start", "Stop", "Restart", "Pause", "Resume"}

(* An event of the machine.  Fault(r) is the reason r itself and           *)
(* ChildExited(c) is the exit class c itself: the sets are disjoint.       *)
MachineEvent ==
  UserEvent \cup ExitClass \cup DegradedReason \cup
  {"SpawnSucceeded", "SpawnFailed", "BackoffElapsed", "HealthyElapsed",
   "OutputBackendLost", "OutputBackendRecovered"}

Action == {"SpawnChild", "StopChild", "ArmBackoff", "ArmHealthyTimer"}

ASSUME NoneAssumption == None \notin DegradedReason

MachineType ==
  [state : SupervisorState, failures : 0..MaxFailures,
   reason : DegradedReason \cup {None}]

NewMachine == [state |-> "Stopped", failures |-> 0, reason |-> None]

-----------------------------------------------------------------------------
(* The outcome of one event: the machine after it, the side effects, and   *)
(* whether there was a transition to announce.                             *)
Outcome(m, actions, moved) ==
  [machine |-> m, actions |-> actions, moved |-> moved]

Ignore(m) == Outcome(m, <<>>, FALSE)

Enter(m, next, actions) ==
  Outcome([m EXCEPT !.state = next, !.reason = None], actions, TRUE)

EnterDegraded(m, why, actions) ==
  Outcome([m EXCEPT !.state = "Degraded", !.reason = why], actions, TRUE)

FreshBudget(m) == [m EXCEPT !.failures = 0]

BudgetSpentLate(failures) == failures > Budget

(* The budget is spent by the Budget-th failure in a row (the variant is   *)
(* one too late).                                                          *)
BudgetSpent(failures) == failures >= Budget

WrappingSucc(failures) == failures + 1

(* u32::saturating_add (the variant overflows).                            *)
SaturatingSucc(failures) ==
  IF failures < MaxFailures THEN failures + 1 ELSE failures

OnFailure(m) ==
  LET counted == [m EXCEPT !.failures = SaturatingSucc(m.failures)]
  IN  IF BudgetSpent(counted.failures)
      THEN EnterDegraded(counted, "RetryBudgetExhausted", <<>>)
      ELSE Enter(counted, "Backoff", <<"ArmBackoff">>)

BackendDegraded(m) ==
  m.state = "Degraded" /\ m.reason = "OutputBackendUnavailable"

(* States without a child in which a Restart still means "run it"; Paused  *)
(* is none of them (in the variant it is).                                 *)
RestartsFromAnyIdle == {"Stopped", "Backoff", "Paused"}

RestartsFromIdle == {"Stopped", "Backoff"}

(* The transition table: one arm per arm of the match, in its order.  The  *)
(* last arm ignores whatever has no row, stale timers and exits the        *)
(* machine asked for (Requested) included.                                 *)
Handle(m, e) ==
  CASE m.state = "Degraded" /\ e = "Start" ->
         Enter(FreshBudget(m), "Starting", <<"StopChild", "SpawnChild">>)
    [] \/ m.state \in {"Stopped", "Paused", "Backoff"} /\ e = "Start"
       \/ m.state = "Paused" /\ e = "Resume" ->
         Enter(FreshBudget(m), "Starting", <<"SpawnChild">>)
    [] m.state \in {"Running", "Degraded"} /\ e = "Restart" ->
         Enter(m, "Starting", <<"StopChild", "SpawnChild">>)
    [] m.state \in RestartsFromIdle /\ e = "Restart" ->
         Enter(m, "Starting", <<"SpawnChild">>)
    [] m.state \in {"Starting", "Running", "Degraded"} /\ e = "Stop" ->
         Enter(m, "Stopped", <<"StopChild">>)
    [] m.state \in {"Backoff", "Paused"} /\ e = "Stop" ->
         Enter(m, "Stopped", <<>>)
    [] m.state = "Running" /\ e = "Pause" ->
         Enter(m, "Paused", <<"StopChild">>)
    [] m.state = "Starting" /\ e = "SpawnSucceeded" ->
         Enter(m, "Running", <<"ArmHealthyTimer">>)
    [] m.state = "Starting" /\ e = "SpawnFailed" ->
         OnFailure(m)
    [] m.state \in {"Starting", "Running"} /\ e = "Crash" ->
         OnFailure(m)
    [] m.state \in {"Starting", "Running"} /\ e = "PanicEscape" ->
         Enter(m, "Stopped", <<>>)
    [] m.state = "Backoff" /\ e = "BackoffElapsed" ->
         Enter(m, "Starting", <<"SpawnChild">>)
    [] m.state = "Running" /\ e = "HealthyElapsed" ->
         Ignore(FreshBudget(m))
    [] m.state \in {"Starting", "Backoff"} /\ e \in DegradedReason ->
         EnterDegraded(m, e, <<>>)
    [] m.state = "Running" /\ e \in DegradedReason ->
         EnterDegraded(m, e, <<"StopChild">>)
    [] m.state = "Running" /\ e = "OutputBackendLost" ->
         EnterDegraded(m, "OutputBackendUnavailable", <<>>)
    [] BackendDegraded(m) /\ e = "OutputBackendRecovered" ->
         Enter(m, "Running", <<"ArmHealthyTimer">>)
    [] OTHER -> Ignore(m)
=============================================================================
