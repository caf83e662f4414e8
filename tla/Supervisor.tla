----------------------------- MODULE Supervisor -----------------------------
(***************************************************************************)
(* The supervisor task of kanatad (supervisor.rs, child.rs): one loop that *)
(* owns the kanata child and the one-shot timers, feeds commands, child    *)
(* exits, backend lines and timers through the state machine, carries out  *)
(* the side effects, and publishes the result three ways: the watch        *)
(* snapshot, state.json, and the StateChanged events.                      *)
(*                                                                         *)
(* The task is sequential, but it awaits: while it terminates a child, runs*)
(* the preflight of a spawn or probes the grants, clients queue commands   *)
(* and read the snapshot, and kanata processes print and die.  One action  *)
(* below is the code between two awaits (or between two of the places      *)
(* where another thread can see a difference).                             *)
(***************************************************************************)
EXTENDS Machine

CONSTANTS
  Pid,              \* process ids the kernel hands to kanata children
  QueueCap,         \* capacity of the command channel (64 in the code)
  LineCap,          \* bound on unread backend lines of the child
  PersistOutcomes   \* what writing state.json may do: "written", "failed"

ASSUME SupervisorAssumption ==
  /\ None \notin Pid
  /\ QueueCap \in Nat
  /\ LineCap \in Nat
  /\ PersistOutcomes \in (SUBSET {"written", "failed"}) \ {{}}

Command == UserEvent \cup {"Shutdown"}
BackendLine == {"Down", "Up"}
Timer == {"backoff", "healthy", "backend", "grant"}

VARIABLES
  pc,         \* where the task is
  machine,    \* Task.machine
  child,      \* Task.child: the pid of the owned child, or None
  victim,     \* the child moved into terminate(), or None
  timers,     \* the armed timers among Task.*_timer
  queue,      \* dispatch: events still to be handled
  todo,       \* dispatch: actions of the current outcome still to execute
  change,     \* dispatch: transition still to be announced, or None
  cont,       \* what the wake handler does once dispatch returns
  inbox,      \* the mpsc channel of commands
  snapshot,   \* the watch channel
  disk,       \* state.json, or None before the first write
  heard,      \* state and reason carried by the last StateChanged event
  live,       \* kanata processes alive in the operating system
  lines,      \* backend lines printed by the child and not yet read
  backend     \* what the child last printed about its output backend

task == <<pc, machine, child, victim, timers, queue, todo, change, cont>>
published == <<snapshot, disk, heard>>
kanata == <<live, lines, backend>>
vars == <<task, inbox, published, kanata>>

PC == {"Select", "Handle", "Execute", "Terminating", "Spawning", "Notify",
       "Next", "Probing", "Exited"}

View == [state : SupervisorState, reason : DegradedReason \cup {None}]
Snapshot == [state : SupervisorState, reason : DegradedReason \cup {None},
             pid : Pid \cup {None}]
StateChanged == [from : SupervisorState, to : SupervisorState,
                 reason : DegradedReason \cup {None}]
ASSUME ChangeAssumption == None \notin StateChanged

Plan == {<<>>, <<"StopChild">>, <<"SpawnChild">>, <<"ArmBackoff">>,
         <<"ArmHealthyTimer">>, <<"StopChild", "SpawnChild">>}

TypeOK ==
  /\ pc \in PC
  /\ machine \in MachineType
  /\ child \in Pid \cup {None}
  /\ victim \in Pid \cup {None}
  /\ timers \in SUBSET Timer
  /\ queue \in Seq(MachineEvent)
  /\ todo \in Plan
  /\ change \in StateChanged \cup {None}
  /\ cont \in {"Loop", "Publish", "Exit"}
  /\ inbox \in Seq(Command)
  /\ snapshot \in Snapshot
  /\ disk \in Snapshot \cup {None}
  /\ heard \in View
  /\ live \in SUBSET Pid
  /\ lines \in Seq(BackendLine)
  /\ backend \in BackendLine

-----------------------------------------------------------------------------
SnapshotOf(m, c) == [state |-> m.state, reason |-> m.reason, pid |-> c]

Init ==
  /\ pc = "Select"
  /\ machine = NewMachine
  /\ child = None
  /\ victim = None
  /\ timers = {}
  /\ queue = <<>>
  /\ todo = <<>>
  /\ change = None
  /\ cont = "Loop"
  /\ inbox = <<>>
  /\ snapshot = SnapshotOf(NewMachine, None)
  /\ disk = None
  /\ heard = [state |-> "Stopped", reason |-> None]
  /\ live = {}
  /\ lines = <<>>
  /\ backend = "Up"

-----------------------------------------------------------------------------
(* Helpers of the task.                                                    *)

Persist(m, c) ==
  \E outcome \in PersistOutcomes :
    disk' = IF outcome = "written" THEN SnapshotOf(m, c) ELSE disk

Publish(m, c) ==
  /\ snapshot' = SnapshotOf(m, c)
  /\ Persist(m, c)

(* The grant watch: armed exactly while a TCC denial is the reason (the    *)
(* variant never disarms it).                                              *)
WatchesGrant(m) == m.state = "Degraded" /\ m.reason = "InputMonitoringDenied"

SyncGrantWatchArms(m, armed) ==
  IF WatchesGrant(m) THEN armed \cup {"grant"} ELSE armed

SyncGrantWatch(m, armed) ==
  IF WatchesGrant(m) THEN armed \cup {"grant"} ELSE armed \ {"grant"}

(* dispatch() drops the timers that do not belong to the state reached.    *)
(* The variant drops all of them.                                          *)
KeepTimersOfPlan(m, armed) == armed \ {"backoff", "healthy", "backend"}

KeepTimers(m, armed) ==
  (armed \ (IF m.state = "Backoff" THEN {} ELSE {"backoff"}))
         \ (IF m.state = "Running" THEN {} ELSE {"healthy", "backend"})

(* Back to the top of the loop: the grant watch is synchronised, then the  *)
(* task waits in select!.                                                  *)
BackToSelect(m, armed) ==
  /\ pc' = "Select"
  /\ timers' = SyncGrantWatch(m, armed)

(* A wake handler calls dispatch(e).                                       *)
Dispatch(e, after) ==
  /\ pc' = "Handle"
  /\ queue' = <<e>>
  /\ cont' = after

(* The select! is biased: commands, then the child, then the timers.       *)
ChildReady == child # None /\ (child \notin live \/ lines # <<>>)
ChildTurn == pc = "Select" /\ inbox = <<>>
TimerTurn == pc = "Select" /\ inbox = <<>> /\ ~ChildReady

-----------------------------------------------------------------------------
(* The arms of the select! and their handlers.                             *)

ReceiveShutdownAsStop ==
  /\ pc = "Select"
  /\ inbox # <<>> /\ Head(inbox) = "Shutdown"
  /\ inbox' = Tail(inbox)
  /\ Dispatch("Stop", "Loop")
  /\ UNCHANGED <<machine, child, victim, timers, todo, change, published, kanata>>

(* Shutdown stops kanata and leaves the loop (the variant forgets the      *)
(* return).                                                                *)
ReceiveShutdown ==
  /\ pc = "Select"
  /\ inbox # <<>> /\ Head(inbox) = "Shutdown"
  /\ inbox' = Tail(inbox)
  /\ Dispatch("Stop", "Exit")
  /\ UNCHANGED <<machine, child, victim, timers, todo, change, published, kanata>>

ReceiveCommand ==
  /\ pc = "Select"
  /\ inbox # <<>> /\ Head(inbox) # "Shutdown"
  /\ inbox' = Tail(inbox)
  /\ Dispatch(Head(inbox), "Loop")
  /\ UNCHANGED <<machine, child, victim, timers, todo, change, published, kanata>>

(* The child is gone.  Its exit is a panic escape (exit code 0), a plain   *)
(* crash, or a crash whose output named a fault a respawn cannot fix.      *)
ObservedExit ==
  {"PanicEscape", "Crash", "InputMonitoringDenied", "DeviceGrabConflict",
   "TcpPortConflict"}

ChildExited ==
  /\ ChildTurn
  /\ child # None /\ child \notin live
  /\ child' = None
  /\ lines' = <<>>
  /\ timers' = timers \ {"backend"}
  /\ \E e \in ObservedExit : Dispatch(e, "Publish")
  /\ UNCHANGED <<machine, victim, todo, change, inbox, published, live, backend>>

(* A "backend gone" line starts the grace window of a Running child.       *)
BackendDown ==
  /\ ChildTurn
  /\ child # None /\ lines # <<>> /\ Head(lines) = "Down"
  /\ lines' = Tail(lines)
  /\ BackToSelect(machine,
       IF machine.state = "Running" THEN timers \cup {"backend"} ELSE timers)
  /\ UNCHANGED <<machine, child, victim, queue, todo, change, cont, inbox,
                 published, live, backend>>

(* A recovery line ends the grace window, or the Degraded state it led to. *)
(* (The variant lets the window run on.)                                   *)
BackendUpKeepsGrace ==
  /\ ChildTurn
  /\ child # None /\ lines # <<>> /\ Head(lines) = "Up"
  /\ lines' = Tail(lines)
  /\ \/ /\ BackendDegraded(machine)
        /\ Dispatch("OutputBackendRecovered", "Loop")
        /\ UNCHANGED timers
     \/ /\ ~BackendDegraded(machine)
        /\ BackToSelect(machine, timers)
        /\ UNCHANGED <<queue, cont>>
  /\ UNCHANGED <<machine, child, victim, todo, change, inbox, published, live,
                 backend>>

BackendUp ==
  /\ ChildTurn
  /\ child # None /\ lines # <<>> /\ Head(lines) = "Up"
  /\ lines' = Tail(lines)
  /\ \/ /\ BackendDegraded(machine)
        /\ timers' = timers \ {"backend"}
        /\ Dispatch("OutputBackendRecovered", "Loop")
     \/ /\ ~BackendDegraded(machine)
        /\ BackToSelect(machine, timers \ {"backend"})
        /\ UNCHANGED <<queue, cont>>
  /\ UNCHANGED <<machine, child, victim, todo, change, inbox, published, live,
                 backend>>

(* A timer fires: it is dropped and its event is dispatched.               *)
Fires(timer, e) ==
  /\ TimerTurn
  /\ timer \in timers
  /\ timers' = timers \ {timer}
  /\ Dispatch(e, "Loop")
  /\ UNCHANGED <<machine, child, victim, todo, change, inbox, published, kanata>>

BackoffElapsed == Fires("backoff", "BackoffElapsed")
HealthyElapsed == Fires("healthy", "HealthyElapsed")
BackendGraceLapses ==
  /\ TimerTurn
  /\ "backend" \in timers
  /\ BackToSelect(machine, timers \ {"backend"})
  /\ UNCHANGED <<machine, child, victim, queue, todo, change, cont, inbox,
                 published, kanata>>

(* (The variant only logs the outage.) *)
BackendGraceElapsed == Fires("backend", "OutputBackendLost")

(* The grant poll awaits a probe in a fresh process; both grants present   *)
(* restart kanata, anything else leaves it to the next poll.               *)
GrantPollElapsed ==
  /\ TimerTurn
  /\ "grant" \in timers
  /\ timers' = timers \ {"grant"}
  /\ pc' = "Probing"
  /\ UNCHANGED <<machine, child, victim, queue, todo, change, cont, inbox,
                 published, kanata>>

GrantsReady ==
  /\ pc = "Probing"
  /\ Dispatch("Restart", "Loop")
  /\ UNCHANGED <<machine, child, victim, timers, todo, change, inbox, published,
                 kanata>>

GrantsMissing ==
  /\ pc = "Probing"
  /\ BackToSelect(machine, timers)
  /\ UNCHANGED <<machine, child, victim, queue, todo, change, cont, inbox,
                 published, kanata>>

-----------------------------------------------------------------------------
(* dispatch(): handle an event, execute its actions, announce it.          *)

HandleEvent ==
  /\ pc = "Handle"
  /\ LET out == Handle(machine, Head(queue))
     IN  /\ machine' = out.machine
         /\ todo' = out.actions
         /\ timers' = KeepTimers(out.machine, timers)
         /\ change' = IF out.moved
                      THEN [from |-> machine.state, to |-> out.machine.state,
                            reason |-> out.machine.reason]
                      ELSE None
  /\ queue' = Tail(queue)
  /\ pc' = "Execute"
  /\ UNCHANGED <<child, victim, cont, inbox, published, kanata>>

Executes(action) == pc = "Execute" /\ todo # <<>> /\ Head(todo) = action

(* StopChild without a child does nothing; with one, the handle moves into *)
(* terminate(), which awaits the death of the process.                     *)
StopNothing ==
  /\ Executes("StopChild")
  /\ child = None
  /\ todo' = Tail(todo)
  /\ UNCHANGED <<pc, machine, child, victim, timers, queue, change, cont, inbox,
                 published, kanata>>

StopBegins ==
  /\ Executes("StopChild")
  /\ child # None
  /\ victim' = child
  /\ child' = None
  /\ lines' = <<>>
  /\ pc' = "Terminating"
  /\ UNCHANGED <<machine, timers, queue, todo, change, cont, inbox, published,
                 live, backend>>

StopEndsAtSignal ==
  /\ pc = "Terminating"
  /\ victim' = None
  /\ todo' = Tail(todo)
  /\ pc' = "Execute"
  /\ Publish(machine, child)
  /\ UNCHANGED <<machine, child, timers, queue, change, cont, inbox, heard,
                 kanata>>

(* terminate() returns once the process is reaped (the variant returns as  *)
(* soon as the signal is sent).                                            *)
StopEnds ==
  /\ pc = "Terminating"
  /\ victim \notin live
  /\ victim' = None
  /\ todo' = Tail(todo)
  /\ pc' = "Execute"
  /\ Publish(machine, child)
  /\ UNCHANGED <<machine, child, timers, queue, change, cont, inbox, heard,
                 kanata>>

ArmTimer(action, timer) ==
  /\ Executes(action)
  /\ timers' = timers \cup {timer}
  /\ todo' = Tail(todo)
  /\ UNCHANGED <<pc, machine, child, victim, queue, change, cont, inbox,
                 published, kanata>>

ArmBackoff == ArmTimer("ArmBackoff", "backoff")
ArmHealthyTimer == ArmTimer("ArmHealthyTimer", "healthy")

(* SpawnChild awaits the driver probe, the version query and the config    *)
(* check, each of which may refuse the spawn, and then forks.              *)
SpawnRefusal ==
  {"DriverNotActivated", "VhidDaemonDown", "ConfigBroken", "KanataBinMissing",
   "SpawnFailed"}

SpawnBegins ==
  /\ Executes("SpawnChild")
  /\ pc' = "Spawning"
  /\ UNCHANGED <<machine, child, victim, timers, queue, todo, change, cont, inbox,
                 published, kanata>>

Spawned ==
  /\ pc = "Spawning"
  /\ \E p \in Pid \ (live \cup {child}) :
       /\ child' = p
       /\ live' = live \cup {p}
  /\ lines' = <<>>
  /\ backend' = "Up"
  /\ queue' = Append(queue, "SpawnSucceeded")
  /\ todo' = Tail(todo)
  /\ pc' = "Execute"
  /\ UNCHANGED <<machine, victim, timers, change, cont, inbox, published>>

SpawnRefused ==
  /\ pc = "Spawning"
  /\ \E e \in SpawnRefusal : queue' = Append(queue, e)
  /\ todo' = Tail(todo)
  /\ pc' = "Execute"
  /\ UNCHANGED <<machine, child, victim, timers, change, cont, inbox, published,
                 kanata>>

(* Once the actions are done the snapshot and state.json are written, and  *)
(* only then is the event sent (the variant sends the event first).        *)
SettleUnpublished ==
  /\ pc = "Execute" /\ todo = <<>>
  /\ change # None
  /\ pc' = "Notify"
  /\ UNCHANGED <<machine, child, victim, timers, queue, todo, change, cont, inbox,
                 published, kanata>>

Settle ==
  /\ pc = "Execute" /\ todo = <<>>
  /\ change # None
  /\ Publish(machine, child)
  /\ pc' = "Notify"
  /\ UNCHANGED <<machine, child, victim, timers, queue, todo, change, cont, inbox,
                 heard, kanata>>

(* An ignored event announces nothing.                                     *)
SettleIgnored ==
  /\ pc = "Execute" /\ todo = <<>>
  /\ change = None
  /\ pc' = "Next"
  /\ UNCHANGED <<machine, child, victim, timers, queue, todo, change, cont, inbox,
                 published, kanata>>

Notify ==
  /\ pc = "Notify"
  /\ heard' = [state |-> change.to, reason |-> change.reason]
  /\ change' = None
  /\ pc' = "Next"
  /\ UNCHANGED <<machine, child, victim, timers, queue, todo, cont, inbox,
                 snapshot, disk, kanata>>

(* The while loop of dispatch takes the next event, if any.                *)
HandleNext ==
  /\ pc = "Next"
  /\ queue # <<>>
  /\ pc' = "Handle"
  /\ UNCHANGED <<machine, child, victim, timers, queue, todo, change, cont, inbox,
                 published, kanata>>

(* dispatch returned: each handler finishes in its own way.                *)
ReturnToLoop ==
  /\ pc = "Next" /\ queue = <<>>
  /\ cont = "Loop"
  /\ BackToSelect(machine, timers)
  /\ UNCHANGED <<machine, child, victim, queue, todo, change, cont, inbox,
                 published, kanata>>

ReturnUnpublished ==
  /\ pc = "Next" /\ queue = <<>>
  /\ cont = "Publish"
  /\ BackToSelect(machine, timers)
  /\ UNCHANGED <<machine, child, victim, queue, todo, change, cont, inbox,
                 published, kanata>>

(* After an exit the snapshot is published even if the machine ignored it  *)
(* (the variant trusts dispatch to have done so).                          *)
ReturnAndPublish ==
  /\ pc = "Next" /\ queue = <<>>
  /\ cont = "Publish"
  /\ Publish(machine, child)
  /\ BackToSelect(machine, timers)
  /\ UNCHANGED <<machine, child, victim, queue, todo, change, cont, inbox, heard,
                 kanata>>

ReturnAndExit ==
  /\ pc = "Next" /\ queue = <<>>
  /\ cont = "Exit"
  /\ Persist(machine, child)
  /\ pc' = "Exited"
  /\ UNCHANGED <<machine, child, victim, timers, queue, todo, change, cont, inbox,
                 snapshot, heard, kanata>>

-----------------------------------------------------------------------------
(* What the task does not control.                                         *)

(* A client of the supervisor queues a command; a full channel blocks it,  *)
(* and a send fails once the loop has exited.                              *)
Send(c) ==
  /\ pc # "Exited"
  /\ Len(inbox) < QueueCap
  /\ inbox' = Append(inbox, c)
  /\ UNCHANGED <<task, published, kanata>>

(* A kanata process exits by itself: crash, panic escape, kill by hand.    *)
ProcessExits ==
  /\ \E p \in live : live' = live \ {p}
  /\ UNCHANGED <<task, inbox, published, lines, backend>>

(* SIGTERM, or SIGKILL after the grace, ends the terminated child.         *)
SignalKills ==
  /\ pc = "Terminating"
  /\ victim \in live
  /\ live' = live \ {victim}
  /\ UNCHANGED <<task, inbox, published, lines, backend>>

(* The live child prints a line about its output backend.                  *)
PrintBackend(b) ==
  /\ child \in live
  /\ Len(lines) < LineCap
  /\ backend' = b
  /\ lines' = Append(lines, b)
  /\ UNCHANGED <<task, inbox, published, live>>

(* A daemon whose loop has returned stays that way.                        *)
Finished == pc = "Exited" /\ UNCHANGED vars
-----------------------------------------------------------------------------
Select ==
  \/ ReceiveShutdown \/ ReceiveCommand
  \/ ChildExited \/ BackendDown \/ BackendUp
  \/ BackoffElapsed \/ HealthyElapsed \/ BackendGraceElapsed \/ GrantPollElapsed

Busy ==
  \/ GrantsReady \/ GrantsMissing
  \/ HandleEvent \/ StopNothing \/ StopBegins \/ StopEnds
  \/ ArmBackoff \/ ArmHealthyTimer \/ SpawnBegins \/ Spawned \/ SpawnRefused
  \/ Settle \/ SettleIgnored \/ Notify \/ HandleNext
  \/ ReturnToLoop \/ ReturnAndPublish \/ ReturnAndExit

Environment ==
  \/ \E c \in Command : Send(c)
  \/ ProcessExits
  \/ SignalKills
  \/ \E b \in BackendLine : PrintBackend(b)

Next == Select \/ Busy \/ Environment \/ Finished

(* tokio polls the task whenever something it waits for is ready: the      *)
(* channel, the child, a timer, an await inside a handler.  A signalled    *)
(* process dies (SIGKILL), and the helper commands of the preflight return.*)
(* Users, kanata's own exits and its log are not fair.                     *)
Fairness ==
  /\ WF_vars(Busy)
  /\ WF_vars(SignalKills)
  /\ WF_vars(ReceiveShutdown \/ ReceiveCommand)
  /\ WF_vars(ChildExited \/ BackendDown \/ BackendUp)
  /\ WF_vars(BackoffElapsed)
  /\ WF_vars(HealthyElapsed)
  /\ WF_vars(BackendGraceElapsed)
  /\ WF_vars(GrantPollElapsed)

Spec == Init /\ [][Next]_vars

FairSpec == Spec /\ Fairness
-----------------------------------------------------------------------------
(* The supervisor implements the keeper of Keeper.tla.  Kanata is wanted   *)
(* in the states that retry or run it, and while it is kept alive without  *)
(* its output backend; in all others a process still alive is on its way   *)
(* out.                                                                    *)
Wanted ==
  machine.state \in {"Starting", "Running", "Backoff"} \/ BackendDegraded(machine)

Kept == INSTANCE Keeper WITH wanted <- Wanted, procs <- live

(* One process at a time, launched only when wanted: every step of the     *)
(* supervisor is a step of the keeper or changes nothing it shows.         *)
KeepsOneKanata == Kept!KeeperSpec

(* And, under Fairness, what is no longer wanted is ended.                 *)
ReapsUnwanted == Kept!KeeperFairSpec

-----------------------------------------------------------------------------
(* Safety.                                                                 *)

(* At no moment, not even inside a restart, are two kanata processes of    *)
(* this daemon alive: a second one fails with "device already open".       *)
(* Every path that spawns must have waited for the previous child, the one *)
(* kept alive in Degraded{OutputBackendUnavailable} included.              *)
SingleInstance == \A p, q \in live : p = q

(* When the loop has returned, no kanata is left for launchd's next daemon *)
(* to trip over, whatever the state was when Shutdown was received.        *)
NothingLeftBehind == pc = "Exited" => live = {}

(* Between two dispatches the machine and the owned child agree: Running   *)
(* owns a child, only Running and Degraded{OutputBackendUnavailable} own   *)
(* one, and Starting, in which commands are ignored, is never seen.        *)
ChildMatchesState ==
  pc \in {"Select", "Probing"} =>
    /\ machine.state # "Starting"
    /\ machine.state = "Running" => child # None
    /\ child # None => machine.state = "Running" \/ BackendDegraded(machine)

(* The daemon's kanata is accounted for: never two, none after the end,    *)
(* and owned exactly in the states that have one.                          *)
OwnsItsKanata == SingleInstance /\ NothingLeftBehind /\ ChildMatchesState

(* A state whose only way out without the user is a timer has that timer   *)
(* armed, and no timer outlives the state that armed it: a stale one would *)
(* restart a kanata the user stopped, or degrade a healthy new child.      *)
TimersMatchState ==
  /\ pc = "Select" =>
       /\ "backoff" \in timers <=> machine.state = "Backoff"
       /\ "grant" \in timers <=> WatchesGrant(machine)
       /\ timers \cap {"healthy", "backend"} # {} => machine.state = "Running"
  /\ pc = "Probing" => WatchesGrant(machine)

(* Once its log has been read, what the child last printed about its       *)
(* output backend is what the user is told: a lost backend is inside its   *)
(* grace window or Degraded, a working one is neither, and nothing of this *)
(* is inherited from an earlier child.                                     *)
BackendReported ==
  (pc = "Select" /\ child # None /\ lines = <<>>) =>
    (backend = "Down" <=> "backend" \in timers \/ BackendDegraded(machine))

(* Between two dispatches the three publications agree with the task: the  *)
(* snapshot with its pid, the last event, and state.json unless writing it *)
(* failed.                                                                 *)
PublishedAgree ==
  pc = "Select" =>
    /\ snapshot = SnapshotOf(machine, child)
    /\ heard = [state |-> machine.state, reason |-> machine.reason]
    /\ PersistOutcomes = {"written"} /\ disk # None => disk = snapshot

(* Backoff is only entered while budget remains, a spent budget is the     *)
(* only thing reported as one, and Degraded always has its reason.         *)
WithinBudget(m) ==
  /\ m.state = "Backoff" => m.failures \in 1..(Budget - 1)
  /\ m.reason = "RetryBudgetExhausted" => m.failures >= Budget
  /\ m.reason = None <=> m.state # "Degraded"

BudgetRespected == WithinBudget(machine)

(* Subscribers see an unbroken chain: each event starts in the state the   *)
(* previous one ended in, so none is lost, doubled or sent out of order,   *)
(* and a client that reads the snapshot on receipt of an event never reads *)
(* a state older than the event.                                           *)
EventsChain ==
  [][Notify =>
       /\ change.from = heard.state /\ change.to # heard.state
       /\ snapshot.state = heard'.state /\ snapshot.reason = heard'.reason]_vars

(* What the comment in the ChildExited arm says of a plain crash: "this    *)
(* path settles in Backoff/Running, never Degraded", so that only Crash    *)
(* events need a notification of their own.  (Refuted, see README.)        *)
PlainCrashNeverDegraded ==
  [][HandleEvent /\ Head(queue) = "Crash" => machine'.state # "Degraded"]_vars

-----------------------------------------------------------------------------
(* The inductive invariant behind SingleInstance, NothingLeftBehind and    *)
(* ChildMatchesState: what holds of the machine, the owned child and the   *)
(* local state of dispatch() at each place of the task.                    *)

(* What ChildMatchesState says, wherever the task is.                      *)
AtRest ==
  /\ machine.state # "Starting"
  /\ machine.state = "Running" => child # None
  /\ child # None => machine.state = "Running" \/ BackendDegraded(machine)

(* The event of a spawn attempt waits in the queue.                        *)
SpawnReported(e) ==
  /\ e \in SpawnRefusal \cup {"SpawnSucceeded"}
  /\ machine.state = "Starting"
  /\ child # None <=> e = "SpawnSucceeded"

(* The event of a wake waits in the queue.                                 *)
WakeReported(e) ==
  /\ machine.state # "Starting"
  /\ e # "RetryBudgetExhausted"
  /\ child # None => machine.state = "Running" \/ BackendDegraded(machine)
  /\ machine.state = "Running" /\ child = None => e \in ObservedExit
  /\ e \in ObservedExit => child = None
  /\ e = "OutputBackendRecovered" => child # None

(* No action is left to execute.                                           *)
Executed ==
  /\ todo = <<>>
  /\ \/ queue = <<>> /\ AtRest
     \/ \E e \in MachineEvent : queue = <<e>> /\ SpawnReported(e)

(* Which actions can be left, and in which state.                          *)
Executing ==
  /\ queue = <<>>
  /\ \/ todo = <<"StopChild">> /\ machine.state \in {"Stopped", "Paused", "Degraded"}
     \/ todo = <<"StopChild", "SpawnChild">> /\ machine.state = "Starting"
     \/ todo = <<"SpawnChild">> /\ machine.state = "Starting" /\ child = None
     \/ todo = <<"ArmHealthyTimer">> /\ machine.state = "Running" /\ child # None
     \/ todo = <<"ArmBackoff">> /\ machine.state = "Backoff" /\ child = None

PlaceInv ==
  CASE pc \in {"Select", "Probing"} -> queue = <<>> /\ todo = <<>> /\ AtRest
    [] pc = "Handle" -> /\ todo = <<>>
                        /\ \E e \in MachineEvent :
                             queue = <<e>> /\ (SpawnReported(e) \/ WakeReported(e))
    [] pc = "Execute" -> Executed \/ Executing
    [] pc = "Terminating" -> Executing /\ child = None /\ Head(todo) = "StopChild"
    [] pc = "Spawning" -> Executing /\ todo = <<"SpawnChild">>
    [] pc \in {"Notify", "Next"} -> Executed
    [] OTHER -> machine.state = "Stopped" /\ child = None

(* Once Shutdown has been received, the state is Stopped as soon as its    *)
(* Stop has been handled, and the loop is never entered again.             *)
ExitInv ==
  cont = "Exit" =>
    /\ pc \notin {"Select", "Probing", "Spawning"}
    /\ IF pc = "Handle" THEN queue = <<"Stop">> ELSE machine.state = "Stopped"

ProcessInv ==
  /\ live \subseteq {child, victim}
  /\ victim # None <=> pc = "Terminating"

Consistent ==
  /\ PlaceInv
  /\ ExitInv
  /\ ProcessInv
  /\ pc = "Notify" => change # None

-----------------------------------------------------------------------------
(* How far a dispatch is from its end.  A plan that stops and spawns takes *)
(* four steps, each followed by its announcement; the report of the spawn  *)
(* attempt takes five more.                                                *)
PlanCost ==
  CASE todo = <<"StopChild", "SpawnChild">> -> 9
    [] todo = <<"SpawnChild">> -> 7
    [] todo = <<"StopChild">> -> 2
    [] todo \in {<<"ArmBackoff">>, <<"ArmHealthyTimer">>} -> 1
    [] OTHER -> 0

ReportCost == IF queue = <<>> THEN 0 ELSE 5

StepsLeft ==
  CASE pc = "Next" -> ReportCost + 1
    [] pc = "Notify" -> ReportCost + 2
    [] pc = "Execute" -> ReportCost + PlanCost + 3
    [] pc \in {"Terminating", "Spawning"} -> PlanCost + 2
    [] pc = "Handle" -> IF machine.state = "Starting" THEN 5 ELSE 13
    [] pc = "Probing" -> 14
    [] OTHER -> 0

(* A wake of the task is handled in at most fourteen steps: a refused      *)
(* spawn never leads to another inside the same dispatch, and nothing that *)
(* happens meanwhile (commands, lines, exits) makes it longer.  What is    *)
(* left of it can always be done: there is an event to handle, a child to  *)
(* await, a transition to announce (supervisor.rs:455-548).                *)
DispatchShrinks ==
  [][pc # "Select" => UNCHANGED task \/ StepsLeft' < StepsLeft]_vars

NeverStuck ==
  /\ StepsLeft \in 0..14
  /\ StepsLeft = 0 <=> pc \in {"Select", "Exited"}
  /\ pc = "Handle" => queue # <<>>
  /\ pc = "Terminating" => victim # None
  /\ pc = "Notify" => change # None

-----------------------------------------------------------------------------
(* Liveness, under Fairness.                                               *)

(* Every dispatch ends: the loop gets back to its select, or has exited.   *)
(* (Fairness of Busy and SignalKills; see DispatchShrinks.)                *)
DispatchEnds == (pc # "Select") ~> (pc \in {"Select", "Exited"})

(* A queued Shutdown ends the loop, whatever is queued before and after it *)
(* and whatever kanata does meanwhile.                                     *)
ShutdownCompletes ==
  (\E i \in DOMAIN inbox : inbox[i] = "Shutdown") ~> (pc = "Exited")

(* Left alone, Backoff is always left: an ignored command cannot take the  *)
(* retry timer with it.                                                    *)
BackoffRetries ==
  <>[](inbox = <<>>) => []<>(machine.state # "Backoff")

(* No endless crash loop: kanata is spawned again and again only if a      *)
(* command, a healthy run or a new grant comes again and again.            *)
CrashLoopEnds ==
  []<><<Spawned>>_vars =>
    []<><<ReceiveCommand \/ HealthyElapsed \/ GrantsReady>>_vars

(* Retries go on and do not go on for ever.                                *)
RetriesEnd == BackoffRetries /\ CrashLoopEnds

(* Left alone, a kanata that lives on without its output backend is        *)
(* reported as Degraded: the keyboard is not silently unmapped.            *)
OutageSurfaces ==
  <>[](inbox = <<>> /\ child \in live /\ backend = "Down" /\ Len(lines) = 0)
    => <>[](machine.state = "Degraded")
=============================================================================
