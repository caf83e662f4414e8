-------------------------------- MODULE Resync --------------------------------
(***************************************************************************)
(* Automatic re-sync: the supervisor of Supervisor.tla with the two tasks  *)
(* that restart kanata on their own, the device pipeline of                *)
(* DeviceMonitor.tla (device/mod.rs) and the wake task of main.rs.  Each   *)
(* looks at the snapshot and, if it says Running, sends a Restart down the *)
(* command channel that the users' commands take too.  Between the look    *)
(* and the moment the supervisor handles the Restart anything may happen.  *)
(*                                                                         *)
(* Here "unsettled" says that a keyboard came or went since kanata last    *)
(* enumerated the devices.                                                 *)
(***************************************************************************)
EXTENDS Supervisor, DeviceMonitor

CONSTANTS
  UserCommand    \* what the users of the control socket send

ASSUME ResyncAssumption == UserCommand \subseteq Command

VARIABLES
  deviceTask,   \* the device task: "Idle" in its select!, or "Sending"
  wakeTask      \* the wake task: "Idle" in its recv, or "Sending"

resync == <<deviceTask, wakeTask>>
system == <<vars, monitor, resync>>

ResyncTypeOK ==
  /\ TypeOK
  /\ MonitorTypeOK
  /\ deviceTask \in {"Idle", "Sending"}
  /\ wakeTask \in {"Idle", "Sending"}

ResyncInit ==
  /\ Init
  /\ MonitorInit
  /\ deviceTask = "Idle"
  /\ wakeTask = "Idle"

-----------------------------------------------------------------------------
(* The look: only a snapshot that says Running asks for a restart.         *)
RestartIfRunning ==
  IF snapshot.state = "Running" THEN "Sending" ELSE "Idle"

(* The send waits for room in the channel, and fails once the loop is gone.*)
SendRestart ==
  \/ Send("Restart")
  \/ pc = "Exited" /\ UNCHANGED vars

(* The debounce window is much longer than the code between two awaits of  *)
(* the supervisor, and than it takes to read a line: when the deadline     *)
(* passes, a spawn or a recovery older than the burst has been published.  *)
CaughtUp ==
  /\ pc \in {"Select", "Probing", "Terminating", "Spawning", "Exited"}
  /\ BackendDegraded(machine) => lines = <<>>

DebounceFires ==
  /\ deviceTask = "Idle"
  /\ CaughtUp
  /\ DeadlineFires
  /\ deviceTask' = RestartIfRunning
  /\ UNCHANGED <<vars, unsettled, wakeTask>>

DeviceTaskTriesToSend ==
  /\ deviceTask = "Sending"
  /\ SendRestart \/ (Len(inbox) = QueueCap /\ UNCHANGED vars)
  /\ deviceTask' = "Idle"
  /\ UNCHANGED <<monitor, wakeTask>>

(* (The variant is a try_send, which drops the Restart if the channel is   *)
(* full.)                                                                  *)
DeviceTaskSends ==
  /\ deviceTask = "Sending"
  /\ SendRestart
  /\ deviceTask' = "Idle"
  /\ UNCHANGED <<monitor, wakeTask>>

DeviceTaskReceives ==
  /\ deviceTask = "Idle"
  /\ ReceiveEvent
  /\ UNCHANGED <<vars, resync>>

(* The machine may wake from sleep at any time, and the callback nudges    *)
(* the task through a channel without a bound: whenever the task asks for  *)
(* one, a notification may be there, of now or of long ago.                *)
WakeTaskReceives ==
  /\ wakeTask = "Idle"
  /\ wakeTask' = RestartIfRunning
  /\ UNCHANGED <<vars, monitor, deviceTask>>

WakeTaskSends ==
  /\ wakeTask = "Sending"
  /\ SendRestart
  /\ wakeTask' = "Idle"
  /\ UNCHANGED <<monitor, deviceTask>>

-----------------------------------------------------------------------------
(* A step of the supervisor and its environment.  A kanata enumerates the  *)
(* devices when it starts, and when its output backend comes back.         *)
KanataEnumerates == Spawned \/ PrintBackend("Up")

SupervisorStep ==
  \/ Select \/ Busy
  \/ \E c \in UserCommand : Send(c)
  \/ ProcessExits \/ SignalKills
  \/ \E b \in BackendLine : PrintBackend(b)

SupervisorSteps ==
  /\ SupervisorStep
  /\ unsettled' = (unsettled /\ ~KanataEnumerates)
  /\ UNCHANGED <<plugged, arriving, events, registry, deadline, resync>>

DevicesChange ==
  /\ Deliver \/ \E d \in Device : Plug(d) \/ Unplug(d)
  /\ UNCHANGED <<vars, resync>>

ResyncNext ==
  \/ SupervisorSteps
  \/ DevicesChange
  \/ DeviceTaskReceives \/ DebounceFires \/ DeviceTaskSends
  \/ WakeTaskReceives \/ WakeTaskSends

(* The supervisor never stops while it has something to do (the parts of   *)
(* Moves exclude one another: the select! is biased), and neither do the   *)
(* two tasks.  Room in the channel and CaughtUp come and go: the channel   *)
(* queues its senders, and a timer fires on its own.                       *)
Moves ==
  \/ Busy \/ SignalKills
  \/ ReceiveShutdown \/ ReceiveCommand
  \/ ChildExited \/ BackendDown \/ BackendUp

ResyncFairness ==
  /\ WF_system(SupervisorSteps /\ Moves)
  /\ WF_system((DevicesChange /\ Deliver) \/ DeviceTaskReceives)
  /\ SF_system(DebounceFires)
  /\ SF_system(DeviceTaskSends)
  /\ SF_system(WakeTaskSends)

ResyncSpec == ResyncInit /\ [][ResyncNext]_system

ResyncFairSpec == ResyncSpec /\ ResyncFairness
-----------------------------------------------------------------------------
(* A paused kanata is started by a user only: whatever a re-sync saw when  *)
(* it looked, its Restart changes nothing once the pause is in force.      *)
PausedStaysPaused ==
  [][machine.state = "Paused" /\ machine'.state # "Paused" =>
       Head(queue) \in {"Start", "Resume", "Stop"}]_system

(* The documentation of the pipeline says the same of a stopped kanata: "a *)
(* hotplug should not start a stopped or paused kanata".  (Refuted by a    *)
(* run in which no user sends Restart.)                                    *)
StoppedStaysStopped ==
  [][machine.state = "Stopped" /\ machine'.state # "Stopped" =>
       Head(queue) # "Restart"]_system

(* The reason the pipeline exists: once hotplugs stop, a running kanata    *)
(* has enumerated the keyboards after the last of them.  No hotplug is     *)
(* missed because kanata was starting, backing off, stopping or without    *)
(* its output backend when the debounce settled.                           *)
ResyncReachesKanata ==
  <>[][\A d \in Device : ~Plug(d) /\ ~Unplug(d)]_system =>
    <>[](unsettled => machine.state # "Running")

(* The same as an invariant of every step on the way: a running kanata has *)
(* enumerated the keyboards since the last of them came or went, or a      *)
(* restart for it is on its way, however many starts, backoffs, pauses and *)
(* lost backends lie between the hotplug and now (device/mod.rs:151-190,   *)
(* supervisor.rs:276-330).                                                 *)
InPipeline ==
  \/ deadline
  \/ \E e \in arriving : Pending(e)
  \/ \E i \in DOMAIN events : Pending(events[i])

RestartQueued == \E i \in DOMAIN inbox : inbox[i] = "Restart"

RestartHandled == queue # <<>> /\ Head(queue) = "Restart"

NoKeyboardMissed ==
  machine.state = "Running" /\ unsettled =>
    InPipeline \/ deviceTask = "Sending" \/ RestartQueued \/ RestartHandled
=============================================================================
