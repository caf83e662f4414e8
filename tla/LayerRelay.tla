------------------------------ MODULE LayerRelay ------------------------------
(***************************************************************************)
(* The layer relay of kanatad (health/tcp.rs, health/mod.rs): while the    *)
(* supervisor says Running it keeps a connection to kanata's TCP port and  *)
(* copies the layers kanata names into the health facts of Status.  The    *)
(* supervisor, the kanata behind the port and the relay run in parallel:   *)
(* kanata dies before the supervisor knows, the port may be taken by       *)
(* another process, and the snapshot moves before its event is sent.       *)
(***************************************************************************)
EXTENDS Integers, Sequences

CONSTANTS
  None,         \* no layer
  Layer,        \* the layers kanata can be in
  UnreadCap,    \* bound on unread transitions (256 in the code)
  WireCap       \* bound on unread lines of the TCP connection

ASSUME RelayAssumption ==
  /\ None \notin Layer
  /\ "EOF" \notin Layer
  /\ UnreadCap \in Nat \ {0}
  /\ WireCap \in Nat

(* The states that the relay tells apart are Running and the others.       *)
DaemonState == {"Running", "Degraded", "Stopped"}

VARIABLES
  state,      \* the supervisor's snapshot
  announced,  \* the StateChanged event of that snapshot has been sent
  unread,     \* transitions waiting in the relay's receiver
  port,       \* someone accepts connections on kanata's port
  wire,       \* lines sent on the relay's connection and not read yet
  relay,      \* where the relay task is
  layer       \* HealthInner.active_layer

supervisor == <<state, announced>>
relayVars == <<supervisor, unread, port, wire, relay, layer>>

RelayTypeOK ==
  /\ state \in DaemonState
  /\ announced \in BOOLEAN
  /\ unread \in 0..UnreadCap
  /\ port \in BOOLEAN
  /\ wire \in Seq(Layer \cup {"EOF"})
  /\ relay \in {"Top", "Connecting", "Reading", "Dropped", "Pausing", "Waiting"}
  /\ layer \in Layer \cup {None}

RelayInit ==
  /\ state = "Stopped"
  /\ announced = TRUE
  /\ unread = 0
  /\ port = FALSE
  /\ wire = <<>>
  /\ relay = "Top"
  /\ layer = None

-----------------------------------------------------------------------------
(* The supervisor publishes its snapshot, then sends the event.            *)

Publish(s) ==
  /\ announced
  /\ s # state
  /\ state' = s
  /\ announced' = FALSE
  /\ UNCHANGED <<unread, port, wire, relay, layer>>

Send ==
  /\ ~announced
  /\ announced' = TRUE
  /\ unread' = IF unread < UnreadCap THEN unread + 1 ELSE unread
  /\ UNCHANGED <<state, port, wire, relay, layer>>

(* kanata, or whoever owns the port.  The connection the relay reads is    *)
(* alive until its other end dies.                                         *)
Listen ==
  /\ ~port
  /\ port' = TRUE
  /\ UNCHANGED <<supervisor, unread, wire, relay, layer>>

Alive == relay = "Reading" /\ \A i \in DOMAIN wire : wire[i] # "EOF"

NameLayer(l) ==
  /\ port
  /\ Alive
  /\ Len(wire) < WireCap
  /\ wire' = Append(wire, l)
  /\ UNCHANGED <<supervisor, unread, port, relay, layer>>

Die ==
  /\ port
  /\ port' = FALSE
  /\ wire' = IF Alive THEN Append(wire, "EOF") ELSE wire
  /\ UNCHANGED <<supervisor, unread, relay, layer>>

-----------------------------------------------------------------------------
(* The relay task.  A wait on the transitions takes one of them; at the    *)
(* capacity of the channel the oldest are lost, and the wait still ends.   *)

Running == state = "Running"

TakeTransition == unread > 0 /\ unread' = unread - 1

TopRunning ==
  /\ relay = "Top" /\ Running
  /\ relay' = "Connecting"
  /\ UNCHANGED <<supervisor, unread, port, wire, layer>>

TopIdle ==
  /\ relay = "Top" /\ ~Running
  /\ layer' = None
  /\ relay' = "Waiting"
  /\ UNCHANGED <<supervisor, unread, port, wire>>

Connect ==
  /\ relay = "Connecting"
  /\ port
  /\ relay' = "Reading"
  /\ wire' = <<>>
  /\ UNCHANGED <<supervisor, unread, port, layer>>

(* The select! of the Running branch is over: the connection and the layer *)
(* it gave are dropped (the variant keeps the layer shown).                *)
DropKeepsLayer ==
  /\ relay' = "Dropped"
  /\ wire' = <<>>
  /\ UNCHANGED layer

Drop ==
  /\ relay' = "Dropped"
  /\ wire' = <<>>
  /\ layer' = None

ConnectFails ==
  /\ relay = "Connecting"
  /\ ~port
  /\ Drop
  /\ UNCHANGED <<supervisor, unread, port>>

SetLayer ==
  /\ relay = "Reading"
  /\ wire # <<>> /\ Head(wire) # "EOF"
  /\ layer' = Head(wire)
  /\ wire' = Tail(wire)
  /\ UNCHANGED <<supervisor, unread, port, relay>>

Disconnected ==
  /\ relay = "Reading"
  /\ wire # <<>> /\ Head(wire) = "EOF"
  /\ Drop
  /\ UNCHANGED <<supervisor, unread, port>>

(* wait_not_running: a transition ends it only if the snapshot has left    *)
(* Running (in the variant it never does).                                 *)
StaysConnected ==
  /\ relay \in {"Connecting", "Reading"}
  /\ TakeTransition
  /\ UNCHANGED <<supervisor, port, wire, relay, layer>>

LeaveRunning ==
  /\ relay \in {"Connecting", "Reading"}
  /\ TakeTransition
  /\ IF Running THEN UNCHANGED <<wire, relay, layer>> ELSE Drop
  /\ UNCHANGED <<supervisor, port>>

AfterDrop ==
  /\ relay = "Dropped"
  /\ relay' = IF Running THEN "Pausing" ELSE "Top"
  /\ UNCHANGED <<supervisor, unread, port, wire, layer>>

PauseEnds ==
  /\ relay = "Pausing"
  /\ relay' = "Top"
  /\ TakeTransition \/ UNCHANGED unread
  /\ UNCHANGED <<supervisor, port, wire, layer>>

WaitEnds ==
  /\ relay = "Waiting"
  /\ TakeTransition
  /\ relay' = "Top"
  /\ UNCHANGED <<supervisor, port, wire, layer>>

RelaySteps ==
  \/ TopRunning
  \/ TopIdle
  \/ Connect
  \/ ConnectFails
  \/ SetLayer
  \/ Disconnected
  \/ LeaveRunning
  \/ AfterDrop
  \/ PauseEnds
  \/ WaitEnds

RelayEnvironment ==
  \/ \E s \in DaemonState : Publish(s)
  \/ Send
  \/ Listen
  \/ \E l \in Layer : NameLayer(l)
  \/ Die

RelayNext == RelaySteps \/ RelayEnvironment

RelaySpec == RelayInit /\ [][RelayNext]_relayVars

(* The tasks of the runtime are scheduled: the relay takes the steps it    *)
(* can, the connection attempt and the pause end, and the supervisor sends *)
(* the event it has published.  A state watch that stays ready inside the  *)
(* select! is taken in the end, even while lines keep arriving.            *)
RelayFairSpec ==
  /\ RelaySpec
  /\ WF_relayVars(RelaySteps)
  /\ WF_relayVars(Send)
  /\ SF_relayVars(LeaveRunning)

-----------------------------------------------------------------------------
(* A layer is shown only while the connection that named it is open in the *)
(* relay (tcp.rs:50): every way out of the Running branch clears it, be it *)
(* an end of the stream, a failed connect or a transition.                 *)
LayerIsConnected == layer # None => relay = "Reading"

(* A supervisor that is not Running clears the layer in the end, however   *)
(* the transitions interleave with the relay and whoever sits on the port  *)
(* (tcp.rs:35-38).                                                         *)
LayerClears == (~Running /\ layer # None) ~> (layer = None \/ Running)

(* No transition is missed: a kanata that runs and listens for good is     *)
(* relayed for good.                                                       *)
RelayArrives == <>[](Running /\ port) => <>[](relay = "Reading")

(* The relay follows the supervisor, both ways.                            *)
RelayFollows == LayerClears /\ RelayArrives
=============================================================================
