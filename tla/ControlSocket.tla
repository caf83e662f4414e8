---------------------------- MODULE ControlSocket ----------------------------
(***************************************************************************)
(* The daemon's end of an event-stream connection on the control socket    *)
(* (control/mod.rs, events.rs, the broadcasts of health/mod.rs and of the  *)
(* supervisor).  handle_conn greets, then serves requests and pushes       *)
(* events from three broadcasts that each keep their own order and lose    *)
(* their oldest entries when the connection is slow.  The frame being      *)
(* written blocks the task while the socket is full.                       *)
(***************************************************************************)
EXTENDS LayerRelay

CONSTANTS
  Preset,       \* preset names
  FeedCap,      \* capacity of a broadcast (256 in the code)
  SocketCap,    \* frames the socket buffers towards the client
  MoveCap       \* bound on what happens to the daemon in a behaviour

ASSUME ControlAssumption ==
  /\ None \notin Preset
  /\ FeedCap \in Nat \ {0}
  /\ SocketCap \in Nat \ {0}
  /\ MoveCap \in Nat

VARIABLES
  up,         \* the daemon runs, its socket accepts
  list,       \* version of the preset list in memory
  active,     \* the active preset
  moves,      \* what happened to the daemon so far
  unsaid,     \* bus events of changes made and not announced yet
  served,     \* the connection: "none", "greeting" or "serving"
  requests,   \* request lines in the socket
  outbox,     \* the frame handle_conn is writing, or None
  frames,     \* frames in the socket, towards the client
  feed        \* the receivers of the subscription, or None

daemon == <<up, list, active, moves, unsaid>>
connection == <<served, requests, outbox, frames, feed>>
controlVars == <<relayVars, daemon, connection>>

Feed == {"states", "layers", "bus"}
Request == {"Hello", "GetStatus", "ListPresets", "Subscribe"}
BusEvent ==
  [event : {"PresetsChanged"}]
    \cup [event : {"ConfigApplied"}, preset : Preset \cup {None}]
Event ==
  [event : {"StateChanged"}, to : DaemonState]
    \cup [event : {"LayerChanged"}, layer : Layer]
    \cup BusEvent
Frame ==
  [frame : {"Event"}, event : Event]
    \cup [frame : {"Status"}, state : DaemonState, layer : Layer \cup {None}]
    \cup [frame : {"Presets"}, list : 0..MoveCap, active : Preset \cup {None}]
    \cup [frame : {"HelloAck", "Ack", "Error"}]
Reply(kind) == [frame |-> kind]

ASSUME AbsenceAssumption ==
  None \notin Frame /\ None \notin [Feed -> Seq(Event)]

ControlTypeOK ==
  /\ RelayTypeOK
  /\ up \in BOOLEAN
  /\ list \in 0..MoveCap
  /\ active \in Preset \cup {None}
  /\ moves \in 0..MoveCap
  /\ unsaid \subseteq BusEvent
  /\ served \in {"none", "greeting", "serving"}
  /\ requests \in Seq(Request)
  /\ outbox \in Frame \cup {None}
  /\ frames \in Seq(Frame)
  /\ feed = None \/ feed \in [Feed -> Seq(Event)]

ControlInit ==
  /\ RelayInit
  /\ up = TRUE
  /\ list = 0
  /\ active = None
  /\ moves = 0
  /\ unsaid = {}
  /\ served = "none"
  /\ requests = <<>>
  /\ outbox = None
  /\ frames = <<>>
  /\ feed = None

-----------------------------------------------------------------------------
(* Broadcasts.  At capacity the oldest entry is overwritten.               *)

Push(queue, e) ==
  IF Len(queue) < FeedCap THEN Append(queue, e) ELSE Append(Tail(queue), e)

Broadcast(name, e) ==
  feed' = IF feed = None THEN None ELSE [feed EXCEPT ![name] = Push(@, e)]

Moves == up /\ moves < MoveCap /\ moves' = moves + 1

StateMoves ==
  /\ Moves
  /\ \E s \in DaemonState : Publish(s)
  /\ UNCHANGED <<up, list, active, unsaid, connection>>

StateSent ==
  /\ up
  /\ Send
  /\ Broadcast("states", [event |-> "StateChanged", to |-> state])
  /\ UNCHANGED <<daemon, served, requests, outbox, frames>>

(* set_active_layer broadcasts a named layer that differs; clearing the    *)
(* layer is not an event.                                                  *)
LayerNamed ==
  /\ up
  /\ SetLayer
  /\ IF layer' = layer
     THEN UNCHANGED feed
     ELSE Broadcast("layers", [event |-> "LayerChanged", layer |-> layer'])
  /\ UNCHANGED <<daemon, served, requests, outbox, frames>>

RelayElse ==
  /\ up
  /\ \/ TopRunning
     \/ TopIdle
     \/ Connect
     \/ ConnectFails
     \/ Disconnected
     \/ LeaveRunning
     \/ AfterDrop
     \/ PauseEnds
     \/ WaitEnds
  /\ UNCHANGED <<daemon, connection>>

KanataMoves ==
  /\ \/ Moves /\ Die
     \/ UNCHANGED moves /\ (Listen \/ \E l \in Layer : NameLayer(l))
  /\ UNCHANGED <<up, list, active, unsaid, connection>>

(* The config manager changes the list, or applies a config with or        *)
(* without a preset name, and says so afterwards: the mutex is free again  *)
(* and the Restart sent, and another request may come between.  A list     *)
(* that could not be written stays in memory and is announced to nobody.   *)
Listed == [event |-> "PresetsChanged"]
Applied(p) == [event |-> "ConfigApplied", preset |-> p]

PresetsMove ==
  /\ Moves
  /\ list' = list + 1
  /\ unsaid' \in {unsaid, unsaid \cup {Listed}}
  /\ UNCHANGED <<relayVars, up, active, connection>>

ConfigMoves ==
  /\ Moves
  /\ \E p \in Preset \cup {None} :
       /\ active' = p
       /\ unsaid' = unsaid \cup {Applied(p)}
  /\ UNCHANGED <<relayVars, up, list, connection>>

Announce(e) ==
  /\ e \in unsaid
  /\ unsaid' = unsaid \ {e}
  /\ Broadcast("bus", e)
  /\ UNCHANGED <<relayVars, up, list, active, moves, served, requests, outbox,
                 frames>>

-----------------------------------------------------------------------------
(* handle_conn.                                                            *)

Respond(response) == outbox' = response

Greet ==
  /\ served = "greeting" /\ outbox = None
  /\ requests # <<>> /\ Head(requests) = "Hello"
  /\ requests' = Tail(requests)
  /\ served' = "serving"
  /\ Respond(Reply("HelloAck"))
  /\ UNCHANGED <<relayVars, daemon, frames, feed>>

Asks(request) ==
  /\ served = "serving" /\ outbox = None
  /\ requests # <<>> /\ Head(requests) = request
  /\ requests' = Tail(requests)

GetStatus ==
  /\ Asks("GetStatus")
  /\ Respond([frame |-> "Status", state |-> state, layer |-> layer])
  /\ UNCHANGED <<relayVars, daemon, served, frames, feed>>

ListPresets ==
  /\ Asks("ListPresets")
  /\ Respond([frame |-> "Presets", list |-> list, active |-> active])
  /\ UNCHANGED <<relayVars, daemon, served, frames, feed>>

Subscribe ==
  /\ Asks("Subscribe")
  /\ feed' = [name \in Feed |-> <<>>]
  /\ Respond(Reply("Ack"))
  /\ UNCHANGED <<relayVars, daemon, served, frames>>

(* The select! is biased: requests first, then states, layers and the bus. *)
Idle == served = "serving" /\ outbox = None /\ requests = <<>> /\ feed # None

Deliver(name) ==
  /\ Idle
  /\ feed[name] # <<>>
  /\ Respond([frame |-> "Event", event |-> Head(feed[name])])
  /\ feed' = [feed EXCEPT ![name] = Tail(@)]
  /\ UNCHANGED <<relayVars, daemon, served, requests, frames>>

DeliverState == Deliver("states")
DeliverLayer == Idle /\ feed.states = <<>> /\ Deliver("layers")
DeliverBus ==
  Idle /\ feed.states = <<>> /\ feed.layers = <<>> /\ Deliver("bus")

Write ==
  /\ outbox # None
  /\ Len(frames) < SocketCap
  /\ frames' = Append(frames, outbox)
  /\ outbox' = None
  /\ UNCHANGED <<relayVars, daemon, served, requests, feed>>

-----------------------------------------------------------------------------
(* The daemon dies with its connections and is started again by launchd.   *)
(* Frames already in the socket can still be read.                         *)
DaemonDies ==
  /\ Moves
  /\ up' = FALSE
  /\ served' = "none"
  /\ requests' = <<>>
  /\ outbox' = None
  /\ feed' = None
  /\ unsaid' = {}
  /\ UNCHANGED <<relayVars, list, active, frames>>

DaemonStarts ==
  /\ ~up
  /\ up' = TRUE
  /\ state' = "Stopped"
  /\ announced' = TRUE
  /\ unread' = 0
  /\ wire' = <<>>
  /\ relay' = "Top"
  /\ layer' = None
  /\ active' = None
  /\ UNCHANGED <<port, list, moves, unsaid, connection>>

Serving ==
  \/ Greet
  \/ GetStatus
  \/ ListPresets
  \/ Subscribe
  \/ DeliverState
  \/ DeliverLayer
  \/ DeliverBus
  \/ Write

RelayWorks == LayerNamed \/ RelayElse
=============================================================================
