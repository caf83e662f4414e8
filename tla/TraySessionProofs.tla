--------------------------- MODULE TraySessionProofs ---------------------------
(***************************************************************************)
(* Theorems about LayerRelay.tla and about the session of TraySession.tla  *)
(* over the control socket, for every set of layers and presets and every  *)
(* capacity of the wire, the broadcasts and the socket.                    *)
(***************************************************************************)
EXTENDS TraySession, TLAPS

(* Sequences.                                                              *)
LEMMA SeqFacts ==
  ASSUME NEW S, NEW q \in Seq(S)
  PROVE  /\ \A e \in S : Append(q, e) \in Seq(S)
         /\ q # <<>> => Head(q) \in S /\ Tail(q) \in Seq(S)
         /\ <<>> \in Seq(S)
OBVIOUS
-----------------------------------------------------------------------------
(* The relay.                                                              *)
RelayInv == RelayTypeOK /\ LayerIsConnected

LEMMA RelayStarts == RelayInit => RelayInv
<1>1. <<>> \in Seq(Layer \cup {"EOF"}) /\ 0 \in 0..UnreadCap
  BY RelayAssumption, SeqFacts
<1>2. QED
  BY <1>1 DEF RelayInit, RelayInv, RelayTypeOK, LayerIsConnected, DaemonState

(* The steps of the task.                                                  *)
LEMMA RelayTaskStep ==
  ASSUME RelayInv, RelaySteps
  PROVE  RelayInv'
<1> USE DEF RelayInv, RelayTypeOK, LayerIsConnected, supervisor
<1>1. unread > 0 => unread - 1 \in 0..UnreadCap
  BY RelayAssumption
<1>2. <<>> \in Seq(Layer \cup {"EOF"})
  BY SeqFacts
<1>3. CASE TopRunning \/ TopIdle
  BY <1>3 DEF TopRunning, TopIdle
<1>4. CASE Connect \/ ConnectFails \/ Disconnected
  BY <1>2, <1>4 DEF Connect, ConnectFails, Disconnected, Drop
<1>5. CASE SetLayer
  <2>1. Head(wire) \in Layer /\ Tail(wire) \in Seq(Layer \cup {"EOF"})
    BY <1>5, SeqFacts DEF SetLayer
  <2>2. QED
    BY <1>5, <2>1 DEF SetLayer
<1>6. CASE LeaveRunning
  BY <1>1, <1>2, <1>6 DEF LeaveRunning, TakeTransition, Drop
<1>7. CASE AfterDrop \/ PauseEnds \/ WaitEnds
  BY <1>1, <1>7 DEF AfterDrop, PauseEnds, WaitEnds, TakeTransition
<1>8. QED
  BY <1>3, <1>4, <1>5, <1>6, <1>7 DEF RelaySteps

(* The supervisor and whoever sits on the port do not touch the layer.     *)
LEMMA RelayOutsideStep ==
  ASSUME RelayInv, RelayEnvironment
  PROVE  RelayInv'
<1> USE DEF RelayInv, RelayTypeOK, LayerIsConnected, supervisor
<1>1. \A x \in Layer \cup {"EOF"} : Append(wire, x) \in Seq(Layer \cup {"EOF"})
  BY SeqFacts
<1>2. CASE \E s \in DaemonState : Publish(s)
  BY <1>2 DEF Publish
<1>3. CASE Send
  BY <1>3, RelayAssumption DEF Send
<1>4. CASE Listen
  BY <1>4 DEF Listen
<1>5. CASE \E l \in Layer : NameLayer(l)
  BY <1>1, <1>5 DEF NameLayer
<1>6. CASE Die
  BY <1>1, <1>6 DEF Die
<1>7. QED
  BY <1>2, <1>3, <1>4, <1>5, <1>6 DEF RelayEnvironment

LEMMA RelayStep ==
  ASSUME RelayInv, RelayNext \/ UNCHANGED relayVars
  PROVE  RelayInv'
<1>1. CASE UNCHANGED relayVars
  BY <1>1 DEF relayVars, supervisor, RelayInv, RelayTypeOK, LayerIsConnected
<1>2. QED
  BY <1>1, RelayTaskStep, RelayOutsideStep DEF RelayNext

(* A layer is shown only while its connection is open in the relay.        *)
THEOREM RelayCorrect == RelaySpec => [](RelayTypeOK /\ LayerIsConnected)
<1>1. RelayInv /\ [RelayNext]_relayVars => RelayInv'
  BY RelayStep
<1>2. RelayInv => RelayTypeOK /\ LayerIsConnected
  BY DEF RelayInv
<1>3. QED
  BY RelayStarts, <1>1, <1>2, PTL DEF RelaySpec
-----------------------------------------------------------------------------
(* The connection.  The version of the list stays below the bound because  *)
(* every change of it is a move of the daemon; the session, which the      *)
(* steps of the stream fold into, is there in the places that have one.    *)
LinkInv ==
  /\ LinkTypeOK
  /\ LayerIsConnected
  /\ list <= moves
  /\ NothingStale

LEMMA EventFacts ==
  /\ BusEvent \subseteq Event
  /\ Listed \in BusEvent
  /\ \A p \in Preset \cup {None} : Applied(p) \in BusEvent
  /\ \A s \in DaemonState : [event |-> "StateChanged", to |-> s] \in Event
  /\ \A l \in Layer : [event |-> "LayerChanged", layer |-> l] \in Event
BY DEF BusEvent, Event, Listed, Applied

LEMMA FrameFacts ==
  /\ \A e \in Event : [frame |-> "Event", event |-> e] \in Frame
  /\ \A s \in DaemonState, l \in Layer \cup {None} :
       [frame |-> "Status", state |-> s, layer |-> l] \in Frame
  /\ \A n \in 0..MoveCap, p \in Preset \cup {None} :
       [frame |-> "Presets", list |-> n, active |-> p] \in Frame
  /\ \A kind \in {"HelloAck", "Ack", "Error"} : Reply(kind) \in Frame
BY DEF Frame, Reply

(* What a frame of each kind carries.                                      *)
LEMMA FrameFields ==
  ASSUME NEW f \in Frame
  PROVE  /\ f.frame = "Event" => f.event \in Event
         /\ f.frame = "Status" =>
              f.state \in DaemonState /\ f.layer \in Layer \cup {None}
         /\ f.frame = "Presets" =>
              f.list \in 0..MoveCap /\ f.active \in Preset \cup {None}
BY DEF Frame

LEMMA FacetFacts ==
  /\ \A e : FacetOf(e) \subseteq Facet
  /\ Overwritten \subseteq Facet
  /\ Differs \subseteq Facet
  /\ Told \subseteq Facet
<1>1. \A e : FacetOf(e) \subseteq Facet
  BY DEF FacetOf, Facet
<1>2. QED
  BY <1>1 DEF Overwritten, Differs, Told, Facet

LEMMA BroadcastType ==
  ASSUME feed = None \/ feed \in [Feed -> Seq(Event)],
         NEW name \in Feed, NEW e \in Event, Broadcast(name, e)
  PROVE  feed' = None \/ feed' \in [Feed -> Seq(Event)]
<1>1. CASE feed = None
  BY <1>1 DEF Broadcast
<1>2. CASE feed # None
  <2> DEFINE q == feed[name]
  <2>1. q \in Seq(Event) /\ feed \in [Feed -> Seq(Event)]
    BY <1>2
  <2>2. Push(q, e) \in Seq(Event)
    <3>1. CASE Len(q) < FeedCap
      BY <2>1, <3>1, SeqFacts DEF Push
    <3>2. CASE ~(Len(q) < FeedCap)
      <4>1. q # <<>>
        BY <3>2, ControlAssumption
      <4>2. Tail(q) \in Seq(Event)
        BY <2>1, <4>1, SeqFacts
      <4>3. Append(Tail(q), e) \in Seq(Event)
        BY <4>2, SeqFacts
      <4>4. QED
        BY <3>2, <4>3 DEF Push
    <3>3. QED
      BY <3>1, <3>2
  <2>3. feed' = [feed EXCEPT ![name] = Push(q, e)]
    BY <1>2 DEF Broadcast
  <2>4. QED
    BY <2>1, <2>2, <2>3
<1>3. QED
  BY <1>1, <1>2

LEMMA LinkStarts == LinkInit => LinkInv
<1> SUFFICES ASSUME LinkInit PROVE LinkInv
  OBVIOUS
<1>1. RelayInv
  BY RelayStarts DEF LinkInit, ControlInit
<1>2. 0 \in 0..MoveCap /\ <<>> \in Seq(Request) /\ <<>> \in Seq(Frame)
  BY ControlAssumption, SeqFacts
<1>3. ControlTypeOK
  BY <1>1, <1>2 DEF LinkInit, ControlInit, ControlTypeOK, RelayInv
<1>4. QED
  BY <1>1, <1>3
  DEF LinkInit, ControlInit, LinkInv, LinkTypeOK, RelayInv, NothingStale

(* Every step keeps the relay's invariant: what is not a step of the relay *)
(* or of its environment leaves their variables alone, but for a daemon    *)
(* that starts over.                                                       *)
LEMMA LinkRelay ==
  ASSUME LinkInv, LinkNext
  PROVE  RelayInv'
<1>1. RelayInv
  BY DEF LinkInv, LinkTypeOK, ControlTypeOK, RelayInv
<1>2. CASE DaemonStarts
  <2>1. 0 \in 0..UnreadCap /\ <<>> \in Seq(Layer \cup {"EOF"})
    BY RelayAssumption, SeqFacts
  <2>2. QED
    BY <1>1, <1>2, <2>1
    DEF DaemonStarts, RelayInv, RelayTypeOK, LayerIsConnected, DaemonState
<1>3. CASE RelayNext \/ UNCHANGED relayVars
  BY <1>1, <1>3, RelayStep
<1>4. CASE StateMoves \/ StateSent \/ KanataMoves \/ LayerNamed \/ RelayElse
  BY <1>3, <1>4
  DEF StateMoves, StateSent, KanataMoves, LayerNamed, RelayElse, RelayNext,
      RelaySteps, RelayEnvironment
<1>5. CASE TraySteps
  BY <1>3, <1>5
  DEF TraySteps, Connects, Greeted, SeedsStatus, SeedsPresets, Subscribed, Folds,
      HearsPresetsChanged, Skips, Refetched, Loses, Asking, Reading, controlVars
<1>6. CASE \/ SubscribeServed \/ ListServed \/ PresetsMoved \/ ConfigMoved
           \/ \E e \in unsaid : Announced(e)
  BY <1>3, <1>6
  DEF SubscribeServed, Subscribe, ListServed, ListPresets, PresetsMoved,
      PresetsMove, ConfigMoved, ConfigMoves, Announced, Announce
<1>7. CASE Greet \/ GetStatus \/ DeliverState \/ DeliverLayer \/ DeliverBus
             \/ Write \/ DaemonDies
  BY <1>3, <1>7
  DEF Greet, GetStatus, DeliverState, DeliverLayer, DeliverBus, Deliver, Write,
      DaemonDies
<1>8. QED
  BY <1>2, <1>4, <1>5, <1>6, <1>7 DEF LinkNext, LayerMoved, RelayMoved, DaemonElse

(* The other three parts of the invariant.                                 *)
DaemonInv ==
  /\ up \in BOOLEAN
  /\ list \in 0..MoveCap
  /\ active \in Preset \cup {None}
  /\ moves \in 0..MoveCap
  /\ unsaid \subseteq BusEvent
  /\ list <= moves

WireInv ==
  /\ served \in {"none", "greeting", "serving"}
  /\ requests \in Seq(Request)
  /\ outbox \in Frame \cup {None}
  /\ frames \in Seq(Frame)
  /\ feed = None \/ feed \in [Feed -> Seq(Event)]

SessionInv ==
  /\ tray \in {"Backoff", "Hello", "Status", "Presets", "Subscribe", "Stream",
               "Refetch"}
  /\ session \in Session \cup {None}
  /\ missed \subseteq Facet
  /\ NothingStale

LEMMA LinkParts ==
  LinkInv <=> RelayInv /\ DaemonInv /\ WireInv /\ SessionInv
BY DEF LinkInv, RelayInv, DaemonInv, WireInv, SessionInv, LinkTypeOK, ControlTypeOK

LEMMA LinkPartsNext ==
  LinkInv' <=> RelayInv' /\ DaemonInv' /\ WireInv' /\ SessionInv'
BY DEF LinkInv, RelayInv, DaemonInv, WireInv, SessionInv, LinkTypeOK, ControlTypeOK

LEMMA LinkDaemon ==
  ASSUME DaemonInv, LinkNext
  PROVE  DaemonInv'
<1> USE DEF DaemonInv
<1>1. CASE UNCHANGED daemon
  BY <1>1 DEF daemon
<1>2. ASSUME Moves PROVE moves' \in 0..MoveCap /\ moves' = moves + 1 /\ moves < MoveCap
  BY <1>2, ControlAssumption DEF Moves
<1>3. CASE StateMoves \/ (KanataMoves /\ Moves) \/ DaemonDies
  <2>1. /\ up' \in BOOLEAN /\ unsaid' \in {unsaid, {}}
        /\ UNCHANGED <<list, active>> /\ Moves
    BY <1>3 DEF StateMoves, KanataMoves, DaemonDies, relayVars, connection
  <2>2. QED
    BY <1>2, <2>1
<1>4. CASE KanataMoves /\ ~Moves
  BY <1>4 DEF KanataMoves
<1>5. CASE PresetsMove
  <2>1. list' = list + 1 /\ UNCHANGED <<up, active>> /\ unsaid' \subseteq BusEvent
    BY <1>5, EventFacts DEF PresetsMove
  <2>2. Moves
    BY <1>5 DEF PresetsMove
  <2>3. list' \in 0..MoveCap /\ list' <= moves'
    BY <1>2, <2>1, <2>2, ControlAssumption
  <2>4. QED
    BY <1>2, <2>1, <2>2, <2>3
<1>6. CASE ConfigMoves
  <2>1. PICK p \in Preset \cup {None} :
          active' = p /\ unsaid' = unsaid \cup {Applied(p)}
    BY <1>6 DEF ConfigMoves
  <2>2. unsaid' \subseteq BusEvent
    BY <2>1, EventFacts
  <2>3. Moves /\ UNCHANGED <<up, list>>
    BY <1>6 DEF ConfigMoves
  <2>4. QED
    BY <1>2, <2>1, <2>2, <2>3
<1>7. CASE \E e \in unsaid : Announce(e)
  BY <1>7 DEF Announce
<1>8. CASE DaemonStarts
  BY <1>8 DEF DaemonStarts
<1>9. CASE TraySteps \/ SubscribeServed \/ ListServed \/ LayerMoved \/ RelayMoved
  BY <1>1, <1>9
  DEF TraySteps, Connects, Greeted, SeedsStatus, SeedsPresets, Subscribed, Folds,
      HearsPresetsChanged, Skips, Refetched, Loses, Asking, Reading, controlVars,
      SubscribeServed, Subscribe, ListServed, ListPresets, LayerMoved, LayerNamed,
      RelayMoved, RelayElse
<1>10. CASE StateSent \/ Greet \/ GetStatus \/ DeliverState \/ DeliverLayer
             \/ DeliverBus \/ Write
  BY <1>1, <1>10
  DEF StateSent, Greet, GetStatus, DeliverState, DeliverLayer, DeliverBus, Deliver,
      Write
<1>11. QED
  BY <1>3, <1>4, <1>5, <1>6, <1>7, <1>8, <1>9, <1>10
  DEF LinkNext, PresetsMoved, ConfigMoved, Announced, DaemonElse

(* The daemon's end of the connection.                                     *)
LEMMA ServedWire ==
  ASSUME RelayInv, DaemonInv, WireInv,
         \/ Greet \/ GetStatus \/ ListPresets \/ Subscribe
         \/ DeliverState \/ DeliverLayer \/ DeliverBus \/ Write
  PROVE  WireInv'
<1> USE DEF WireInv
<1>1. requests # <<>> => Tail(requests) \in Seq(Request)
  BY SeqFacts
<1>2. CASE Greet
  BY <1>1, <1>2, FrameFacts DEF Greet, Respond
<1>3. CASE GetStatus
  <2>1. [frame |-> "Status", state |-> state, layer |-> layer] \in Frame
    BY FrameFacts DEF RelayInv, RelayTypeOK
  <2>2. QED
    BY <1>1, <1>3, <2>1 DEF GetStatus, Asks, Respond
<1>4. CASE ListPresets
  <2>1. [frame |-> "Presets", list |-> list, active |-> active] \in Frame
    BY FrameFacts DEF DaemonInv
  <2>2. QED
    BY <1>1, <1>4, <2>1 DEF ListPresets, Asks, Respond
<1>5. CASE Subscribe
  <2>1. [name \in Feed |-> <<>>] \in [Feed -> Seq(Event)]
    BY SeqFacts
  <2>2. QED
    BY <1>1, <1>5, <2>1, FrameFacts DEF Subscribe, Asks, Respond
<1>6. CASE DeliverState \/ DeliverLayer \/ DeliverBus
  <2>1. PICK name \in Feed : Deliver(name)
    BY <1>6 DEF DeliverState, DeliverLayer, DeliverBus, Feed
  <2>2. /\ feed \in [Feed -> Seq(Event)] /\ feed[name] # <<>>
        /\ outbox' = [frame |-> "Event", event |-> Head(feed[name])]
        /\ feed' = [feed EXCEPT ![name] = Tail(feed[name])]
        /\ UNCHANGED <<served, requests, frames>>
    BY <2>1 DEF Deliver, Idle, Respond
  <2>3. Head(feed[name]) \in Event /\ Tail(feed[name]) \in Seq(Event)
    BY <2>2, SeqFacts
  <2>4. outbox' \in Frame
    BY <2>2, <2>3, FrameFacts
  <2>5. feed' \in [Feed -> Seq(Event)]
    BY <2>2, <2>3
  <2>6. QED
    BY <2>2, <2>4, <2>5
<1>7. CASE Write
  <2>1. Append(frames, outbox) \in Seq(Frame)
    BY <1>7, SeqFacts DEF Write
  <2>2. QED
    BY <1>7, <2>1 DEF Write
<1>8. QED
  BY <1>2, <1>3, <1>4, <1>5, <1>6, <1>7

(* What happens to the daemon.                                             *)
LEMMA MovedWire ==
  ASSUME RelayInv, DaemonInv, WireInv,
         \/ StateMoves \/ StateSent \/ KanataMoves \/ LayerNamed \/ RelayElse
         \/ PresetsMove \/ ConfigMoves \/ (\E e \in unsaid : Announce(e))
         \/ DaemonDies \/ DaemonStarts
  PROVE  WireInv'
<1>1. CASE UNCHANGED connection
  BY <1>1 DEF WireInv, connection
<1>2. ASSUME NEW name \in Feed, NEW e \in Event, Broadcast(name, e),
             UNCHANGED <<served, requests, outbox, frames>>
      PROVE  WireInv'
  BY <1>2, BroadcastType DEF WireInv
<1>3. CASE StateSent
  <2>1. [event |-> "StateChanged", to |-> state] \in Event
    BY EventFacts DEF RelayInv, RelayTypeOK
  <2>2. QED
    BY <1>2, <1>3, <2>1 DEF StateSent, Feed
<1>4. CASE LayerNamed
  <2>1. Head(wire) \in Layer
    BY <1>4, SeqFacts DEF LayerNamed, SetLayer, RelayInv, RelayTypeOK
  <2>2. layer' \in Layer
    BY <1>4, <2>1 DEF LayerNamed, SetLayer
  <2>3. [event |-> "LayerChanged", layer |-> layer'] \in Event
    BY <2>2, EventFacts
  <2>4. CASE UNCHANGED feed
    BY <1>1, <1>4, <2>4 DEF LayerNamed, connection
  <2>5. CASE Broadcast("layers", [event |-> "LayerChanged", layer |-> layer'])
    BY <1>2, <1>4, <2>3, <2>5 DEF LayerNamed, Feed
  <2>6. QED
    BY <1>4, <2>4, <2>5 DEF LayerNamed
<1>5. CASE \E e \in unsaid : Announce(e)
  <2>1. PICK e \in unsaid : Announce(e)
    BY <1>5
  <2>2. e \in Event
    BY <2>1, EventFacts DEF DaemonInv
  <2>3. QED
    BY <1>2, <2>1, <2>2 DEF Announce, Feed
<1>6. CASE DaemonDies
  <2>1. <<>> \in Seq(Request)
    BY SeqFacts
  <2>2. QED
    BY <1>6, <2>1 DEF DaemonDies, WireInv
<1>7. QED
  BY <1>1, <1>3, <1>4, <1>5, <1>6
  DEF StateMoves, KanataMoves, RelayElse, PresetsMove, ConfigMoves, DaemonStarts

(* The tray's end.                                                         *)
LEMMA TrayWire ==
  ASSUME WireInv, TraySteps
  PROVE  WireInv'
<1> USE DEF WireInv
<1>1. frames # <<>> => Tail(frames) \in Seq(Frame)
  BY SeqFacts
<1>2. \A r \in Request : Append(requests, r) \in Seq(Request)
  BY SeqFacts
<1>3. CASE Connects
  <2>1. <<"Hello">> \in Seq(Request) /\ <<>> \in Seq(Frame)
    BY SeqFacts DEF Request
  <2>2. QED
    BY <1>3, <2>1 DEF Connects
<1>4. ASSUME NEW r \in Request, Asking(r), frames # <<>> PROVE WireInv'
  BY <1>1, <1>2, <1>4 DEF Asking
<1>5. CASE Reading /\ frames # <<>>
  BY <1>1, <1>5 DEF Reading
<1>6. CASE Greeted \/ SeedsStatus \/ SeedsPresets \/ HearsPresetsChanged
  BY <1>4, <1>6
  DEF Greeted, SeedsStatus, SeedsPresets, HearsPresetsChanged, Received, Request
<1>7. CASE Subscribed \/ Folds \/ Skips \/ Refetched
  BY <1>5, <1>7 DEF Subscribed, Folds, Skips, Refetched, Received
<1>8. CASE Loses
  BY <1>8 DEF Loses, controlVars, connection
<1>9. QED
  BY <1>3, <1>6, <1>7, <1>8 DEF TraySteps

(* The session is there exactly while the connection has been seeded.      *)
LEMMA TrayFolds ==
  ASSUME RelayInv, WireInv, SessionInv, TraySteps
  PROVE  SessionInv'
<1> USE DEF SessionInv, NothingStale
<1> DEFINE f == Head(frames)
<1>1. frames # <<>> => f \in Frame
  BY SeqFacts DEF WireInv
<1>2. ASSUME NEW reply, reply.list \in 0..MoveCap,
             reply.active \in Preset \cup {None}, session \in Session
      PROVE  WithPresets(reply) \in Session
  BY <1>2 DEF WithPresets, Session
<1>3. CASE Connects \/ Greeted \/ Subscribed
  BY <1>3 DEF Connects, Greeted, Subscribed
<1>4. CASE SeedsStatus
  <2>1. f.state \in DaemonState /\ f.layer \in Layer \cup {None}
    BY <1>1, <1>4, FrameFields DEF SeedsStatus, Received
  <2>2. session' \in Session
    BY <1>4, <2>1, ControlAssumption DEF SeedsStatus, Session
  <2>3. QED
    BY <1>4, <2>2, SessionAssumption DEF SeedsStatus
<1>5. CASE SeedsPresets \/ Refetched
  <2>1. f.list \in 0..MoveCap /\ f.active \in Preset \cup {None}
    BY <1>1, <1>5, FrameFields DEF SeedsPresets, Refetched, Received
  <2>2. session \in Session
    BY <1>5 DEF SeedsPresets, Refetched
  <2>3. session' \in Session
    BY <1>2, <1>5, <2>1, <2>2 DEF SeedsPresets, Refetched
  <2>4. QED
    BY <1>5, <2>3, SessionAssumption DEF SeedsPresets, Refetched
<1>6. CASE Folds
  <2>1. f.event \in Event /\ session \in Session
    BY <1>1, <1>6, FrameFields DEF Folds, Received
  <2>2. Apply(f.event) \in Session
    BY <2>1 DEF Apply, Event, BusEvent, Session
  <2>3. QED
    BY <1>6, <2>2, SessionAssumption DEF Folds
<1>7. CASE HearsPresetsChanged
  BY <1>7 DEF HearsPresetsChanged
<1>8. CASE Skips
  <2>1. missed' \subseteq Facet
    BY <1>8, FacetFacts DEF Skips
  <2>2. QED
    BY <1>8, <2>1 DEF Skips
<1>9. CASE Loses
  BY <1>9 DEF Loses
<1>10. QED
  BY <1>3, <1>4, <1>5, <1>6, <1>7, <1>8, <1>9 DEF TraySteps

LEMMA DaemonSession ==
  ASSUME SessionInv, LinkNext, ~TraySteps
  PROVE  SessionInv'
<1>1. UNCHANGED <<tray, session>>
  BY DEF LinkNext, SubscribeServed, ListServed, PresetsMoved, ConfigMoved,
     Announced, LayerMoved, RelayMoved, DaemonElse, trayVars
<1>2. missed' \subseteq Facet
  <2>1. missed \subseteq Facet /\ "list" \in Facet /\ "active" \in Facet
        /\ "layer" \in Facet
    BY DEF SessionInv, Facet
  <2>2. CASE SubscribeServed \/ ListServed
    BY <2>1, <2>2, FacetFacts DEF SubscribeServed, ListServed
  <2>3. CASE PresetsMoved \/ ConfigMoved
    BY <2>1, <2>3 DEF PresetsMoved, ConfigMoved
  <2>4. CASE LayerMoved \/ RelayMoved
    BY <2>1, <2>4 DEF LayerMoved, RelayMoved
  <2>5. ASSUME NEW e \in unsaid, Announced(e) PROVE missed' \subseteq Facet
    BY <2>1, <2>5, FacetFacts DEF Announced
  <2>6. CASE DaemonElse
    BY <2>1, <2>6 DEF DaemonElse, trayVars
  <2>7. QED
    BY <2>2, <2>3, <2>4, <2>5, <2>6 DEF LinkNext
<1>3. QED
  BY <1>1, <1>2 DEF SessionInv, NothingStale

LEMMA LinkStep ==
  ASSUME LinkInv, [LinkNext]_linkVars
  PROVE  LinkInv'
<1>1. RelayInv /\ DaemonInv /\ WireInv /\ SessionInv
  BY LinkParts
<1>2. CASE UNCHANGED linkVars
  BY <1>2
  DEF LinkInv, LinkTypeOK, ControlTypeOK, RelayTypeOK, LayerIsConnected,
      NothingStale, linkVars, controlVars, relayVars, supervisor, daemon,
      connection, trayVars
<1>3. CASE LinkNext
  <2>1. RelayInv' /\ DaemonInv'
    BY <1>1, <1>3, LinkRelay, LinkDaemon
  <2>2. WireInv'
    BY <1>1, <1>3, TrayWire, ServedWire, MovedWire
    DEF LinkNext, SubscribeServed, ListServed, PresetsMoved, ConfigMoved,
        Announced, LayerMoved, RelayMoved, DaemonElse
  <2>3. SessionInv'
    BY <1>1, <1>3, TrayFolds, DaemonSession
  <2>4. QED
    BY <2>1, <2>2, <2>3, LinkPartsNext
<1>4. QED
  BY <1>2, <1>3

(* The inductive invariant of the tray, its connection and the relay.      *)
THEOREM LinkCorrect == LinkSpec => []LinkInv
BY LinkStarts, LinkStep, PTL DEF LinkSpec

(* Types of the daemon's end, the socket and the session.                  *)
THEOREM LinkTypeCorrect == LinkSpec => []LinkTypeOK
<1>1. LinkInv => LinkTypeOK
  BY DEF LinkInv
<1>2. QED
  BY <1>1, LinkCorrect, PTL

(* Also with a daemon that dies and starts over, a layer is shown only     *)
(* while the connection that named it is open.                             *)
THEOREM LayerIsConnectedHolds == LinkSpec => []LayerIsConnected
<1>1. LinkInv => LayerIsConnected
  BY DEF LinkInv
<1>2. QED
  BY <1>1, LinkCorrect, PTL

(* No status of a dead daemon outlives its connection.                     *)
THEOREM NothingStaleHolds == LinkSpec => []NothingStale
<1>1. LinkInv => NothingStale
  BY DEF LinkInv
<1>2. QED
  BY <1>1, LinkCorrect, PTL
-----------------------------------------------------------------------------
(* What the menu shows.  At each moment the connection is in one phase of  *)
(* its protocol, which says what may be in the socket: Sent, the frames    *)
(* written and the one being written.                                      *)
Only(kind) == Len(Sent) = 1 /\ Sent[1].frame = kind

EventsOnly(kept) ==
  \A i \in 1..Len(Sent) : i \in kept \/ Sent[i].frame = "Event"

Answer(k) == k \in 1..Len(Sent) /\ Sent[k].frame = "Presets" /\ EventsOnly({k})

Exchange(request, kind) ==
  \/ requests = <<request>> /\ Len(Sent) = 0
  \/ requests = <<>> /\ Only(kind)

PhaseInv ==
  /\ ~up => served = "none"
  /\ served = "none" => feed = None /\ requests = <<>> /\ outbox = None
  /\ served = "greeting" =>
       tray = "Hello" /\ requests = <<"Hello">> /\ Len(Sent) = 0
  /\ served = "serving" =>
       /\ tray # "Backoff"
       /\ tray = "Hello" => requests = <<>> /\ Only("HelloAck")
       /\ tray = "Status" => Exchange("GetStatus", "Status")
       /\ tray = "Presets" => Exchange("ListPresets", "Presets")
       /\ tray = "Subscribe" =>
            \/ feed = None /\ requests = <<"Subscribe">> /\ Len(Sent) = 0
            \/ /\ feed # None /\ requests = <<>>
               /\ Len(Sent) > 0 /\ Sent[1].frame = "Ack" /\ EventsOnly({1})
       /\ tray = "Stream" => feed # None /\ requests = <<>> /\ EventsOnly({})
       /\ tray = "Refetch" =>
            /\ feed # None
            /\ \/ requests = <<"ListPresets">> /\ EventsOnly({})
               \/ requests = <<>> /\ \E k \in 1..Len(Sent) : Answer(k)
  /\ feed # None =>
       served = "serving" /\ tray \in {"Subscribe", "Stream", "Refetch"}

(* Each broadcast carries its own events.                                  *)
FeedInv ==
  feed # None =>
    /\ \A i \in 1..Len(feed.states) : feed.states[i].event = "StateChanged"
    /\ \A i \in 1..Len(feed.layers) : feed.layers[i].event = "LayerChanged"
    /\ \A i \in 1..Len(feed.bus) :
         feed.bus[i].event \in {"PresetsChanged", "ConfigApplied"}

(* The state and the layer.  The last event on its way tells it, or the    *)
(* session has it.                                                         *)
Fact == {"states", "layers"}
KindOf(name) == IF name = "states" THEN "StateChanged" ELSE "LayerChanged"
FacetNamed(name) == IF name = "states" THEN "state" ELSE "layer"
Value(e) == IF e.event = "StateChanged" THEN e.to ELSE e.layer
InSession(name) == IF name = "states" THEN session.state ELSE session.layer
InDaemon(name) == IF name = "states" THEN state ELSE layer

About(name, f) == f.frame = "Event" /\ f.event.event = KindOf(name)

LastOnWire(name) ==
  \/ \E i \in 1..Len(Sent) :
       /\ About(name, Sent[i]) /\ Value(Sent[i].event) = InDaemon(name)
       /\ \A j \in 1..Len(Sent) : j > i => ~About(name, Sent[j])
  \/ /\ \A i \in 1..Len(Sent) : ~About(name, Sent[i])
     /\ InSession(name) = InDaemon(name)

Tells(name) ==
  \/ /\ Len(feed[name]) > 0
     /\ Value(feed[name][Len(feed[name])]) = InDaemon(name)
  \/ Len(feed[name]) = 0 /\ LastOnWire(name)

Due(name) == FacetNamed(name) \notin missed /\ (name = "states" => announced)

FactInv == feed # None => \A name \in Fact : Due(name) => Tells(name)

(* The presets.  The session or an answer on its way is the basis; what    *)
(* follows it changes the list, by another answer, or the mark.            *)
Basis(k) ==
  \/ tray \in {"Subscribe", "Stream"} /\ k = 0
  \/ tray = "Refetch" /\ k \in 1..Len(Sent) /\ Sent[k].frame = "Presets"

ListAt(k) == IF k = 0 THEN session.list ELSE Sent[k].list
ActiveAt(k) == IF k = 0 THEN session.active ELSE Sent[k].active

Lists(e) == e.event = "PresetsChanged"
Names(e) == e.event = "ConfigApplied" /\ e.preset # None
NamesOnWire(f) == f.frame = "Event" /\ Names(f.event)

ListTold ==
  \/ \E i \in 1..Len(feed.bus) : Lists(feed.bus[i])
  \/ \A k \in 0..Len(Sent) : Basis(k) =>
       \/ ListAt(k) = list
       \/ \E i \in 1..Len(Sent) :
            i > k /\ Sent[i].frame = "Event" /\ Lists(Sent[i].event)

NamedAfter(k) ==
  \/ \E i \in 1..Len(Sent) :
       /\ i > k /\ NamesOnWire(Sent[i]) /\ Sent[i].event.preset = active
       /\ \A j \in 1..Len(Sent) : j > i => ~NamesOnWire(Sent[j])
  \/ /\ \A i \in 1..Len(Sent) : i > k => ~NamesOnWire(Sent[i])
     /\ ActiveAt(k) = active

ActiveTold ==
  \/ \E i \in 1..Len(feed.bus) :
       /\ Names(feed.bus[i]) /\ feed.bus[i].preset = active
       /\ \A j \in 1..Len(feed.bus) : j > i => ~Names(feed.bus[j])
  \/ /\ \A i \in 1..Len(feed.bus) : ~Names(feed.bus[i])
     /\ \A k \in 0..Len(Sent) : Basis(k) => NamedAfter(k)

ListInv ==
  feed # None /\ "list" \notin missed /\ Listed \notin unsaid => ListTold

ActiveInv ==
  feed # None /\ "active" \notin missed /\ ~Pending(unsaid) => ActiveTold

MenuInv == PhaseInv /\ FeedInv /\ FactInv /\ ListInv /\ ActiveInv

(* The socket as one queue.                                                *)
LEMMA SentSeq ==
  ASSUME WireInv
  PROVE  /\ Sent \in Seq(Frame) /\ Len(Sent) \in Nat
         /\ \A i \in 1..Len(Sent) : Sent[i] \in Frame
         /\ frames = <<>> /\ outbox = None => Len(Sent) = 0
         /\ frames # <<>> => Len(Sent) > 0 /\ Sent[1] = Head(frames)
<1>1. frames \in Seq(Frame) /\ (outbox # None => outbox \in Frame)
  BY DEF WireInv
<1>2. CASE outbox = None
  <2>1. Sent = frames \o <<>>
    BY <1>2 DEF Sent
  <2>2. Sent = frames
    BY <1>1, <2>1
  <2>3. QED
    BY <1>1, <2>2
<1>3. CASE outbox # None
  <2>1. Sent = frames \o <<outbox>>
    BY <1>3 DEF Sent
  <2> DEFINE o == outbox
  <2>2. o \in Frame
    BY <1>1, <1>3
  <2>3. Sent = frames \o <<o>>
    BY <2>1
  <2> HIDE DEF o
  <2>4. /\ frames \o <<o>> \in Seq(Frame)
        /\ frames # <<>> => (frames \o <<o>>)[1] = Head(frames) /\ Len(frames \o <<o>>) > 0
    BY <1>1, <2>2
  <2>5. QED
    BY <1>3, <2>3, <2>4
<1>4. QED
  BY <1>2, <1>3

(* Reading takes the first frame.                                          *)
LEMMA SentRead ==
  ASSUME WireInv, frames # <<>>, frames' = Tail(frames), outbox' = outbox
  PROVE  /\ Len(Sent)' = Len(Sent) - 1
         /\ \A i \in 1..Len(Sent)' : Sent'[i] = Sent[i+1]
<1>1. frames \in Seq(Frame) /\ (outbox # None => outbox \in Frame)
  BY DEF WireInv
<1>2. CASE outbox = None
  <2>1. Sent = frames \o <<>> /\ Sent' = Tail(frames) \o <<>>
    BY <1>2 DEF Sent
  <2>2. Sent = frames /\ Sent' = Tail(frames)
    BY <1>1, <2>1
  <2>3. QED
    BY <1>1, <2>2
<1>3. CASE outbox # None
  <2> DEFINE o == outbox
  <2>1. Sent = frames \o <<o>> /\ Sent' = Tail(frames) \o <<o>>
    BY <1>3 DEF Sent
  <2>2. o \in Frame
    BY <1>1, <1>3
  <2> HIDE DEF o
  <2>3. QED
    BY <1>1, <2>1, <2>2
<1>4. QED
  BY <1>2, <1>3

(* Writing moves no frame of the queue.                                    *)
LEMMA SentWritten ==
  ASSUME WireInv, Write
  PROVE  Len(Sent)' = Len(Sent) /\ \A i \in 1..Len(Sent) : Sent'[i] = Sent[i]
<1> DEFINE o == outbox
<1>1. frames \in Seq(Frame) /\ o \in Frame
  BY DEF WireInv, Write
<1>2. Sent = frames \o <<o>> /\ Sent' = Append(frames, o) \o <<>>
  BY DEF Sent, Write
<1> HIDE DEF o
<1>3. QED
  BY <1>1, <1>2

(* A frame to be written is the last of the queue.                         *)
LEMMA SentAdded ==
  ASSUME WireInv, NEW f \in Frame, f # None, outbox = None, outbox' = f,
         frames' = frames
  PROVE  /\ Len(Sent)' = Len(Sent) + 1 /\ Sent'[Len(Sent) + 1] = f
         /\ \A i \in 1..Len(Sent) : Sent'[i] = Sent[i]
<1>1. frames \in Seq(Frame)
  BY DEF WireInv
<1>2. Sent = frames \o <<>> /\ Sent' = frames \o <<f>>
  BY DEF Sent
<1>3. QED
  BY <1>1, <1>2

(* A queue of a broadcast.                                                 *)
LEMMA QueueTaken ==
  ASSUME NEW q \in Seq(Event), q # <<>>
  PROVE  /\ Head(q) = q[1] /\ Len(q) > 0 /\ Head(q) \in Event
         /\ Len(Tail(q)) = Len(q) - 1
         /\ \A i \in 1..Len(Tail(q)) : Tail(q)[i] = q[i+1]
OBVIOUS

(* At capacity the first entry goes.                                       *)
LEMMA QueuePushed ==
  ASSUME NEW q \in Seq(Event), NEW e \in Event
  PROVE  LET r == Push(q, e)
         IN  /\ Len(r) > 0 /\ r[Len(r)] = e
             /\ \/ /\ Len(q) < FeedCap /\ Len(r) = Len(q) + 1
                   /\ \A i \in 1..Len(q) : r[i] = q[i]
                \/ /\ Len(q) >= FeedCap /\ Len(q) > 0 /\ Len(r) = Len(q)
                   /\ Head(q) = q[1]
                   /\ \A i \in 1..Len(q) - 1 : r[i] = q[i+1]
<1>1. CASE Len(q) < FeedCap
  <2>1. Push(q, e) = Append(q, e)
    BY <1>1 DEF Push
  <2>2. QED
    BY <1>1, <2>1
<1>2. CASE ~(Len(q) < FeedCap)
  <2>1. Push(q, e) = Append(Tail(q), e)
    BY <1>2 DEF Push
  <2>2. q # <<>> /\ Len(q) >= FeedCap
    BY <1>2, ControlAssumption
  <2>3. Tail(q) \in Seq(Event)
    BY <2>2, SeqFacts
  <2>4. QED
    BY <2>1, <2>2, <2>3
<1>3. QED
  BY <1>1, <1>2

LEMMA PushType ==
  ASSUME NEW q \in Seq(Event), NEW e \in Event
  PROVE  Push(q, e) \in Seq(Event)
<1>1. CASE Len(q) < FeedCap
  BY <1>1, SeqFacts DEF Push
<1>2. CASE ~(Len(q) < FeedCap)
  <2>1. q # <<>>
    BY <1>2, ControlAssumption
  <2>2. Tail(q) \in Seq(Event)
    BY <2>1, SeqFacts
  <2>3. QED
    BY <1>2, <2>2, SeqFacts DEF Push
<1>3. QED
  BY <1>1, <1>2

(* The phases.                                                             *)
LEMMA PhaseFrame ==
  ASSUME PhaseInv, UNCHANGED <<served, requests, outbox, frames, tray>>,
         feed' = None <=> feed = None, up' \/ served = "none"
  PROVE  PhaseInv'
<1>1. Sent' = Sent
  BY DEF Sent
<1>2. /\ \A kind : Only(kind)' <=> Only(kind)
      /\ \A kept : EventsOnly(kept)' <=> EventsOnly(kept)
      /\ \A request, kind : Exchange(request, kind)' <=> Exchange(request, kind)
  BY <1>1 DEF Only, EventsOnly, Exchange
<1>3. \A k \in 1..Len(Sent) : Answer(k)' <=> Answer(k)
  BY <1>1, <1>2 DEF Answer
<1>4. QED
  BY <1>1, <1>2, <1>3 DEF PhaseInv

(* A request is answered.                                                  *)
LEMMA Answered ==
  ASSUME WireInv, NEW f \in Frame, requests # <<>>, outbox = None,
         requests = <<Head(requests)>>,
         requests' = Tail(requests), outbox' = f, frames' = frames
  PROVE  /\ requests' = <<>> /\ outbox' # None
         /\ Len(Sent)' = Len(Sent) + 1 /\ Sent'[Len(Sent) + 1] = f
         /\ \A i \in 1..Len(Sent) : Sent'[i] = Sent[i]
<1>1. f # None
  BY AbsenceAssumption
<1>2. requests' = <<>>
  BY DEF WireInv
<1>3. QED
  BY <1>1, <1>2, SentAdded

(* A request is served.                                                    *)
LEMMA PhaseServed ==
  ASSUME WireInv, DaemonInv, RelayInv, SessionInv, PhaseInv, UNCHANGED tray,
         Greet \/ GetStatus \/ ListPresets \/ Subscribe
  PROVE  PhaseInv'
<1>1. Len(Sent) \in Nat
  BY SentSeq
<1>2. /\ outbox = None /\ requests # <<>> /\ requests' = Tail(requests)
      /\ UNCHANGED <<frames, up>>
  BY DEF Greet, GetStatus, ListPresets, Subscribe, Asks, daemon
<1>3. Head(<<"Hello">>) = "Hello" /\ Head(<<"GetStatus">>) = "GetStatus"
      /\ Head(<<"ListPresets">>) = "ListPresets" /\ Head(<<"Subscribe">>) = "Subscribe"
  OBVIOUS
<1>4. CASE Greet
  <2>1. /\ tray = "Hello" /\ requests = <<"Hello">> /\ Len(Sent) = 0
        /\ outbox' = Reply("HelloAck") /\ served' = "serving" /\ feed' = feed
        /\ feed = None /\ up
    BY <1>4 DEF Greet, PhaseInv, Respond
  <2>2. Reply("HelloAck") \in Frame /\ Reply("HelloAck").frame = "HelloAck"
    BY FrameFacts DEF Reply
  <2>3. requests' = <<>> /\ Len(Sent)' = 1 /\ Sent'[1].frame = "HelloAck"
    BY <1>2, <1>3, <2>1, <2>2, Answered
  <2>4. QED
    BY <1>2, <2>1, <2>3 DEF PhaseInv, Only
<1>5. CASE GetStatus
  <2>1. /\ tray = "Status" /\ requests = <<"GetStatus">> /\ Len(Sent) = 0
        /\ served = "serving" /\ served' = "serving" /\ feed' = feed
        /\ feed = None /\ up
    BY <1>2, <1>3, <1>5 DEF GetStatus, Asks, PhaseInv, SessionInv, Exchange
  <2> DEFINE f == [frame |-> "Status", state |-> state, layer |-> layer]
  <2>2. f \in Frame /\ f.frame = "Status" /\ outbox' = f
    BY <1>5, FrameFacts DEF RelayInv, RelayTypeOK, GetStatus, Respond
  <2> HIDE DEF f
  <2>3. requests' = <<>> /\ Len(Sent)' = 1 /\ Sent'[1].frame = "Status"
    BY <1>2, <1>3, <2>1, <2>2, Answered
  <2>4. QED
    BY <1>2, <2>1, <2>3 DEF PhaseInv, Exchange, Only
<1>6. CASE ListPresets
  <2>1. /\ tray \in {"Presets", "Refetch"} /\ requests = <<"ListPresets">>
        /\ served = "serving" /\ served' = "serving" /\ feed' = feed /\ up
    BY <1>2, <1>3, <1>6 DEF ListPresets, Asks, PhaseInv, SessionInv, Exchange
  <2> DEFINE f == [frame |-> "Presets", list |-> list, active |-> active]
  <2>2. f \in Frame /\ f.frame = "Presets" /\ outbox' = f
    BY <1>6, FrameFacts DEF DaemonInv, ListPresets, Respond
  <2> HIDE DEF f
  <2>3. /\ requests' = <<>> /\ Len(Sent)' = Len(Sent) + 1
        /\ Sent'[Len(Sent) + 1] = f
        /\ \A i \in 1..Len(Sent) : Sent'[i] = Sent[i]
    BY <1>2, <1>3, <2>1, <2>2, Answered
  <2>4. CASE tray = "Presets"
    <3>1. Len(Sent) = 0 /\ feed = None
      BY <2>1, <2>4 DEF PhaseInv, Exchange
    <3>2. QED
      BY <1>2, <2>1, <2>2, <2>3, <2>4, <3>1 DEF PhaseInv, Exchange, Only
  <2>5. CASE tray = "Refetch"
    <3>1. EventsOnly({}) /\ feed # None
      BY <1>3, <2>1, <2>5 DEF PhaseInv
    <3> PICK n : n = Len(Sent) + 1
      OBVIOUS
    <3>2. n \in 1..Len(Sent)' /\ Sent'[n].frame = "Presets"
      BY <1>1, <2>2, <2>3
    <3>3. EventsOnly({n})'
      BY <1>1, <2>3, <3>1 DEF EventsOnly
    <3>4. \E k \in 1..Len(Sent)' : Answer(k)'
      BY <3>2, <3>3 DEF Answer
    <3>5. QED
      BY <1>2, <2>1, <2>3, <2>5, <3>1, <3>4 DEF PhaseInv
  <2>6. QED
    BY <2>1, <2>4, <2>5
<1>7. CASE Subscribe
  <2>1. /\ tray = "Subscribe" /\ requests = <<"Subscribe">> /\ Len(Sent) = 0
        /\ served = "serving" /\ served' = "serving" /\ up
    BY <1>2, <1>3, <1>7 DEF Subscribe, Asks, PhaseInv, SessionInv, Exchange
  <2>2. feed' # None
    <3>1. [name \in Feed |-> <<>>] \in [Feed -> Seq(Event)]
      BY SeqFacts
    <3>2. QED
      BY <1>7, <3>1, AbsenceAssumption DEF Subscribe
  <2>3. Reply("Ack") \in Frame /\ Reply("Ack").frame = "Ack" /\ outbox' = Reply("Ack")
    BY <1>7, FrameFacts DEF Reply, Subscribe, Respond
  <2>4. requests' = <<>> /\ Len(Sent)' = 1 /\ Sent'[1].frame = "Ack"
    BY <1>2, <1>3, <2>1, <2>3, Answered
  <2>5. QED
    BY <1>2, <2>1, <2>2, <2>4 DEF PhaseInv, EventsOnly
<1>8. QED
  BY <1>4, <1>5, <1>6, <1>7

(* An event is taken from a broadcast.                                     *)
LEMMA EventTaken ==
  ASSUME WireInv, PhaseInv, NEW name \in Feed, Deliver(name)
  PROVE  LET f == [frame |-> "Event", event |-> Head(feed[name])]
             q == feed[name]
         IN  /\ f \in Frame /\ q \in Seq(Event) /\ Head(q) = q[1] /\ Len(q) > 0
             /\ Len(feed'[name]) = Len(q) - 1
             /\ \A i \in 1..Len(q) - 1 : feed'[name][i] = q[i+1]
             /\ \A other \in Feed : other # name => feed'[other] = feed[other]
             /\ feed # None /\ feed' # None
             /\ Len(Sent)' = Len(Sent) + 1 /\ Sent'[Len(Sent) + 1] = f
             /\ \A i \in 1..Len(Sent) : Sent'[i] = Sent[i]
<1> DEFINE q == feed[name]
           f == [frame |-> "Event", event |-> Head(q)]
<1>1. /\ feed # None /\ q # <<>> /\ outbox = None /\ outbox' = f
      /\ feed' = [feed EXCEPT ![name] = Tail(q)] /\ frames' = frames
  BY DEF Deliver, Idle, Respond
<1>2. q \in Seq(Event) /\ feed \in [Feed -> Seq(Event)]
  BY <1>1 DEF WireInv
<1>3. /\ Head(q) = q[1] /\ Len(q) > 0 /\ Head(q) \in Event
      /\ Len(Tail(q)) = Len(q) - 1
      /\ \A i \in 1..Len(Tail(q)) : Tail(q)[i] = q[i+1]
  <2> HIDE DEF q
  <2>1. QED
    BY <1>1, <1>2, QueueTaken
<1>4. Tail(q) \in Seq(Event)
  BY <1>1, <1>2, SeqFacts
<1>5. feed' \in [Feed -> Seq(Event)] /\ feed'[name] = Tail(q)
      /\ \A other \in Feed : other # name => feed'[other] = feed[other]
  BY <1>1, <1>2, <1>4
<1>6. f \in Frame
  BY <1>3, FrameFacts
<1>7. feed' # None /\ f # None
  BY <1>5, <1>6, AbsenceAssumption
<1>8. /\ Len(Sent)' = Len(Sent) + 1 /\ Sent'[Len(Sent) + 1] = f
      /\ \A i \in 1..Len(Sent) : Sent'[i] = Sent[i]
  <2> HIDE DEF f
  <2>1. QED
    BY <1>1, <1>6, <1>7, SentAdded
<1>9. QED
  BY <1>1, <1>2, <1>3, <1>5, <1>6, <1>7, <1>8

LEMMA PhaseDelivered ==
  ASSUME WireInv, PhaseInv, UNCHANGED tray, NEW name \in Feed, Deliver(name)
  PROVE  PhaseInv'
<1>1. /\ Len(Sent)' = Len(Sent) + 1 /\ Sent'[Len(Sent) + 1].frame = "Event"
      /\ \A i \in 1..Len(Sent) : Sent'[i] = Sent[i]
      /\ feed # None /\ feed' # None
  <2> DEFINE f == [frame |-> "Event", event |-> Head(feed[name])]
  <2>1. Sent'[Len(Sent) + 1] = f /\ f.frame = "Event"
    BY EventTaken
  <2> HIDE DEF f
  <2>2. QED
    BY <2>1, EventTaken
<1>2. Len(Sent) \in Nat
  BY SentSeq
<1>3. /\ served = "serving" /\ requests = <<>>
      /\ UNCHANGED <<served, requests, up>>
  BY DEF Deliver, Idle, daemon
<1>4. \A kept : EventsOnly(kept) => EventsOnly(kept)'
  BY <1>1, <1>2 DEF EventsOnly
<1>5. \A k \in 1..Len(Sent) : Answer(k) => k \in 1..Len(Sent)' /\ Answer(k)'
  BY <1>1, <1>2, <1>4 DEF Answer
<1>6. tray \in {"Subscribe", "Stream", "Refetch"}
  BY <1>1 DEF PhaseInv
<1>7. CASE tray = "Subscribe"
  BY <1>1, <1>2, <1>3, <1>4, <1>7 DEF PhaseInv
<1>8. CASE tray = "Stream"
  BY <1>1, <1>3, <1>4, <1>8 DEF PhaseInv
<1>9. CASE tray = "Refetch"
  <2>1. PICK k \in 1..Len(Sent) : Answer(k)
    BY <1>1, <1>3, <1>9 DEF PhaseInv
  <2>2. QED
    BY <1>1, <1>3, <1>5, <1>9, <2>1 DEF PhaseInv
<1>10. QED
  BY <1>6, <1>7, <1>8, <1>9

LEMMA PhaseWritten ==
  ASSUME WireInv, PhaseInv, UNCHANGED tray, Write
  PROVE  PhaseInv'
<1>1. Len(Sent)' = Len(Sent) /\ \A i \in 1..Len(Sent) : Sent'[i] = Sent[i]
  BY SentWritten
<1>2. Len(Sent) \in Nat
  BY SentSeq
<1>3. UNCHANGED <<served, requests, feed, up>> /\ served # "none"
  BY DEF Write, daemon, PhaseInv
<1>4. /\ \A kind : Only(kind)' <=> Only(kind)
      /\ \A kept : EventsOnly(kept)' <=> EventsOnly(kept)
  BY <1>1, <1>2 DEF Only, EventsOnly
<1>5. /\ \A request, kind : Exchange(request, kind)' <=> Exchange(request, kind)
      /\ \A k \in 1..Len(Sent) : Answer(k)' <=> Answer(k)
  BY <1>1, <1>2, <1>3, <1>4 DEF Exchange, Answer
<1>6. Len(Sent) > 0 => Sent'[1] = Sent[1]
  BY <1>1, <1>2
<1>7. QED
  BY <1>1, <1>3, <1>4, <1>5, <1>6 DEF PhaseInv

(* The tray reads a frame, and asks for the next.                          *)
LEMMA PhaseRead ==
  ASSUME WireInv, PhaseInv,
         \/ Greeted \/ SeedsStatus \/ SeedsPresets \/ Subscribed
         \/ Folds \/ HearsPresetsChanged \/ Skips \/ Refetched
  PROVE  PhaseInv'
<1>1. /\ frames # <<>> /\ frames' = Tail(frames) /\ outbox' = outbox
      /\ UNCHANGED <<served, feed, up>>
  BY DEF Greeted, SeedsStatus, SeedsPresets, Subscribed, Folds,
     HearsPresetsChanged, Skips, Refetched, Received, Asking, Reading, daemon
<1>2. /\ Len(Sent) \in Nat /\ Len(Sent) > 0 /\ Sent[1] = Head(frames)
      /\ Len(Sent)' = Len(Sent) - 1
      /\ \A i \in 1..Len(Sent)' : Sent'[i] = Sent[i+1]
  BY <1>1, SentSeq, SentRead
<1>3. CASE served = "none"
  <2>1. requests' = requests
    BY <1>3 DEF Greeted, SeedsStatus, SeedsPresets, Subscribed, Folds,
       HearsPresetsChanged, Skips, Refetched, Asking, Reading
  <2>2. QED
    BY <1>1, <1>3, <2>1 DEF PhaseInv
<1>4. CASE served # "none"
  <2>1. served = "serving"
    BY <1>2, <1>4 DEF PhaseInv, WireInv
  <2>2. \A r \in Request : Asking(r) /\ requests = <<>> => requests' = <<r>>
    BY <1>4 DEF Asking
  <2>3. EventsOnly({}) => EventsOnly({})' /\ Sent[1].frame = "Event"
    BY <1>2 DEF EventsOnly
  <2>4. EventsOnly({1}) => EventsOnly({})'
    BY <1>2 DEF EventsOnly
  <2>5. CASE Greeted
    <3>1. tray = "Hello" /\ requests = <<>> /\ Len(Sent) = 1 /\ feed = None
      BY <2>1, <2>5 DEF Greeted, PhaseInv, Only
    <3>2. tray' = "Status" /\ requests' = <<"GetStatus">> /\ Len(Sent)' = 0
      BY <1>2, <2>2, <2>5, <3>1 DEF Greeted, Request
    <3>3. QED
      BY <1>1, <2>1, <3>1, <3>2 DEF PhaseInv, Exchange
  <2>6. CASE SeedsStatus
    <3>1. tray = "Status" /\ requests = <<>> /\ Len(Sent) = 1 /\ feed = None
      BY <1>2, <2>1, <2>6 DEF SeedsStatus, PhaseInv, Exchange, Only
    <3>2. tray' = "Presets" /\ requests' = <<"ListPresets">> /\ Len(Sent)' = 0
      BY <1>2, <2>2, <2>6, <3>1 DEF SeedsStatus, Request
    <3>3. QED
      BY <1>1, <2>1, <3>1, <3>2 DEF PhaseInv, Exchange
  <2>7. CASE SeedsPresets
    <3>1. tray = "Presets" /\ requests = <<>> /\ Len(Sent) = 1 /\ feed = None
      BY <1>2, <2>1, <2>7 DEF SeedsPresets, PhaseInv, Exchange, Only
    <3>2. tray' = "Subscribe" /\ requests' = <<"Subscribe">> /\ Len(Sent)' = 0
      BY <1>2, <2>2, <2>7, <3>1 DEF SeedsPresets, Request
    <3>3. QED
      BY <1>1, <2>1, <3>1, <3>2 DEF PhaseInv
  <2>8. CASE Subscribed
    <3>1. tray = "Subscribe" /\ requests = <<>> /\ feed # None /\ EventsOnly({1})
      BY <1>2, <2>1, <2>8 DEF Subscribed, PhaseInv
    <3>2. tray' = "Stream" /\ requests' = <<>>
      BY <2>8, <3>1 DEF Subscribed, Reading
    <3>3. QED
      BY <1>1, <2>1, <2>4, <3>1, <3>2 DEF PhaseInv
  <2>9. CASE Folds
    <3>1. tray = "Stream" /\ requests = <<>> /\ feed # None /\ EventsOnly({})
      BY <2>1, <2>9 DEF Folds, PhaseInv
    <3>2. tray' = "Stream" /\ requests' = <<>>
      BY <2>9, <3>1 DEF Folds, Reading
    <3>3. QED
      BY <1>1, <2>1, <2>3, <3>1, <3>2 DEF PhaseInv
  <2>10. CASE HearsPresetsChanged
    <3>1. tray = "Stream" /\ requests = <<>> /\ feed # None /\ EventsOnly({})
      BY <2>1, <2>10 DEF HearsPresetsChanged, PhaseInv
    <3>2. tray' = "Refetch" /\ requests' = <<"ListPresets">>
      BY <2>2, <2>10, <3>1 DEF HearsPresetsChanged, Request
    <3>3. QED
      BY <1>1, <2>1, <2>3, <3>1, <3>2 DEF PhaseInv
  <2>11. CASE Skips
    <3>1. /\ tray = "Refetch" /\ tray' = "Refetch" /\ requests' = requests
          /\ feed # None /\ Sent[1].frame = "Event"
      BY <1>2, <2>1, <2>11 DEF Skips, Received, Reading, PhaseInv
    <3>2. CASE requests = <<"ListPresets">> /\ EventsOnly({})
      BY <1>1, <2>1, <2>3, <3>1, <3>2 DEF PhaseInv
    <3>3. CASE requests = <<>> /\ \E k \in 1..Len(Sent) : Answer(k)
      <4>1. PICK k \in 1..Len(Sent) : Answer(k)
        BY <3>3
      <4>2. k # 1 /\ Sent[k].frame = "Presets" /\ EventsOnly({k})
        BY <3>1, <4>1 DEF Answer
      <4>3. k - 1 \in 1..Len(Sent)' /\ Answer(k - 1)'
        <5>1. k - 1 \in 1..Len(Sent)' /\ Sent'[k - 1].frame = "Presets"
          BY <1>2, <4>1, <4>2
        <5>2. EventsOnly({k - 1})'
          BY <1>2, <4>1, <4>2 DEF EventsOnly
        <5>3. QED
          BY <5>1, <5>2 DEF Answer
      <4>4. QED
        BY <1>1, <2>1, <3>1, <3>3, <4>3 DEF PhaseInv
    <3>4. QED
      BY <2>1, <3>1, <3>2, <3>3 DEF PhaseInv
  <2>12. CASE Refetched
    <3>1. /\ tray = "Refetch" /\ tray' = "Stream" /\ requests' = requests
          /\ feed # None /\ Sent[1].frame = "Presets"
      BY <1>2, <2>1, <2>12 DEF Refetched, Received, Reading, PhaseInv
    <3>2. requests = <<>> /\ \E k \in 1..Len(Sent) : Answer(k)
      BY <2>1, <2>3, <3>1 DEF PhaseInv
    <3>3. PICK k \in 1..Len(Sent) : Answer(k)
      BY <3>2
    <3>4. k = 1 /\ EventsOnly({k})
      BY <1>2, <3>1, <3>3 DEF Answer, EventsOnly
    <3>5. QED
      BY <1>1, <2>1, <2>4, <3>1, <3>2, <3>4 DEF PhaseInv
  <2>13. QED
    BY <2>5, <2>6, <2>7, <2>8, <2>9, <2>10, <2>11, <2>12
<1>5. QED
  BY <1>3, <1>4
(* The phases are kept by every step.                                      *)
LEMMA PhaseStep ==
  ASSUME LinkInv, PhaseInv, LinkNext
  PROVE  PhaseInv'
<1>1. RelayInv /\ DaemonInv /\ WireInv /\ SessionInv
  BY LinkParts
<1>2. CASE Connects \/ Loses \/ DaemonDies
  <2>1. CASE Connects
    <3>1. outbox = None /\ outbox' = None /\ feed' = None /\ up'
      BY <2>1 DEF Connects, PhaseInv, daemon
    <3>2. Sent' = <<>> \o <<>>
      BY <2>1, <3>1 DEF Connects, Sent
    <3>3. Len(Sent)' = 0
      BY <3>2
    <3>4. QED
      BY <2>1, <3>1, <3>3 DEF Connects, PhaseInv
  <2>2. CASE Loses
    BY <2>2 DEF Loses, PhaseInv, controlVars, connection, daemon
  <2>3. CASE DaemonDies
    BY <2>3 DEF DaemonDies, PhaseInv
  <2>4. QED
    BY <1>2, <2>1, <2>2, <2>3
<1>3. CASE \/ (StateMoves \/ KanataMoves \/ DaemonStarts) /\ UNCHANGED tray
           \/ PresetsMoved \/ ConfigMoved \/ RelayMoved
  BY <1>3, PhaseFrame
  DEF StateMoves, KanataMoves, DaemonStarts, PresetsMoved, PresetsMove, ConfigMoved,
      ConfigMoves, RelayMoved, RelayElse, Moves, connection, daemon, PhaseInv
<1>4. ASSUME UNCHANGED <<served, requests, outbox, frames, tray, up>>,
             feed' = feed \/ \E name \in Feed, e \in Event : Broadcast(name, e)
      PROVE  PhaseInv'
  <2>1. ASSUME NEW name \in Feed, NEW e \in Event, Broadcast(name, e)
        PROVE  feed' = None <=> feed = None
    <3>1. CASE feed = None
      BY <2>1, <3>1 DEF Broadcast
    <3>2. CASE feed # None
      <4>1. feed' = [feed EXCEPT ![name] = Push(feed[name], e)]
        BY <2>1, <3>2 DEF Broadcast
      <4>2. feed \in [Feed -> Seq(Event)]
        BY <1>1, <3>2 DEF WireInv
      <4>3. feed' \in [Feed -> Seq(Event)] \/ feed' = None
        BY <2>1, <4>2, BroadcastType
      <4>4. DOMAIN feed' = Feed
        BY <4>1, <4>2
      <4>5. Push(feed[name], e) \in Seq(Event)
        BY <4>2, PushType
      <4>6. feed' \in [Feed -> Seq(Event)]
        BY <4>1, <4>2, <4>5
      <4>7. QED
        BY <3>2, <4>6, AbsenceAssumption
    <3>3. QED
      BY <3>1, <3>2
  <2>2. feed' = None <=> feed = None
    BY <1>4, <2>1
  <2>3. up \/ served = "none"
    BY DEF PhaseInv
  <2>4. QED
    BY <1>4, <2>2, <2>3, PhaseFrame
<1>5. CASE StateSent /\ UNCHANGED tray
  <2>1. [event |-> "StateChanged", to |-> state] \in Event
    BY <1>1, EventFacts DEF RelayInv, RelayTypeOK
  <2>2. QED
    BY <1>4, <1>5, <2>1 DEF StateSent, daemon, Feed
<1>6. CASE LayerMoved
  <2>1. Head(wire) \in Layer
    BY <1>1, <1>6, SeqFacts DEF LayerMoved, LayerNamed, SetLayer, RelayInv, RelayTypeOK
  <2>2. [event |-> "LayerChanged", layer |-> layer'] \in Event
    BY <1>6, <2>1, EventFacts DEF LayerMoved, LayerNamed, SetLayer
  <2>3. QED
    BY <1>4, <1>6, <2>2 DEF LayerMoved, LayerNamed, daemon, Feed
<1>7. CASE \E e \in unsaid : Announced(e)
  <2>1. PICK e \in unsaid : Announced(e)
    BY <1>7
  <2>2. e \in Event
    BY <1>1, <2>1, EventFacts DEF DaemonInv
  <2>3. QED
    BY <1>4, <2>1, <2>2 DEF Announced, Announce, Feed
<1>8. CASE \/ (Greet \/ GetStatus) /\ UNCHANGED tray
           \/ SubscribeServed \/ ListServed
  BY <1>1, <1>8, PhaseServed DEF SubscribeServed, ListServed
<1>9. CASE (DeliverState \/ DeliverLayer \/ DeliverBus) /\ UNCHANGED tray
  BY <1>1, <1>9, PhaseDelivered DEF DeliverState, DeliverLayer, DeliverBus, Feed
<1>10. CASE Write /\ UNCHANGED tray
  BY <1>1, <1>10, PhaseWritten
<1>11. CASE TraySteps
  BY <1>1, <1>2, <1>11, PhaseRead DEF TraySteps
<1>12. QED
  BY <1>2, <1>3, <1>5, <1>6, <1>7, <1>8, <1>9, <1>10, <1>11
  DEF LinkNext, DaemonElse, trayVars

(* What an event is pushed on, and what stays.                             *)
LEMMA Broadcasts ==
  ASSUME WireInv, NEW name \in Feed, NEW e \in Event, feed # None,
         Broadcast(name, e)
  PROVE  /\ feed[name] \in Seq(Event)
         /\ feed'[name] = Push(feed[name], e)
         /\ \A other \in Feed : other # name => feed'[other] = feed[other]
BY DEF Broadcast, WireInv

(* The broadcasts do not mix.                                              *)
LEMMA FeedStep ==
  ASSUME LinkInv, PhaseInv, FeedInv, LinkNext
  PROVE  FeedInv'
<1>1. RelayInv /\ DaemonInv /\ WireInv /\ SessionInv
  BY LinkParts
<1> SUFFICES ASSUME feed' # None
             PROVE  /\ \A i \in 1..Len(feed'.states) :
                         feed'.states[i].event = "StateChanged"
                    /\ \A i \in 1..Len(feed'.layers) :
                         feed'.layers[i].event = "LayerChanged"
                    /\ \A i \in 1..Len(feed'.bus) :
                         feed'.bus[i].event \in {"PresetsChanged", "ConfigApplied"}
  BY DEF FeedInv
<1>2. CASE UNCHANGED feed
  BY <1>2 DEF FeedInv
<1>3. ASSUME NEW name \in Feed, NEW e \in Event, Broadcast(name, e), feed # None,
             NEW kinds, e.event \in kinds,
             \A i \in 1..Len(feed[name]) : feed[name][i].event \in kinds
      PROVE  /\ \A i \in 1..Len(feed'[name]) : feed'[name][i].event \in kinds
             /\ \A other \in Feed : other # name => feed'[other] = feed[other]
  <2> DEFINE q == feed[name]
             r == Push(q, e)
  <2>1. q \in Seq(Event) /\ feed'[name] = r
        /\ \A other \in Feed : other # name => feed'[other] = feed[other]
    BY <1>1, <1>3, Broadcasts
  <2>2. Len(q) \in Nat /\ \A i \in 1..Len(q) : q[i].event \in kinds
    BY <1>3, <2>1
  <2> HIDE DEF q
  <2>3. /\ Len(r) > 0 /\ r[Len(r)] = e
        /\ \/ /\ Len(r) = Len(q) + 1 /\ \A i \in 1..Len(q) : r[i] = q[i]
           \/ /\ Len(q) > 0 /\ Len(r) = Len(q)
              /\ \A i \in 1..Len(q) - 1 : r[i] = q[i+1]
    BY <2>1, QueuePushed
  <2> HIDE DEF r
  <2>4. \A i \in 1..Len(r) : r[i].event \in kinds
    <3> SUFFICES ASSUME NEW i \in 1..Len(r) PROVE r[i].event \in kinds
      OBVIOUS
    <3>1. CASE i = Len(r)
      BY <1>3, <2>3, <3>1
    <3>2. CASE i # Len(r)
      BY <2>2, <2>3, <3>2
    <3>3. QED
      BY <3>1, <3>2
  <2>5. QED
    BY <2>1, <2>4
<1>4. CASE StateSent /\ feed # None
  <2> DEFINE e == [event |-> "StateChanged", to |-> state]
  <2>1. e \in Event /\ e.event \in {"StateChanged"}
    BY <1>1, EventFacts DEF RelayInv, RelayTypeOK
  <2>2. Broadcast("states", e)
    BY <1>4 DEF StateSent
  <2> HIDE DEF e
  <2>3. QED
    BY <1>3, <1>4, <2>1, <2>2 DEF FeedInv, Feed
<1>5. CASE LayerMoved /\ feed # None
  <2> DEFINE e == [event |-> "LayerChanged", layer |-> layer']
  <2>1. Head(wire) \in Layer
    BY <1>1, <1>5, SeqFacts DEF LayerMoved, LayerNamed, SetLayer, RelayInv, RelayTypeOK
  <2>2. e \in Event /\ e.event \in {"LayerChanged"}
    BY <1>5, <2>1, EventFacts DEF LayerMoved, LayerNamed, SetLayer
  <2>3. UNCHANGED feed \/ Broadcast("layers", e)
    BY <1>5 DEF LayerMoved, LayerNamed
  <2> HIDE DEF e
  <2>4. QED
    BY <1>2, <1>3, <1>5, <2>2, <2>3 DEF FeedInv, Feed
<1>6. CASE (\E e \in unsaid : Announced(e)) /\ feed # None
  <2>1. PICK e \in unsaid : Announced(e)
    BY <1>6
  <2>2. e \in Event /\ e.event \in {"PresetsChanged", "ConfigApplied"}
    BY <1>1, <2>1, EventFacts DEF DaemonInv, BusEvent
  <2>3. Broadcast("bus", e)
    BY <2>1 DEF Announced, Announce
  <2>4. QED
    BY <1>3, <1>6, <2>2, <2>3 DEF FeedInv, Feed
<1>7. CASE SubscribeServed
  <2>1. feed' = [name \in Feed |-> <<>>]
    BY <1>7 DEF SubscribeServed, Subscribe
  <2>2. feed'.states = <<>> /\ feed'.layers = <<>> /\ feed'.bus = <<>>
    BY <2>1 DEF Feed
  <2>3. QED
    BY <2>2
<1>8. CASE DeliverState \/ DeliverLayer \/ DeliverBus
  <2>1. PICK name \in Feed : Deliver(name)
    BY <1>8 DEF DeliverState, DeliverLayer, DeliverBus, Feed
  <2> DEFINE q == feed[name]
  <2>2. /\ q \in Seq(Event) /\ Len(q) > 0
        /\ Len(feed'[name]) = Len(q) - 1
        /\ \A i \in 1..Len(q) - 1 : feed'[name][i] = q[i+1]
        /\ \A other \in Feed : other # name => feed'[other] = feed[other]
        /\ feed # None
    BY <1>1, <2>1, EventTaken
  <2>3. \A i \in 1..Len(feed'[name]) : i+1 \in 1..Len(q) /\ feed'[name][i] = q[i+1]
    <3> HIDE DEF q
    <3>1. QED
      BY <2>2
  <2>4. CASE name = "states"
    BY <2>2, <2>3, <2>4 DEF FeedInv, Feed
  <2>5. CASE name = "layers"
    BY <2>2, <2>3, <2>5 DEF FeedInv, Feed
  <2>6. CASE name = "bus"
    BY <2>2, <2>3, <2>6 DEF FeedInv, Feed
  <2>7. QED
    BY <2>4, <2>5, <2>6 DEF Feed
<1>9. CASE DaemonDies
  BY <1>9 DEF DaemonDies
<1>10. CASE feed = None /\ (StateSent \/ LayerMoved \/ \E e \in unsaid : Announced(e))
  BY <1>10 DEF StateSent, LayerMoved, LayerNamed, Announced, Announce, Broadcast
<1>11. CASE TraySteps
  BY <1>2, <1>11 DEF TraySteps, Connects, Greeted, SeedsStatus, SeedsPresets,
     Subscribed, Folds, HearsPresetsChanged, Skips, Refetched, Loses, Asking,
     Reading, controlVars, connection
<1>12. CASE \/ ListServed \/ PresetsMoved \/ ConfigMoved \/ RelayMoved
            \/ StateMoves \/ KanataMoves \/ Greet \/ GetStatus \/ Write
            \/ DaemonStarts
  BY <1>2, <1>12 DEF ListServed, ListPresets, PresetsMoved, PresetsMove, ConfigMoved,
     ConfigMoves, RelayMoved, RelayElse, StateMoves, KanataMoves, Greet, GetStatus,
     Write, DaemonStarts, connection
<1>13. QED
  BY <1>4, <1>5, <1>6, <1>7, <1>8, <1>9, <1>10, <1>11, <1>12
  DEF LinkNext, DaemonElse
(* The state and the layer.                                                *)
LEMMA TellsKept ==
  ASSUME NEW name \in Fact, Tells(name), Len(Sent) \in Nat, Len(Sent)' \in Nat,
         Len(Sent)' >= Len(Sent), \A i \in 1..Len(Sent) : Sent'[i] = Sent[i],
         \A i \in 1..Len(Sent)' : i > Len(Sent) => ~About(name, Sent'[i]),
         feed'[name] = feed[name], InSession(name)' = InSession(name),
         InDaemon(name)' = InDaemon(name)
  PROVE  Tells(name)'
<1>1. LastOnWire(name) => LastOnWire(name)'
  <2>1. ASSUME NEW i \in 1..Len(Sent), About(name, Sent[i]),
               Value(Sent[i].event) = InDaemon(name),
               \A j \in 1..Len(Sent) : j > i => ~About(name, Sent[j])
        PROVE  LastOnWire(name)'
    <3>1. i \in 1..Len(Sent)' /\ Sent'[i] = Sent[i]
      BY <2>1
    <3>2. \A j \in 1..Len(Sent)' : j > i => ~About(name, Sent'[j])
      <4> SUFFICES ASSUME NEW j \in 1..Len(Sent)', j > i PROVE ~About(name, Sent'[j])
        OBVIOUS
      <4>1. CASE j > Len(Sent)
        BY <4>1
      <4>2. CASE ~(j > Len(Sent))
        BY <2>1, <4>2
      <4>3. QED
        BY <4>1, <4>2
    <3>3. About(name, Sent'[i]) /\ Value(Sent'[i].event) = InDaemon(name)'
      BY <2>1, <3>1
    <3>4. QED
      BY <3>1, <3>2, <3>3 DEF LastOnWire
  <2>2. ASSUME \A i \in 1..Len(Sent) : ~About(name, Sent[i]),
               InSession(name) = InDaemon(name)
        PROVE  LastOnWire(name)'
    <3>1. \A i \in 1..Len(Sent)' : ~About(name, Sent'[i])
      <4> SUFFICES ASSUME NEW i \in 1..Len(Sent)' PROVE ~About(name, Sent'[i])
        OBVIOUS
      <4>1. CASE i > Len(Sent)
        BY <4>1
      <4>2. CASE ~(i > Len(Sent))
        BY <2>2, <4>2
      <4>3. QED
        BY <4>1, <4>2
    <3>2. QED
      BY <2>2, <3>1 DEF LastOnWire
  <2>3. QED
    BY <2>1, <2>2 DEF LastOnWire
<1>2. QED
  BY <1>1 DEF Tells

(* Pushed, the event is the last of its broadcast.                         *)
LEMMA TellsPushed ==
  ASSUME WireInv, NEW name \in Fact, NEW e \in Event, feed # None,
         Broadcast(name, e), Value(e) = InDaemon(name)'
  PROVE  Tells(name)'
<1> DEFINE q == feed[name]
           r == Push(q, e)
<1>1. q \in Seq(Event) /\ feed'[name] = r
  BY Broadcasts DEF Fact, Feed
<1> HIDE DEF q
<1>2. Len(r) > 0 /\ r[Len(r)] = e
  BY <1>1, QueuePushed
<1> HIDE DEF r
<1>3. QED
  BY <1>1, <1>2 DEF Tells

(* Delivered, the event is the last frame of the socket.                   *)
LEMMA TellsDelivered ==
  ASSUME WireInv, PhaseInv, FeedInv, NEW name \in Fact, Tells(name),
         Deliver(name), UNCHANGED session
  PROVE  Tells(name)'
<1> DEFINE q == feed[name]
           f == [frame |-> "Event", event |-> Head(q)]
<1>1. /\ q \in Seq(Event) /\ Head(q) = q[1] /\ Len(q) > 0
      /\ Len(feed'[name]) = Len(q) - 1
      /\ \A i \in 1..Len(q) - 1 : feed'[name][i] = q[i+1]
      /\ feed # None
      /\ Len(Sent)' = Len(Sent) + 1 /\ Sent'[Len(Sent) + 1] = f
  BY EventTaken DEF Fact, Feed
<1>2. f.frame = "Event" /\ f.event = Head(q) /\ Len(Sent) \in Nat
  BY SentSeq
<1>3. Value(q[Len(q)]) = InDaemon(name) /\ InDaemon(name)' = InDaemon(name)
  BY <1>1 DEF Tells, Deliver, relayVars, supervisor, InDaemon
<1>4. Head(q).event = KindOf(name)
  <2>1. name = "states" => Head(q).event = "StateChanged"
    BY <1>1 DEF FeedInv
  <2>2. name = "layers" => Head(q).event = "LayerChanged"
    BY <1>1 DEF FeedInv
  <2>3. QED
    BY <2>1, <2>2 DEF KindOf, Fact
<1> HIDE DEF f, q
<1>5. CASE Len(q) = 1
  <2>1. Len(feed'[name]) = 0
    BY <1>1, <1>5
  <2>2. PICK n : n = Len(Sent) + 1
    OBVIOUS
  <2>3. n \in 1..Len(Sent)' /\ Sent'[n] = f /\ \A j \in 1..Len(Sent)' : ~(j > n)
    BY <1>1, <1>2, <2>2
  <2>4. About(name, Sent'[n]) /\ Value(Sent'[n].event) = InDaemon(name)'
    BY <1>1, <1>2, <1>3, <1>4, <1>5, <2>3 DEF About
  <2>5. LastOnWire(name)'
    BY <2>3, <2>4 DEF LastOnWire
  <2>6. QED
    BY <2>1, <2>5 DEF Tells
<1>6. CASE Len(q) # 1
  <2> PICK n : n = Len(q)
    OBVIOUS
  <2>1. n \in Nat /\ n > 1 /\ Len(feed'[name]) = n - 1
    BY <1>1, <1>6
  <2>2. n - 1 \in 1..n - 1 /\ n - 1 + 1 = n
    BY <2>1
  <2>3. feed'[name][n - 1] = q[n]
    BY <1>1, <2>2
  <2>4. QED
    BY <1>3, <2>1, <2>3 DEF Tells
<1>7. QED
  BY <1>5, <1>6

(* Read, an event that nothing follows is what the session shows.          *)
LEMMA TellsRead ==
  ASSUME WireInv, NEW name \in Fact, Tells(name), frames # <<>>,
         frames' = Tail(frames), outbox' = outbox, feed'[name] = feed[name],
         InDaemon(name)' = InDaemon(name),
         ~About(name, Sent[1]) => InSession(name)' = InSession(name),
         About(name, Sent[1]) =>
           \/ InSession(name)' = Value(Sent[1].event)
           \/ Len(feed[name]) > 0
           \/ \E i \in 2..Len(Sent) : About(name, Sent[i])
  PROVE  Tells(name)'
<1>1. /\ Len(Sent) \in Nat /\ Len(Sent) > 0
      /\ Len(Sent)' = Len(Sent) - 1
      /\ \A i \in 1..Len(Sent)' : Sent'[i] = Sent[i+1]
  BY SentSeq, SentRead
<1>2. CASE Len(feed[name]) > 0
  BY <1>2 DEF Tells
<1>3. CASE ~(Len(feed[name]) > 0) /\ LastOnWire(name)
  <2>1. ASSUME NEW i \in 2..Len(Sent), About(name, Sent[i]),
               Value(Sent[i].event) = InDaemon(name),
               \A j \in 1..Len(Sent) : j > i => ~About(name, Sent[j])
        PROVE  LastOnWire(name)'
    <3>1. PICK k : k = i - 1
      OBVIOUS
    <3>2. k \in 1..Len(Sent)' /\ Sent'[k] = Sent[i]
      BY <1>1, <3>1
    <3>3. \A j \in 1..Len(Sent)' : j > k => ~About(name, Sent'[j])
      <4> SUFFICES ASSUME NEW j \in 1..Len(Sent)', j > k PROVE ~About(name, Sent'[j])
        OBVIOUS
      <4>1. j + 1 \in 1..Len(Sent) /\ j + 1 > i /\ Sent'[j] = Sent[j+1]
        BY <1>1, <3>1
      <4>2. QED
        BY <2>1, <4>1
    <3>4. About(name, Sent'[k]) /\ Value(Sent'[k].event) = InDaemon(name)'
      BY <2>1, <3>2
    <3>5. QED
      BY <3>2, <3>3, <3>4 DEF LastOnWire
  <2>2. ASSUME \A j \in 2..Len(Sent) : ~About(name, Sent[j]),
               InSession(name)' = InDaemon(name)
        PROVE  LastOnWire(name)'
    <3>1. \A j \in 1..Len(Sent)' : ~About(name, Sent'[j])
      <4> SUFFICES ASSUME NEW j \in 1..Len(Sent)' PROVE ~About(name, Sent'[j])
        OBVIOUS
      <4>1. j + 1 \in 2..Len(Sent) /\ Sent'[j] = Sent[j+1]
        BY <1>1
      <4>2. QED
        BY <2>2, <4>1
    <3>2. QED
      BY <2>2, <3>1 DEF LastOnWire
  <2>3. LastOnWire(name)'
    <3>1. CASE \E i \in 1..Len(Sent) :
                 /\ About(name, Sent[i]) /\ Value(Sent[i].event) = InDaemon(name)
                 /\ \A j \in 1..Len(Sent) : j > i => ~About(name, Sent[j])
      <4>1. PICK i \in 1..Len(Sent) :
              /\ About(name, Sent[i]) /\ Value(Sent[i].event) = InDaemon(name)
              /\ \A j \in 1..Len(Sent) : j > i => ~About(name, Sent[j])
        BY <3>1
      <4>2. CASE i = 1
        <5>1. \A j \in 2..Len(Sent) : ~About(name, Sent[j])
          BY <1>1, <4>1, <4>2
        <5>2. InSession(name)' = InDaemon(name)
          BY <1>3, <4>1, <4>2, <5>1
        <5>3. QED
          BY <2>2, <5>1, <5>2
      <4>3. CASE i # 1
        <5>1. i \in 2..Len(Sent)
          BY <1>1, <4>3
        <5>2. QED
          BY <2>1, <4>1, <5>1
      <4>4. QED
        BY <4>2, <4>3
    <3>2. CASE /\ \A i \in 1..Len(Sent) : ~About(name, Sent[i])
               /\ InSession(name) = InDaemon(name)
      <4>1. 1 \in 1..Len(Sent) /\ \A j \in 2..Len(Sent) : j \in 1..Len(Sent)
        BY <1>1
      <4>2. InSession(name)' = InDaemon(name)
        BY <3>2, <4>1
      <4>3. QED
        BY <2>2, <3>2, <4>1, <4>2
    <3>3. QED
      BY <1>3, <3>1, <3>2 DEF LastOnWire
  <2>4. QED
    BY <1>3, <2>3 DEF Tells
<1>4. QED
  BY <1>2, <1>3 DEF Tells

(* What a reply leaves of the state and the layer.                         *)
LEMMA FactServed ==
  ASSUME LinkInv, PhaseInv, FactInv, NEW name \in Fact, Due(name)', feed' # None,
         SubscribeServed \/ ListServed \/ ((Greet \/ GetStatus) /\ UNCHANGED trayVars)
  PROVE  Tells(name)'
<1>1. RelayInv /\ DaemonInv /\ WireInv /\ SessionInv
  BY LinkParts
<1>2. Len(Sent) \in Nat
  BY <1>1, SentSeq
<1>3. /\ Head(<<"Subscribe">>) = "Subscribe" /\ Head(<<"GetStatus">>) = "GetStatus"
      /\ Head(<<"ListPresets">>) = "ListPresets" /\ Head(<<"Hello">>) = "Hello"
  OBVIOUS
<1>4. CASE SubscribeServed
  <2>1. /\ tray = "Subscribe" /\ requests = <<"Subscribe">> /\ Len(Sent) = 0
        /\ Head(requests) = "Subscribe" /\ outbox = None /\ requests # <<>>
    BY <1>1, <1>3, <1>4
    DEF SubscribeServed, Subscribe, Asks, PhaseInv, SessionInv, Exchange
  <2>2. /\ Reply("Ack") \in Frame /\ Reply("Ack").frame = "Ack"
        /\ outbox' = Reply("Ack")
    BY <1>4, FrameFacts DEF Reply, SubscribeServed, Subscribe, Respond
  <2>3. Len(Sent)' = 1 /\ Sent'[1] = Reply("Ack")
    BY <1>1, <1>4, <2>1, <2>2, Answered DEF SubscribeServed, Subscribe, Asks
  <2>4. session # None /\ UNCHANGED <<session, state, layer, announced>>
    BY <1>1, <1>4, <2>1
    DEF SessionInv, NothingStale, SubscribeServed, Subscribe, relayVars, supervisor
  <2>5. "state" \in Facet /\ "layer" \in Facet
    BY DEF Facet
  <2>6. FacetNamed(name) \notin Differs /\ (name = "states" => announced)
    BY <1>4, <2>4 DEF SubscribeServed, Due
  <2>7. InSession(name) = InDaemon(name)
    <3>1. name = "states" => session.state = state
      BY <2>4, <2>5, <2>6 DEF Differs, FacetNamed
    <3>2. name = "layers" => session.layer = layer
      BY <2>4, <2>5, <2>6 DEF Differs, FacetNamed
    <3>3. QED
      BY <3>1, <3>2 DEF Fact, InSession, InDaemon
  <2>8. InSession(name)' = InDaemon(name)'
    BY <2>4, <2>7 DEF InSession, InDaemon
  <2>9. LastOnWire(name)'
    BY <2>2, <2>3, <2>8 DEF LastOnWire, About
  <2>10. feed'[name] = <<>>
    BY <1>4 DEF SubscribeServed, Subscribe, Fact, Feed
  <2>11. QED
    BY <2>9, <2>10 DEF Tells
<1>5. CASE ListServed
  <2> DEFINE f == [frame |-> "Presets", list |-> list, active |-> active]
  <2>1. /\ f \in Frame /\ f.frame = "Presets" /\ outbox' = f /\ outbox = None
        /\ UNCHANGED <<frames, feed, session, state, layer, announced>>
    BY <1>1, <1>5, FrameFacts
    DEF DaemonInv, ListServed, ListPresets, Asks, Respond, relayVars, supervisor
  <2> HIDE DEF f
  <2>2. f # None
    BY <2>1, AbsenceAssumption
  <2>3. /\ Len(Sent)' = Len(Sent) + 1 /\ Sent'[Len(Sent) + 1] = f
        /\ \A i \in 1..Len(Sent) : Sent'[i] = Sent[i]
    BY <1>1, <2>1, <2>2, SentAdded
  <2>4. \A i \in 1..Len(Sent)' : i > Len(Sent) => ~About(name, Sent'[i])
    BY <1>2, <2>1, <2>3 DEF About
  <2>5. feed # None /\ missed' = missed \ Told /\ "state" \notin Told /\ "layer" \notin Told
    BY <1>5, <2>1 DEF ListServed, Told
  <2>6. Due(name)
    BY <2>1, <2>5 DEF Due, FacetNamed
  <2>7. Tells(name)
    BY <2>5, <2>6 DEF FactInv
  <2>8. InSession(name)' = InSession(name) /\ InDaemon(name)' = InDaemon(name)
    BY <2>1 DEF InSession, InDaemon
  <2>9. QED
    BY <1>2, <2>1, <2>3, <2>4, <2>7, <2>8, TellsKept
<1>6. CASE (Greet \/ GetStatus) /\ UNCHANGED trayVars
  <2>1. served \in {"greeting", "serving"} /\ feed' = feed
        /\ (GetStatus => served = "serving" /\ requests # <<>> /\ Head(requests) = "GetStatus")
        /\ (Greet => served = "greeting")
    BY <1>6 DEF Greet, GetStatus, Asks
  <2>2. feed = None
    BY <1>1, <1>3, <2>1, <1>6 DEF PhaseInv, SessionInv, Exchange
  <2>3. QED
    BY <2>1, <2>2
<1>7. QED
  BY <1>4, <1>5, <1>6

(* What reading a frame leaves of the state and the layer.                 *)
LEMMA FactRead ==
  ASSUME LinkInv, PhaseInv, FeedInv, FactInv, NEW name \in Fact, Due(name)',
         feed' # None, TraySteps
  PROVE  Tells(name)'
<1>1. RelayInv /\ DaemonInv /\ WireInv /\ SessionInv
  BY LinkParts
<1>2. CASE Connects \/ Greeted \/ SeedsStatus \/ SeedsPresets \/ Loses
  <2>1. feed' = feed
    BY <1>2 DEF Connects, Greeted, SeedsStatus, SeedsPresets, Loses, Asking,
       controlVars, connection
  <2>2. feed = None
    BY <1>2 DEF Connects, Greeted, SeedsStatus, SeedsPresets, Loses, PhaseInv
  <2>3. QED
    BY <2>1, <2>2
<1>3. CASE Subscribed \/ Folds \/ HearsPresetsChanged \/ Skips \/ Refetched
  <2>1. /\ frames # <<>> /\ frames' = Tail(frames) /\ outbox' = outbox
        /\ UNCHANGED <<feed, state, layer, announced>>
    BY <1>3 DEF Subscribed, Folds, HearsPresetsChanged, Skips, Refetched,
       Received, Asking, Reading, relayVars, supervisor
  <2>2. InDaemon(name)' = InDaemon(name)
    BY <2>1 DEF InDaemon
  <2>3. Due(name)
    <3>1. missed \subseteq missed'
      BY <1>3 DEF Subscribed, Folds, HearsPresetsChanged, Skips, Refetched
    <3>2. QED
      BY <2>1, <3>1 DEF Due
  <2>4. Tells(name)
    BY <2>1, <2>3 DEF FactInv
  <2>5. Sent[1] = Head(frames) /\ Len(Sent) \in Nat /\ Len(Sent) > 0
    BY <1>1, <2>1, SentSeq
  <2>6. session \in Session
    BY <1>1, <1>3 DEF SessionInv, NothingStale, Subscribed, Folds,
       HearsPresetsChanged, Skips, Refetched
  <2> DEFINE f == Sent[1]
  <2>7. f \in Frame
    BY <1>1, <2>5, SentSeq
  <2>8. CASE Subscribed \/ HearsPresetsChanged
    <3>1. ~About(name, f) /\ session' = session
      BY <2>5, <2>8 DEF About, KindOf, Subscribed, HearsPresetsChanged, Received
    <3>2. QED
      BY <1>1, <2>1, <2>2, <2>4, <3>1, TellsRead DEF InSession
  <2>9. CASE Refetched
    <3>1. ~About(name, f) /\ session' = WithPresets(f)
      BY <2>5, <2>9 DEF About, Refetched, Received
    <3>2. session'.state = session.state /\ session'.layer = session.layer
      BY <2>6, <3>1 DEF WithPresets, Session
    <3>3. QED
      BY <1>1, <2>1, <2>2, <2>4, <3>1, <3>2, TellsRead DEF InSession
  <2>10. CASE Folds
    <3> DEFINE e == f.event
    <3>1. f.frame = "Event" /\ e \in Event /\ session' = Apply(e)
      BY <2>5, <2>7, <2>10, FrameFields DEF Folds, Received
    <3> HIDE DEF f
    <3>2. ~About(name, f) => InSession(name)' = InSession(name)
      <4>1. e.event # "StateChanged" => session'.state = session.state
        BY <2>6, <3>1 DEF Apply, Session
      <4>2. e.event # "LayerChanged" => session'.layer = session.layer
        BY <2>6, <3>1 DEF Apply, Session
      <4>3. QED
        BY <3>1, <4>1, <4>2 DEF Fact, About, KindOf, InSession
    <3>3. About(name, f) => InSession(name)' = Value(e)
      <4>1. e.event = "StateChanged" => session'.state = e.to
        BY <2>6, <3>1 DEF Apply, Session
      <4>2. e.event = "LayerChanged" => session'.layer = e.layer
        BY <2>6, <3>1 DEF Apply, Session
      <4>3. QED
        BY <3>1, <4>1, <4>2 DEF Fact, About, KindOf, InSession, Value
    <3> USE DEF f
    <3>4. QED
      BY <1>1, <2>1, <2>2, <2>4, <3>2, <3>3, TellsRead
  <2>11. CASE Skips
    <3>1. InSession(name)' = InSession(name)
      BY <2>11 DEF Skips, InSession
    <3>2. ASSUME About(name, f)
          PROVE  \/ Len(feed[name]) > 0
                 \/ \E i \in 2..Len(Sent) : About(name, Sent[i])
      <4>1. FacetOf(f.event) = {FacetNamed(name)}
        BY <3>2 DEF About, KindOf, FacetOf, FacetNamed, Fact
      <4>2. FacetNamed(name) \in {"state", "layer"}
        BY DEF FacetNamed
      <4>3. InFlight(FacetNamed(name))
        BY <2>5, <2>11, <4>1, <4>2 DEF Skips, Due
      <4>4. CASE \E i \in 2..Len(Sent) :
                   Sent[i].frame = "Event" /\ FacetNamed(name) \in FacetOf(Sent[i].event)
        <5>1. PICK i \in 2..Len(Sent) :
                Sent[i].frame = "Event" /\ FacetNamed(name) \in FacetOf(Sent[i].event)
          BY <4>4
        <5>2. About(name, Sent[i])
          BY <5>1 DEF About, KindOf, FacetOf, FacetNamed, Fact
        <5>3. QED
          BY <5>2
      <4>5. CASE \E other \in Feed : \E i \in DOMAIN feed[other] :
                   FacetNamed(name) \in FacetOf(feed[other][i])
        <5>1. PICK other \in Feed : \E i \in DOMAIN feed[other] :
                FacetNamed(name) \in FacetOf(feed[other][i])
          BY <4>5
        <5>2. PICK i \in DOMAIN feed[other] : FacetNamed(name) \in FacetOf(feed[other][i])
          BY <5>1
        <5>3. feed[other] \in Seq(Event)
          BY <1>1, <2>1 DEF WireInv
        <5>4. i \in 1..Len(feed[other])
          BY <5>2, <5>3
        <5>5. other = name
          <6>1. feed[other][i].event = KindOf(name)
            BY <5>2 DEF FacetOf, FacetNamed, Fact, KindOf
          <6>2. QED
            BY <2>1, <5>4, <6>1 DEF FeedInv, Feed, Fact, KindOf
        <5>6. QED
          BY <5>3, <5>4, <5>5
      <4>6. QED
        BY <4>3, <4>4, <4>5 DEF InFlight
    <3>3. QED
      BY <1>1, <2>1, <2>2, <2>4, <3>1, <3>2, TellsRead
  <2>12. QED
    BY <1>3, <2>8, <2>9, <2>10, <2>11
<1>4. QED
  BY <1>2, <1>3 DEF TraySteps

(* What a broadcast leaves of them.                                        *)
LEMMA FactMoved ==
  ASSUME LinkInv, PhaseInv, FactInv, NEW name \in Fact, Due(name)', feed' # None,
         \/ StateSent /\ UNCHANGED trayVars
         \/ LayerMoved
         \/ \E e \in unsaid : Announced(e)
  PROVE  Tells(name)'
<1>1. RelayInv /\ DaemonInv /\ WireInv /\ SessionInv
  BY LinkParts
<1>2. /\ Sent' = Sent /\ Len(Sent) \in Nat
      /\ \A i \in 1..Len(Sent)' : ~(i > Len(Sent))
  <2>1. UNCHANGED <<frames, outbox>>
    BY DEF StateSent, LayerMoved, LayerNamed, Announced, Announce
  <2>2. Sent' = Sent /\ Len(Sent) \in Nat
    BY <1>1, <2>1, SentSeq DEF Sent
  <2>3. QED
    BY <2>2
<1>3. UNCHANGED session
  BY DEF LayerMoved, Announced, trayVars
<1>4. feed # None
  BY DEF StateSent, LayerMoved, LayerNamed, Announced, Announce, Broadcast
<1>5. ASSUME NEW other \in Feed, NEW e \in Event, Broadcast(other, e),
             other # name, InDaemon(name)' = InDaemon(name), Due(name)
      PROVE  Tells(name)'
  <2>1. feed'[name] = feed[name]
    BY <1>1, <1>4, <1>5, Broadcasts DEF Fact, Feed
  <2>2. Tells(name) /\ InSession(name)' = InSession(name)
    BY <1>3, <1>4, <1>5 DEF FactInv, InSession
  <2>3. QED
    BY <1>2, <1>5, <2>1, <2>2, TellsKept
<1>6. CASE StateSent /\ UNCHANGED trayVars
  <2> DEFINE e == [event |-> "StateChanged", to |-> state]
  <2>1. e \in Event /\ Value(e) = state
    BY <1>1, EventFacts DEF RelayInv, RelayTypeOK, Value
  <2>2. Broadcast("states", e) /\ UNCHANGED <<state, layer>>
    BY <1>6 DEF StateSent, Send
  <2> HIDE DEF e
  <2>3. CASE name = "states"
    BY <1>1, <1>4, <2>1, <2>2, <2>3, TellsPushed DEF InDaemon
  <2>4. CASE name = "layers"
    <3>1. Due(name)
      BY <1>6, <2>4 DEF Due, trayVars
    <3>2. QED
      BY <1>5, <2>1, <2>2, <2>4, <3>1 DEF InDaemon, Feed
  <2>5. QED
    BY <2>3, <2>4 DEF Fact
<1>7. CASE LayerMoved
  <2> DEFINE e == [event |-> "LayerChanged", layer |-> layer']
  <2>1. Head(wire) \in Layer
    BY <1>1, <1>7, SeqFacts DEF LayerMoved, LayerNamed, SetLayer, RelayInv, RelayTypeOK
  <2>2. e \in Event /\ Value(e) = layer'
    BY <1>7, <2>1, EventFacts DEF LayerMoved, LayerNamed, SetLayer, Value
  <2>3. UNCHANGED <<state, announced>>
    BY <1>7 DEF LayerMoved, LayerNamed, SetLayer, supervisor
  <2>4. CASE layer' = layer
    <3>1. UNCHANGED <<feed, missed>>
      BY <1>7, <2>4 DEF LayerMoved, LayerNamed
    <3>2. InDaemon(name)' = InDaemon(name) /\ Due(name)
      BY <2>3, <2>4, <3>1 DEF InDaemon, Due
    <3>3. Tells(name) /\ InSession(name)' = InSession(name)
      BY <1>3, <1>4, <3>2 DEF FactInv, InSession
    <3>4. QED
      BY <1>2, <3>1, <3>2, <3>3, TellsKept
  <2>5. CASE layer' # layer
    <3>1. Broadcast("layers", e) /\ missed' = missed \ {"layer"}
      BY <1>7, <2>5 DEF LayerMoved, LayerNamed
    <3> HIDE DEF e
    <3>2. CASE name = "layers"
      BY <1>1, <1>4, <2>2, <3>1, <3>2, TellsPushed DEF InDaemon
    <3>3. CASE name = "states"
      <4>1. Due(name) /\ InDaemon(name)' = InDaemon(name)
        BY <2>3, <3>1, <3>3 DEF Due, FacetNamed, InDaemon
      <4>2. QED
        BY <1>5, <2>2, <3>1, <3>3, <4>1 DEF Feed
    <3>4. QED
      BY <3>2, <3>3 DEF Fact
  <2>6. QED
    BY <2>4, <2>5
<1>8. CASE \E e \in unsaid : Announced(e)
  <2>1. PICK e \in unsaid : Announced(e)
    BY <1>8
  <2>2. e \in Event
    BY <1>1, <2>1, EventFacts DEF DaemonInv
  <2>3. Broadcast("bus", e) /\ UNCHANGED <<state, layer, announced>>
    BY <2>1 DEF Announced, Announce, relayVars, supervisor
  <2>4. \A x \in missed : x \in missed' \/ x \in {"list", "active"}
    BY <2>1 DEF Announced
  <2>5. Due(name) /\ InDaemon(name)' = InDaemon(name)
    BY <2>3, <2>4 DEF Due, FacetNamed, InDaemon
  <2>6. QED
    BY <1>5, <2>2, <2>3, <2>5 DEF Feed, Fact
<1>9. QED
  BY <1>6, <1>7, <1>8

(* The last event tells the state, and the layer, whatever happens.        *)
LEMMA FactStep ==
  ASSUME LinkInv, PhaseInv, FeedInv, FactInv, LinkNext
  PROVE  FactInv'
<1>1. RelayInv /\ DaemonInv /\ WireInv /\ SessionInv
  BY LinkParts
<1> SUFFICES ASSUME feed' # None, NEW name \in Fact, Due(name)'
             PROVE  Tells(name)'
  BY DEF FactInv
<1>2. CASE \/ (StateMoves \/ KanataMoves) /\ UNCHANGED trayVars
           \/ RelayMoved \/ PresetsMoved \/ ConfigMoved
  <2>1. UNCHANGED <<frames, outbox, feed, session>>
    BY <1>2 DEF StateMoves, KanataMoves, RelayMoved, RelayElse, PresetsMoved,
       PresetsMove, ConfigMoved, ConfigMoves, connection, trayVars
  <2>2. InDaemon(name)' = InDaemon(name) /\ Due(name)
    <3>1. CASE StateMoves /\ UNCHANGED trayVars
      <4>1. announced' = FALSE /\ layer' = layer /\ missed' = missed
        BY <3>1 DEF StateMoves, Publish, trayVars
      <4>2. name = "layers"
        BY <4>1 DEF Due, Fact
      <4>3. QED
        BY <4>1, <4>2 DEF InDaemon, Due
    <3>2. CASE KanataMoves /\ UNCHANGED trayVars
      <4>1. UNCHANGED <<state, announced, layer, missed>>
        BY <3>2 DEF KanataMoves, Die, Listen, NameLayer, supervisor, trayVars
      <4>2. QED
        BY <4>1 DEF InDaemon, Due
    <3>3. CASE RelayMoved
      <4>1. UNCHANGED <<state, announced>>
        BY <3>3 DEF RelayMoved, RelayElse, TopRunning, TopIdle, Connect, ConnectFails,
           Disconnected, LeaveRunning, AfterDrop, PauseEnds, WaitEnds, supervisor
      <4>2. missed \subseteq missed' /\ (layer' = layer \/ "layer" \in missed')
        BY <3>3 DEF RelayMoved
      <4>3. name = "layers" => layer' = layer
        BY <4>2 DEF Due, FacetNamed
      <4>4. QED
        BY <4>1, <4>2, <4>3 DEF InDaemon, Due, Fact
    <3>4. CASE PresetsMoved \/ ConfigMoved
      <4>1. UNCHANGED <<state, announced, layer>> /\ missed \subseteq missed'
        BY <3>4 DEF PresetsMoved, PresetsMove, ConfigMoved, ConfigMoves, relayVars,
           supervisor
      <4>2. QED
        BY <4>1 DEF InDaemon, Due
    <3>5. QED
      BY <1>2, <3>1, <3>2, <3>3, <3>4
  <2>3. Sent' = Sent /\ Len(Sent) \in Nat /\ InSession(name)' = InSession(name)
    BY <1>1, <2>1, SentSeq DEF Sent, InSession
  <2>4. Tells(name)
    BY <2>1, <2>2 DEF FactInv
  <2>5. \A i \in 1..Len(Sent)' : ~(i > Len(Sent))
    BY <2>3
  <2>6. QED
    BY <2>1, <2>2, <2>3, <2>4, <2>5, TellsKept
<1>3. CASE (DeliverState \/ DeliverLayer \/ DeliverBus) /\ UNCHANGED trayVars
  <2>1. PICK other \in Feed : Deliver(other)
    BY <1>3 DEF DeliverState, DeliverLayer, DeliverBus, Feed
  <2>2. UNCHANGED <<state, layer, announced, session, missed>>
    BY <1>3, <2>1 DEF Deliver, relayVars, supervisor, trayVars
  <2> DEFINE q == feed[other]
             f == [frame |-> "Event", event |-> Head(q)]
  <2>3. /\ q \in Seq(Event) /\ Head(q) = q[1] /\ Len(q) > 0
        /\ \A n \in Feed : n # other => feed'[n] = feed[n]
        /\ feed # None
        /\ Len(Sent)' = Len(Sent) + 1 /\ Sent'[Len(Sent) + 1] = f
        /\ \A i \in 1..Len(Sent) : Sent'[i] = Sent[i]
    BY <1>1, <2>1, EventTaken
  <2>4. Due(name) /\ Tells(name)
    BY <2>2, <2>3 DEF FactInv, Due
  <2>5. CASE other = name
    BY <1>1, <2>1, <2>2, <2>4, <2>5, TellsDelivered
  <2>6. CASE other # name
    <3>1. 1 \in 1..Len(q)
      BY <2>3
    <3>2. Head(q).event # KindOf(name)
      BY <2>3, <2>6, <3>1 DEF FeedInv, Feed, Fact, KindOf
    <3>3. f.event = Head(q)
      OBVIOUS
    <3> HIDE DEF f
    <3>4. Len(Sent) \in Nat /\ ~About(name, f)
      BY <1>1, <3>2, <3>3, SentSeq DEF About
    <3>5. \A i \in 1..Len(Sent)' : i > Len(Sent) => ~About(name, Sent'[i])
      BY <2>3, <3>4
    <3>6. feed'[name] = feed[name]
      BY <2>3, <2>6 DEF Fact, Feed
    <3>7. InSession(name)' = InSession(name) /\ InDaemon(name)' = InDaemon(name)
      BY <2>2 DEF InSession, InDaemon
    <3>8. Len(Sent)' \in Nat /\ Len(Sent)' >= Len(Sent)
      BY <2>3, <3>4
    <3>9. QED
      BY <2>3, <2>4, <3>4, <3>5, <3>6, <3>7, <3>8, TellsKept
  <2>7. QED
    BY <2>5, <2>6
<1>4. CASE Write /\ UNCHANGED trayVars
  <2>1. Len(Sent)' = Len(Sent) /\ \A i \in 1..Len(Sent) : Sent'[i] = Sent[i]
    BY <1>1, <1>4, SentWritten
  <2>2. UNCHANGED <<feed, state, layer, announced, session, missed>>
    BY <1>4 DEF Write, relayVars, supervisor, trayVars
  <2>3. InSession(name)' = InSession(name) /\ InDaemon(name)' = InDaemon(name)
        /\ Due(name)
    BY <2>2 DEF InSession, InDaemon, Due
  <2>4. Tells(name) /\ Len(Sent) \in Nat
    BY <1>1, <2>2, <2>3, SentSeq DEF FactInv
  <2>5. \A i \in 1..Len(Sent)' : ~(i > Len(Sent))
    BY <2>1, <2>4
  <2>6. QED
    BY <2>1, <2>2, <2>3, <2>4, <2>5, TellsKept
<1>5. CASE DaemonDies \/ DaemonStarts
  BY <1>5 DEF DaemonDies, DaemonStarts, PhaseInv, connection
<1>6. CASE SubscribeServed \/ ListServed \/ ((Greet \/ GetStatus) /\ UNCHANGED trayVars)
  BY <1>6, FactServed
<1>7. CASE \/ StateSent /\ UNCHANGED trayVars
           \/ LayerMoved
           \/ \E e \in unsaid : Announced(e)
  BY <1>7, FactMoved
<1>8. CASE TraySteps
  BY <1>8, FactRead
<1>9. QED
  BY <1>2, <1>3, <1>4, <1>5, <1>6, <1>7, <1>8 DEF LinkNext, DaemonElse

(* The presets.  What the basis becomes when a frame is read.              *)
LEMMA BasisRead ==
  ASSUME WireInv, SessionInv, PhaseInv, feed # None,
         Subscribed \/ Folds \/ Skips \/ Refetched,
         NEW k \in 0..Len(Sent)', Basis(k)'
  PROVE  \/ /\ k = 0 /\ Basis(0)
            /\ ~(Sent[1].frame = "Event" /\ Lists(Sent[1].event))
            /\ ListAt(0)' = ListAt(0)
            /\ ActiveAt(0)' = IF NamesOnWire(Sent[1]) THEN Sent[1].event.preset
                              ELSE ActiveAt(0)
         \/ /\ k + 1 \in 1..Len(Sent) /\ Basis(k + 1)
            /\ ListAt(k)' = ListAt(k + 1) /\ ActiveAt(k)' = ActiveAt(k + 1)
<1>1. frames # <<>> /\ frames' = Tail(frames) /\ outbox' = outbox
  BY DEF Subscribed, Folds, Skips, Refetched, Received, Reading
<1>2. /\ Len(Sent) \in Nat /\ Len(Sent) > 0 /\ Sent[1] = Head(frames)
      /\ Len(Sent)' = Len(Sent) - 1
      /\ \A i \in 1..Len(Sent)' : Sent'[i] = Sent[i+1]
      /\ Sent[1] \in Frame
  BY <1>1, SentSeq, SentRead
<1>3. session \in Session /\ session # None
  BY DEF SessionInv, NothingStale, Subscribed, Folds, Skips, Refetched
<1>4. CASE Subscribed
  <2>1. k = 0 /\ Basis(0) /\ UNCHANGED session /\ Sent[1].frame = "Ack"
    BY <1>2, <1>4 DEF Subscribed, Basis, Received
  <2>2. QED
    BY <2>1 DEF NamesOnWire, ListAt, ActiveAt
<1>5. CASE Folds
  <2> DEFINE e == Sent[1].event
  <2>1. /\ k = 0 /\ Basis(0) /\ Sent[1].frame = "Event" /\ ~Lists(e)
        /\ session' = Apply(e) /\ e \in Event
    BY <1>2, <1>5, FrameFields DEF Folds, Basis, Received, Lists
  <2> HIDE DEF e
  <2>2. session'.list = session.list
    BY <1>3, <2>1 DEF Apply, Session
  <2>3. session'.active = IF Names(e) THEN e.preset ELSE session.active
    BY <1>3, <2>1 DEF Apply, Session, Names
  <2> USE DEF e
  <2>4. QED
    BY <2>1, <2>2, <2>3 DEF NamesOnWire, ListAt, ActiveAt
<1>6. CASE Skips
  <2>1. k \in 1..Len(Sent)' /\ Sent'[k].frame = "Presets" /\ tray = "Refetch"
    BY <1>6 DEF Skips, Basis
  <2>2. k + 1 \in 1..Len(Sent) /\ Sent'[k] = Sent[k+1] /\ k # 0 /\ k + 1 # 0
    BY <1>2, <2>1
  <2>3. QED
    BY <2>1, <2>2 DEF Basis, ListAt, ActiveAt
<1>7. CASE Refetched
  <2>1. k = 0 /\ tray = "Refetch" /\ Sent[1].frame = "Presets"
        /\ session' = WithPresets(Sent[1])
    BY <1>2, <1>7 DEF Refetched, Basis, Received
  <2>2. session'.list = Sent[1].list /\ session'.active = Sent[1].active
    BY <1>3, <2>1 DEF WithPresets, Session
  <2>3. k + 1 = 1 /\ 1 \in 1..Len(Sent) /\ 1 # 0
    BY <1>2, <2>1
  <2>4. QED
    BY <2>1, <2>2, <2>3 DEF Basis, ListAt, ActiveAt
<1>8. QED
  BY <1>4, <1>5, <1>6, <1>7

(* While the list is being asked for, nothing is a basis.                  *)
LEMMA NoBasis ==
  ASSUME WireInv, PhaseInv, HearsPresetsChanged, feed # None,
         NEW k \in 0..Len(Sent)'
  PROVE  ~Basis(k)'
<1>1. frames # <<>> /\ frames' = Tail(frames) /\ outbox' = outbox /\ tray' = "Refetch"
  BY DEF HearsPresetsChanged, Received, Asking
<1>2. /\ Len(Sent)' = Len(Sent) - 1 /\ Len(Sent) \in Nat
      /\ \A i \in 1..Len(Sent)' : Sent'[i] = Sent[i+1]
  BY <1>1, SentSeq, SentRead
<1>3. EventsOnly({})
  BY DEF HearsPresetsChanged, PhaseInv
<1>4. \A i \in 1..Len(Sent)' : Sent'[i].frame = "Event"
  BY <1>2, <1>3 DEF EventsOnly
<1>5. QED
  BY <1>1, <1>4 DEF Basis

(* Frames that follow tell of the list as long as they are events.         *)
LEMMA ListKept ==
  ASSUME ListTold, Len(Sent) \in Nat, Len(Sent)' \in Nat,
         Len(Sent)' >= Len(Sent), \A i \in 1..Len(Sent) : Sent'[i] = Sent[i],
         \A i \in 1..Len(Sent)' : i > Len(Sent) => Sent'[i].frame # "Presets",
         UNCHANGED <<tray, session, list>>,
         (\E i \in 1..Len(feed.bus) : Lists(feed.bus[i])) =>
           \/ \E i \in 1..Len(feed'.bus) : Lists(feed'.bus[i])
           \/ \E i \in 1..Len(Sent)' : /\ i > Len(Sent)
                                       /\ Sent'[i].frame = "Event"
                                       /\ Lists(Sent'[i].event)
  PROVE  ListTold'
<1>1. ASSUME NEW k \in 0..Len(Sent)', Basis(k)'
      PROVE  k \in 0..Len(Sent) /\ Basis(k) /\ ListAt(k)' = ListAt(k)
  <2>1. k \in 0..Len(Sent)
    BY <1>1 DEF Basis
  <2>2. k # 0 => Sent'[k] = Sent[k]
    BY <2>1
  <2>3. QED
    BY <1>1, <2>1, <2>2 DEF Basis, ListAt
<1>2. CASE \E i \in 1..Len(feed'.bus) : Lists(feed'.bus[i])
  BY <1>2 DEF ListTold
<1>3. CASE \E i \in 1..Len(Sent)' : /\ i > Len(Sent)
                                    /\ Sent'[i].frame = "Event"
                                    /\ Lists(Sent'[i].event)
  <2>1. PICK i \in 1..Len(Sent)' :
          i > Len(Sent) /\ Sent'[i].frame = "Event" /\ Lists(Sent'[i].event)
    BY <1>3
  <2>2. \A k \in 0..Len(Sent)' : Basis(k)' => i > k
    BY <1>1, <2>1
  <2>3. QED
    BY <2>1, <2>2 DEF ListTold
<1>4. CASE \A k \in 0..Len(Sent) : Basis(k) =>
             \/ ListAt(k) = list
             \/ \E i \in 1..Len(Sent) :
                  i > k /\ Sent[i].frame = "Event" /\ Lists(Sent[i].event)
  <2>1. \A k \in 0..Len(Sent)' : Basis(k)' =>
          \/ ListAt(k)' = list'
          \/ \E i \in 1..Len(Sent)' :
               i > k /\ Sent'[i].frame = "Event" /\ Lists(Sent'[i].event)
    <3> SUFFICES ASSUME NEW k \in 0..Len(Sent)', Basis(k)', ListAt(k)' # list'
                 PROVE  \E i \in 1..Len(Sent)' :
                   i > k /\ Sent'[i].frame = "Event" /\ Lists(Sent'[i].event)
      OBVIOUS
    <3>1. k \in 0..Len(Sent) /\ Basis(k) /\ ListAt(k) # list
      BY <1>1
    <3>2. PICK i \in 1..Len(Sent) :
            i > k /\ Sent[i].frame = "Event" /\ Lists(Sent[i].event)
      BY <1>4, <3>1
    <3>3. i \in 1..Len(Sent)' /\ Sent'[i] = Sent[i]
      BY <3>2
    <3>4. QED
      BY <3>2, <3>3
  <2>2. QED
    BY <2>1 DEF ListTold
<1>5. QED
  BY <1>2, <1>3, <1>4 DEF ListTold

(* An overflow drops no PresetsChanged that nothing replaces.              *)
LEMMA ListPushed ==
  ASSUME WireInv, NEW e \in Event, feed # None, Broadcast("bus", e),
         "list" \notin Overwritten \/ Lists(e)
  PROVE  (Lists(e) \/ \E i \in 1..Len(feed.bus) : Lists(feed.bus[i])) =>
           \E i \in 1..Len(feed'.bus) : Lists(feed'.bus[i])
<1> DEFINE q == feed.bus
           r == Push(q, e)
<1>1. q \in Seq(Event) /\ feed'.bus = r
  BY Broadcasts DEF Feed
<1>2. Overwritten = IF Len(q) < FeedCap THEN {}
                    ELSE FacetOf(Head(q)) \ UNION {FacetOf(q[i]) : i \in 2..Len(q)}
  BY DEF Overwritten
<1> HIDE DEF q
<1>3. /\ Len(r) > 0 /\ r[Len(r)] = e /\ Len(r) \in Nat /\ Len(q) \in Nat
      /\ \/ /\ Len(q) < FeedCap /\ Len(r) = Len(q) + 1
            /\ \A i \in 1..Len(q) : r[i] = q[i]
         \/ /\ Len(q) >= FeedCap /\ Len(q) > 0 /\ Len(r) = Len(q)
            /\ Head(q) = q[1]
            /\ \A i \in 1..Len(q) - 1 : r[i] = q[i+1]
  BY <1>1, QueuePushed
<1> HIDE DEF r
<1> SUFFICES ASSUME Lists(e) \/ \E i \in 1..Len(q) : Lists(q[i])
             PROVE  \E i \in 1..Len(r) : Lists(r[i])
  BY <1>1 DEF q
<1>4. CASE Lists(e)
  BY <1>3, <1>4
<1>5. CASE ~Lists(e)
  <2>1. PICK i \in 1..Len(q) : Lists(q[i])
    BY <1>5
  <2>2. CASE Len(q) < FeedCap
    <3>1. i \in 1..Len(r) /\ r[i] = q[i]
      BY <1>3, <2>1, <2>2, ControlAssumption
    <3>2. QED
      BY <2>1, <3>1
  <2>3. CASE ~(Len(q) < FeedCap)
    <3>1. ASSUME NEW j \in 2..Len(q), Lists(q[j])
          PROVE  \E n \in 1..Len(r) : Lists(r[n])
      <4>1. PICK n : n = j - 1
        OBVIOUS
      <4>2. n \in 1..Len(r) /\ r[n] = q[j]
        BY <1>3, <2>3, <4>1, ControlAssumption
      <4>3. QED
        BY <3>1, <4>2
    <3>2. CASE i = 1
      <4>1. "list" \in FacetOf(Head(q))
        BY <1>3, <2>1, <2>3, <3>2, ControlAssumption DEF Lists, FacetOf
      <4>2. PICK j \in 2..Len(q) : "list" \in FacetOf(q[j])
        BY <1>2, <1>5, <2>3, <4>1
      <4>3. Lists(q[j])
        BY <4>2 DEF FacetOf, Lists
      <4>4. QED
        BY <3>1, <4>3
    <3>3. CASE i # 1
      <4>1. i \in 2..Len(q)
        BY <1>3, <2>1, <3>3
      <4>2. QED
        BY <2>1, <3>1, <4>1
    <3>4. QED
      BY <3>2, <3>3
  <2>4. QED
    BY <2>2, <2>3
<1>6. QED
  BY <1>4, <1>5

(* What reading a frame leaves of the list.                                *)
LEMMA ListRead ==
  ASSUME LinkInv, PhaseInv, ListInv, feed' # None,
         "list" \notin missed', Listed \notin unsaid', TraySteps
  PROVE  ListTold'
<1>1. WireInv /\ SessionInv
  BY LinkParts
<1>2. CASE Connects \/ Greeted \/ SeedsStatus \/ SeedsPresets \/ Loses
  <2>1. feed' = feed
    BY <1>2 DEF Connects, Greeted, SeedsStatus, SeedsPresets, Loses, Asking,
       controlVars, connection
  <2>2. feed = None
    BY <1>2 DEF Connects, Greeted, SeedsStatus, SeedsPresets, Loses, PhaseInv
  <2>3. QED
    BY <2>1, <2>2
<1>3. CASE HearsPresetsChanged
  <2>1. feed # None
    BY <1>3 DEF HearsPresetsChanged, Asking
  <2>2. \A k \in 0..Len(Sent)' : ~Basis(k)'
    BY <1>1, <1>3, <2>1, NoBasis
  <2>3. QED
    BY <2>2 DEF ListTold
<1>4. CASE Subscribed \/ Folds \/ Skips \/ Refetched
  <2>1. /\ frames # <<>> /\ frames' = Tail(frames) /\ outbox' = outbox
        /\ UNCHANGED <<feed, list, unsaid>>
    BY <1>4 DEF Subscribed, Folds, Skips, Refetched, Received, Reading, daemon
  <2>2. missed \subseteq missed'
    BY <1>4 DEF Subscribed, Folds, Skips, Refetched
  <2>3. ListTold
    BY <2>1, <2>2 DEF ListInv
  <2>4. /\ Len(Sent) \in Nat /\ Len(Sent) > 0
        /\ Len(Sent)' = Len(Sent) - 1
        /\ \A i \in 1..Len(Sent)' : Sent'[i] = Sent[i+1]
    BY <1>1, <2>1, SentSeq, SentRead
  <2>5. CASE \E i \in 1..Len(feed.bus) : Lists(feed.bus[i])
    BY <2>1, <2>5 DEF ListTold
  <2>6. CASE \A b \in 0..Len(Sent) : Basis(b) =>
               \/ ListAt(b) = list
               \/ \E i \in 1..Len(Sent) :
                    i > b /\ Sent[i].frame = "Event" /\ Lists(Sent[i].event)
    <3>1. ASSUME NEW k \in 0..Len(Sent)', Basis(k)', ListAt(k)' # list'
          PROVE  \E i \in 1..Len(Sent)' :
                   i > k /\ Sent'[i].frame = "Event" /\ Lists(Sent'[i].event)
      <4>1. PICK b \in 0..Len(Sent) :
              /\ Basis(b) /\ ListAt(k)' = ListAt(b)
              /\ \/ /\ b = 0 /\ k = 0
                    /\ ~(Sent[1].frame = "Event" /\ Lists(Sent[1].event))
                 \/ b = k + 1
        <5>1. CASE /\ k = 0 /\ Basis(0) /\ ListAt(0)' = ListAt(0)
                   /\ ~(Sent[1].frame = "Event" /\ Lists(Sent[1].event))
          BY <2>4, <5>1
        <5>2. CASE /\ k + 1 \in 1..Len(Sent) /\ Basis(k + 1)
                   /\ ListAt(k)' = ListAt(k + 1)
          BY <2>4, <5>2
        <5>3. QED
          BY <1>1, <1>4, <2>1, <3>1, <5>1, <5>2, BasisRead
      <4>2. PICK i \in 1..Len(Sent) :
              i > b /\ Sent[i].frame = "Event" /\ Lists(Sent[i].event)
        BY <2>1, <2>6, <3>1, <4>1
      <4>3. i # 1
        BY <2>4, <4>1, <4>2
      <4>4. PICK j : j = i - 1
        OBVIOUS
      <4>5. j \in 1..Len(Sent)' /\ Sent'[j] = Sent[i] /\ j > k
        BY <2>4, <4>1, <4>2, <4>3, <4>4
      <4>6. QED
        BY <4>2, <4>5
    <3>2. QED
      BY <3>1 DEF ListTold
  <2>7. QED
    BY <2>3, <2>5, <2>6 DEF ListTold
<1>5. QED
  BY <1>2, <1>3, <1>4 DEF TraySteps

(* A subscription starts with what its session has, a refetched list is    *)
(* the only one on its way.                                                *)
LEMMA ServedBasis ==
  ASSUME LinkInv, PhaseInv, feed' # None, SubscribeServed \/ ListServed,
         NEW k \in 0..Len(Sent)', Basis(k)'
  PROVE  /\ SubscribeServed =>
              /\ k = 0 /\ session # None /\ UNCHANGED <<session, list, active, unsaid>>
              /\ \A i \in 1..Len(Sent)' : Sent'[i].frame # "Event"
              /\ feed'.bus = <<>>
         /\ ListServed =>
              /\ ListAt(k)' = list' /\ ActiveAt(k)' = active'
              /\ feed # None /\ k = Len(Sent)' /\ k # 0
<1>1. RelayInv /\ DaemonInv /\ WireInv /\ SessionInv
  BY LinkParts
<1>2. Head(<<"Subscribe">>) = "Subscribe" /\ Head(<<"ListPresets">>) = "ListPresets"
  OBVIOUS
<1>3. Len(Sent) \in Nat
  BY <1>1, SentSeq
<1>4. CASE SubscribeServed
  <2>1. /\ tray = "Subscribe" /\ tray' = tray /\ Len(Sent) = 0
        /\ requests = <<"Subscribe">> /\ Head(requests) = "Subscribe"
    BY <1>1, <1>2, <1>4
    DEF SubscribeServed, Subscribe, Asks, PhaseInv, SessionInv, Exchange
  <2>2. /\ Reply("Ack") \in Frame /\ Reply("Ack").frame = "Ack"
        /\ outbox' = Reply("Ack")
    BY <1>4, FrameFacts DEF Reply, SubscribeServed, Subscribe, Respond
  <2>3. Len(Sent)' = 1 /\ Sent'[1] = Reply("Ack")
    BY <1>1, <1>4, <2>1, <2>2, Answered DEF SubscribeServed, Subscribe, Asks
  <2>4. k = 0 /\ session # None /\ UNCHANGED <<session, list, active, unsaid>>
    BY <1>1, <1>4, <2>1
    DEF Basis, SessionInv, NothingStale, SubscribeServed, Subscribe, daemon
  <2>5. feed'.bus = <<>>
    BY <1>4 DEF SubscribeServed, Subscribe, Feed
  <2>6. ~ListServed
    BY <1>2, <2>1 DEF ListServed, ListPresets, Asks
  <2>7. QED
    BY <2>2, <2>3, <2>4, <2>5, <2>6
<1>5. CASE ListServed
  <2> DEFINE f == [frame |-> "Presets", list |-> list, active |-> active]
  <2>1. /\ f \in Frame /\ f.frame = "Presets" /\ outbox' = f /\ outbox = None
        /\ f.list = list /\ f.active = active
        /\ UNCHANGED <<frames, feed, tray, session, list, active>>
    BY <1>1, <1>5, FrameFacts
    DEF DaemonInv, ListServed, ListPresets, Asks, Respond, daemon
  <2> HIDE DEF f
  <2>2. f # None
    BY <2>1, AbsenceAssumption
  <2>3. /\ Len(Sent)' = Len(Sent) + 1 /\ Sent'[Len(Sent) + 1] = f
        /\ \A i \in 1..Len(Sent) : Sent'[i] = Sent[i]
    BY <1>1, <2>1, <2>2, SentAdded
  <2>4. /\ feed # None /\ tray = "Refetch" /\ requests # <<>>
        /\ served = "serving"
    BY <1>1, <1>2, <1>5, <2>1
    DEF PhaseInv, SessionInv, ListServed, ListPresets, Asks
  <2>5. EventsOnly({})
    BY <2>4 DEF PhaseInv
  <2>6. k \in 1..Len(Sent)' /\ Sent'[k].frame = "Presets"
    BY <2>1, <2>4 DEF Basis
  <2>7. k = Len(Sent) + 1
    <3>1. k \in 1..Len(Sent) => Sent'[k].frame = "Event"
      BY <2>3, <2>5 DEF EventsOnly
    <3>2. QED
      BY <1>3, <2>3, <2>6, <3>1
  <2>8. ~SubscribeServed
    BY <1>2, <1>5 DEF SubscribeServed, Subscribe, ListServed, ListPresets, Asks
  <2>9. QED
    BY <1>3, <2>1, <2>3, <2>4, <2>6, <2>7, <2>8 DEF ListAt, ActiveAt
<1>6. QED
  BY <1>4, <1>5

(* The list is told, whatever happens.                                     *)
LEMMA ListStep ==
  ASSUME LinkInv, PhaseInv, FeedInv, ListInv, LinkNext
  PROVE  ListInv'
<1>1. RelayInv /\ DaemonInv /\ WireInv /\ SessionInv
  BY LinkParts
<1> SUFFICES ASSUME feed' # None, "list" \notin missed', Listed \notin unsaid'
             PROVE  ListTold'
  BY DEF ListInv
<1>2. Len(Sent) \in Nat
  BY <1>1, SentSeq
<1>3. CASE SubscribeServed
  <2>1. ASSUME NEW k \in 0..Len(Sent)', Basis(k)' PROVE ListAt(k)' = list'
    <3>1. k = 0 /\ session # None /\ UNCHANGED <<session, list, unsaid>>
      BY <1>3, <2>1, ServedBasis
    <3>2. "list" \in Facet /\ "list" \notin Differs
      BY <1>3 DEF SubscribeServed, Facet
    <3>3. session.list = list
      BY <3>1, <3>2 DEF Differs
    <3>4. QED
      BY <3>1, <3>3 DEF ListAt
  <2>2. QED
    BY <2>1 DEF ListTold
<1>4. CASE ListServed
  <2>1. \A k \in 0..Len(Sent)' : Basis(k)' => ListAt(k)' = list'
    BY <1>4, ServedBasis
  <2>2. QED
    BY <2>1 DEF ListTold
<1>5. ASSUME UNCHANGED <<frames, outbox, tray, session, list>>, ListTold,
             (\E i \in 1..Len(feed.bus) : Lists(feed.bus[i])) =>
               \E i \in 1..Len(feed'.bus) : Lists(feed'.bus[i])
      PROVE  ListTold'
  <2>1. Sent' = Sent
    BY <1>5 DEF Sent
  <2>2. \A i \in 1..Len(Sent)' : ~(i > Len(Sent))
    BY <1>2, <2>1
  <2>3. QED
    BY <1>2, <1>5, <2>1, <2>2, ListKept
<1>6. CASE \E e \in unsaid : Announced(e)
  <2>1. PICK e \in unsaid : Announced(e)
    BY <1>6
  <2>2. e \in Event /\ (e = Listed => Lists(e)) /\ (Lists(e) => e = Listed)
    BY <1>1, <2>1, EventFacts DEF DaemonInv, Listed, Lists, BusEvent
  <2>3. /\ Broadcast("bus", e) /\ UNCHANGED <<frames, outbox, tray, session, list>>
        /\ unsaid' = unsaid \ {e}
    BY <2>1 DEF Announced, Announce
  <2>4. feed # None
    BY <2>3 DEF Broadcast
  <2>5. e # Listed => "list" \notin missed /\ "list" \notin Overwritten
    BY <2>1 DEF Announced
  <2>6. (Lists(e) \/ \E i \in 1..Len(feed.bus) : Lists(feed.bus[i])) =>
          \E i \in 1..Len(feed'.bus) : Lists(feed'.bus[i])
    BY <1>1, <2>2, <2>3, <2>4, <2>5, ListPushed
  <2>7. CASE e = Listed
    BY <2>2, <2>6, <2>7 DEF ListTold
  <2>8. CASE e # Listed
    <3>1. Listed \notin unsaid
      BY <2>3, <2>8
    <3>2. ListTold
      BY <2>4, <2>5, <2>8, <3>1 DEF ListInv
    <3>3. QED
      BY <1>5, <2>3, <2>6, <3>2
  <2>9. QED
    BY <2>7, <2>8
<1>7. CASE \/ (StateMoves \/ KanataMoves \/ StateSent) /\ UNCHANGED trayVars
           \/ LayerMoved \/ RelayMoved \/ ConfigMoved
  <2>1. /\ UNCHANGED <<frames, outbox, tray, session, list>>
        /\ unsaid \subseteq unsaid'
        /\ "list" \in missed => "list" \in missed'
    BY <1>7 DEF StateMoves, KanataMoves, StateSent, LayerMoved, LayerNamed, RelayMoved,
       RelayElse, ConfigMoved, ConfigMoves, connection, daemon, trayVars
  <2>2. feed # None /\ feed'.bus = feed.bus
    <3>1. CASE UNCHANGED feed
      BY <3>1
    <3>2. ASSUME NEW name \in {"states", "layers"}, NEW e \in Event, Broadcast(name, e)
          PROVE  feed # None /\ feed'.bus = feed.bus
      <4>1. feed # None
        BY <3>2 DEF Broadcast
      <4>2. feed'["bus"] = feed["bus"]
        BY <1>1, <3>2, <4>1, Broadcasts DEF Feed
      <4>3. QED
        BY <4>1, <4>2
    <3>3. CASE StateSent
      <4>1. [event |-> "StateChanged", to |-> state] \in Event
        BY <1>1, EventFacts DEF RelayInv, RelayTypeOK
      <4>2. QED
        BY <3>2, <3>3, <4>1 DEF StateSent
    <3>4. CASE LayerMoved
      <4>1. Head(wire) \in Layer
        BY <1>1, <3>4, SeqFacts
        DEF LayerMoved, LayerNamed, SetLayer, RelayInv, RelayTypeOK
      <4>2. [event |-> "LayerChanged", layer |-> layer'] \in Event
        BY <3>4, <4>1, EventFacts DEF LayerMoved, LayerNamed, SetLayer
      <4>3. QED
        BY <3>1, <3>2, <3>4, <4>2 DEF LayerMoved, LayerNamed
    <3>5. QED
      BY <1>7, <3>1, <3>3, <3>4 DEF StateMoves, KanataMoves, RelayMoved, RelayElse,
         ConfigMoved, ConfigMoves, connection
  <2>3. ListTold
    BY <2>1, <2>2 DEF ListInv
  <2>4. QED
    BY <1>5, <2>1, <2>2, <2>3
<1>8. CASE PresetsMoved
  BY <1>8 DEF PresetsMoved
<1>9. CASE (DeliverState \/ DeliverLayer \/ DeliverBus) /\ UNCHANGED trayVars
  <2>1. PICK name \in Feed : Deliver(name)
    BY <1>9 DEF DeliverState, DeliverLayer, DeliverBus, Feed
  <2>2. UNCHANGED <<list, unsaid, tray, session, missed>>
    BY <1>9, <2>1 DEF Deliver, daemon, trayVars
  <2> DEFINE q == feed[name]
             f == [frame |-> "Event", event |-> Head(q)]
  <2>3. /\ q \in Seq(Event) /\ Head(q) = q[1] /\ Len(q) > 0
        /\ Len(feed'[name]) = Len(q) - 1
        /\ \A i \in 1..Len(q) - 1 : feed'[name][i] = q[i+1]
        /\ \A n \in Feed : n # name => feed'[n] = feed[n]
        /\ feed # None
        /\ Len(Sent)' = Len(Sent) + 1 /\ Sent'[Len(Sent) + 1] = f
        /\ \A i \in 1..Len(Sent) : Sent'[i] = Sent[i]
    BY <1>1, <2>1, EventTaken
  <2>4. f.frame = "Event" /\ f.event = Head(q)
    OBVIOUS
  <2> HIDE DEF f
  <2>5. ListTold
    BY <2>2, <2>3 DEF ListInv
  <2>6. \A i \in 1..Len(Sent)' : i > Len(Sent) => Sent'[i].frame # "Presets"
    BY <1>2, <2>3, <2>4
  <2>7. (\E i \in 1..Len(feed.bus) : Lists(feed.bus[i])) =>
           \/ \E i \in 1..Len(feed'.bus) : Lists(feed'.bus[i])
           \/ \E i \in 1..Len(Sent)' : /\ i > Len(Sent)
                                       /\ Sent'[i].frame = "Event"
                                       /\ Lists(Sent'[i].event)
    <3>1. CASE name # "bus"
      <4>1. feed'["bus"] = feed["bus"]
        BY <2>3, <3>1 DEF Feed
      <4>2. QED
        BY <4>1
    <3>2. CASE name = "bus"
      <4>1. feed.bus = q /\ feed'.bus = feed'[name]
        BY <3>2
      <4> HIDE DEF q
      <4>2. ASSUME NEW i \in 1..Len(q), Lists(q[i])
            PROVE  \/ \E j \in 1..Len(feed'[name]) : Lists(feed'[name][j])
                   \/ \E j \in 1..Len(Sent)' : /\ j > Len(Sent)
                                               /\ Sent'[j].frame = "Event"
                                               /\ Lists(Sent'[j].event)
        <5>1. CASE i = 1
          <6>1. PICK n : n = Len(Sent) + 1
            OBVIOUS
          <6>2. n \in 1..Len(Sent)' /\ n > Len(Sent) /\ Sent'[n] = f
            BY <1>2, <2>3, <6>1
          <6>3. QED
            BY <2>3, <2>4, <4>2, <5>1, <6>2
        <5>2. CASE i # 1
          <6>1. PICK n : n = i - 1
            OBVIOUS
          <6>2. n \in 1..Len(feed'[name]) /\ feed'[name][n] = q[i]
            BY <2>3, <5>2, <6>1
          <6>3. QED
            BY <4>2, <6>2
        <5>3. QED
          BY <5>1, <5>2
      <4>3. QED
        BY <4>1, <4>2
    <3>3. QED
      BY <3>1, <3>2
  <2>8. Len(Sent)' \in Nat /\ Len(Sent)' >= Len(Sent)
    BY <1>2, <2>3
  <2>9. QED
    BY <1>2, <2>2, <2>3, <2>5, <2>6, <2>7, <2>8, ListKept
<1>10. CASE Write /\ UNCHANGED trayVars
  <2>1. Len(Sent)' = Len(Sent) /\ \A i \in 1..Len(Sent) : Sent'[i] = Sent[i]
    BY <1>1, <1>10, SentWritten
  <2>2. UNCHANGED <<feed, list, unsaid, tray, session, missed>>
    BY <1>10 DEF Write, daemon, trayVars
  <2>3. ListTold
    BY <2>2 DEF ListInv
  <2>4. \A i \in 1..Len(Sent)' : ~(i > Len(Sent))
    BY <1>2, <2>1
  <2>5. QED
    BY <1>2, <2>1, <2>2, <2>3, <2>4, ListKept
<1>11. CASE (Greet \/ GetStatus) /\ UNCHANGED trayVars
  <2>1. Head(<<"GetStatus">>) = "GetStatus" /\ Head(<<"ListPresets">>) = "ListPresets"
    OBVIOUS
  <2>2. feed' = feed
    BY <1>11 DEF Greet, GetStatus
  <2>3. feed = None
    BY <1>1, <1>11, <2>1 DEF PhaseInv, SessionInv, Exchange, Greet, GetStatus, Asks
  <2>4. QED
    BY <2>2, <2>3
<1>12. CASE DaemonDies \/ DaemonStarts
  BY <1>12 DEF DaemonDies, DaemonStarts, PhaseInv, connection
<1>13. CASE TraySteps
  BY <1>13, ListRead
<1>14. QED
  BY <1>3, <1>4, <1>6, <1>7, <1>8, <1>9, <1>10, <1>11, <1>12, <1>13
  DEF LinkNext, DaemonElse

(* The active mark.                                                        *)
LEMMA NamedKept ==
  ASSUME NEW k \in Nat, NamedAfter(k), Len(Sent) \in Nat, Len(Sent)' \in Nat,
         Len(Sent)' >= Len(Sent), \A i \in 1..Len(Sent) : Sent'[i] = Sent[i],
         \A i \in 1..Len(Sent)' : i > Len(Sent) => ~NamesOnWire(Sent'[i]),
         ActiveAt(k)' = ActiveAt(k), active' = active
  PROVE  NamedAfter(k)'
<1>1. ASSUME NEW n \in Nat, \A i \in 1..Len(Sent) : i > n => ~NamesOnWire(Sent[i])
      PROVE  \A i \in 1..Len(Sent)' : i > n => ~NamesOnWire(Sent'[i])
  <2> SUFFICES ASSUME NEW i \in 1..Len(Sent)', i > n PROVE ~NamesOnWire(Sent'[i])
    OBVIOUS
  <2>1. CASE i > Len(Sent)
    BY <2>1
  <2>2. CASE ~(i > Len(Sent))
    BY <1>1, <2>2
  <2>3. QED
    BY <2>1, <2>2
<1>2. CASE \E i \in 1..Len(Sent) :
             /\ i > k /\ NamesOnWire(Sent[i]) /\ Sent[i].event.preset = active
             /\ \A j \in 1..Len(Sent) : j > i => ~NamesOnWire(Sent[j])
  <2>1. PICK i \in 1..Len(Sent) :
          /\ i > k /\ NamesOnWire(Sent[i]) /\ Sent[i].event.preset = active
          /\ \A j \in 1..Len(Sent) : j > i => ~NamesOnWire(Sent[j])
    BY <1>2
  <2>2. i \in 1..Len(Sent)' /\ Sent'[i] = Sent[i]
    BY <2>1
  <2>3. \A j \in 1..Len(Sent)' : j > i => ~NamesOnWire(Sent'[j])
    BY <1>1, <2>1
  <2>4. QED
    BY <2>1, <2>2, <2>3 DEF NamedAfter
<1>3. CASE /\ \A i \in 1..Len(Sent) : i > k => ~NamesOnWire(Sent[i])
           /\ ActiveAt(k) = active
  BY <1>1, <1>3 DEF NamedAfter
<1>4. QED
  BY <1>2, <1>3 DEF NamedAfter

(* A frame before the basis is read.                                       *)
LEMMA NamedShift ==
  ASSUME NEW k \in Nat, NamedAfter(k + 1), Len(Sent) \in Nat,
         Len(Sent)' = Len(Sent) - 1,
         \A i \in 1..Len(Sent)' : Sent'[i] = Sent[i+1],
         ActiveAt(k)' = ActiveAt(k + 1), active' = active
  PROVE  NamedAfter(k)'
<1>1. ASSUME NEW n \in Nat, \A i \in 1..Len(Sent) : i > n + 1 => ~NamesOnWire(Sent[i])
      PROVE  \A i \in 1..Len(Sent)' : i > n => ~NamesOnWire(Sent'[i])
  <2> SUFFICES ASSUME NEW i \in 1..Len(Sent)', i > n PROVE ~NamesOnWire(Sent'[i])
    OBVIOUS
  <2>1. i + 1 \in 1..Len(Sent) /\ i + 1 > n + 1 /\ Sent'[i] = Sent[i+1]
    OBVIOUS
  <2>2. QED
    BY <1>1, <2>1
<1>2. CASE \E i \in 1..Len(Sent) :
             /\ i > k + 1 /\ NamesOnWire(Sent[i]) /\ Sent[i].event.preset = active
             /\ \A j \in 1..Len(Sent) : j > i => ~NamesOnWire(Sent[j])
  <2>1. PICK i \in 1..Len(Sent) :
          /\ i > k + 1 /\ NamesOnWire(Sent[i]) /\ Sent[i].event.preset = active
          /\ \A j \in 1..Len(Sent) : j > i => ~NamesOnWire(Sent[j])
    BY <1>2
  <2>2. PICK n : n = i - 1
    OBVIOUS
  <2>3. n \in 1..Len(Sent)' /\ n > k /\ Sent'[n] = Sent[i] /\ n \in Nat /\ i = n + 1
    BY <2>1, <2>2
  <2>4. \A j \in 1..Len(Sent)' : j > n => ~NamesOnWire(Sent'[j])
    BY <1>1, <2>1, <2>3
  <2>5. QED
    BY <2>1, <2>3, <2>4 DEF NamedAfter
<1>3. CASE /\ \A i \in 1..Len(Sent) : i > k + 1 => ~NamesOnWire(Sent[i])
           /\ ActiveAt(k + 1) = active
  BY <1>1, <1>3 DEF NamedAfter
<1>4. QED
  BY <1>2, <1>3 DEF NamedAfter

(* The session is the basis, and what is read goes into it.                *)
LEMMA NamedFolded ==
  ASSUME NamedAfter(0), Len(Sent) \in Nat, Len(Sent) > 0,
         Len(Sent)' = Len(Sent) - 1,
         \A i \in 1..Len(Sent)' : Sent'[i] = Sent[i+1],
         ActiveAt(0)' = IF NamesOnWire(Sent[1]) THEN Sent[1].event.preset
                        ELSE ActiveAt(0),
         active' = active
  PROVE  NamedAfter(0)'
<1>1. ASSUME NEW n \in Nat, \A i \in 1..Len(Sent) : i > n + 1 => ~NamesOnWire(Sent[i])
      PROVE  \A i \in 1..Len(Sent)' : i > n => ~NamesOnWire(Sent'[i])
  <2> SUFFICES ASSUME NEW i \in 1..Len(Sent)', i > n PROVE ~NamesOnWire(Sent'[i])
    OBVIOUS
  <2>1. i + 1 \in 1..Len(Sent) /\ i + 1 > n + 1 /\ Sent'[i] = Sent[i+1]
    OBVIOUS
  <2>2. QED
    BY <1>1, <2>1
<1>2. ASSUME NEW i \in 1..Len(Sent), NamesOnWire(Sent[i]),
             Sent[i].event.preset = active,
             \A j \in 1..Len(Sent) : j > i => ~NamesOnWire(Sent[j])
      PROVE  NamedAfter(0)'
  <2>1. PICK n : n = i - 1
    OBVIOUS
  <2>2. n \in Nat /\ i = n + 1
    BY <2>1
  <2>3. \A j \in 1..Len(Sent)' : j > n => ~NamesOnWire(Sent'[j])
    BY <1>1, <1>2, <2>2
  <2>4. CASE i = 1
    <3>1. ActiveAt(0)' = active'
      BY <1>2, <2>4
    <3>2. n = 0
      BY <2>1, <2>4
    <3>3. QED
      BY <2>3, <3>1, <3>2 DEF NamedAfter
  <2>5. CASE i # 1
    <3>1. n \in 1..Len(Sent)' /\ n > 0 /\ Sent'[n] = Sent[i]
      BY <2>2, <2>5
    <3>2. QED
      BY <1>2, <2>3, <3>1 DEF NamedAfter
  <2>6. QED
    BY <2>4, <2>5
<1>3. CASE /\ \A i \in 1..Len(Sent) : i > 0 => ~NamesOnWire(Sent[i])
           /\ ActiveAt(0) = active
  <2>1. ~NamesOnWire(Sent[1]) /\ \A i \in 1..Len(Sent) : i > 0 + 1 => ~NamesOnWire(Sent[i])
    BY <1>3
  <2>2. \A i \in 1..Len(Sent)' : i > 0 => ~NamesOnWire(Sent'[i])
    BY <1>1, <2>1
  <2>3. QED
    BY <1>3, <2>1, <2>2 DEF NamedAfter
<1>4. QED
  BY <1>2, <1>3 DEF NamedAfter

(* Frames that follow leave the mark alone unless they name a preset.      *)
LEMMA ActiveKept ==
  ASSUME ActiveTold, Len(Sent) \in Nat, Len(Sent)' \in Nat,
         Len(Sent)' >= Len(Sent), \A i \in 1..Len(Sent) : Sent'[i] = Sent[i],
         \A i \in 1..Len(Sent)' : i > Len(Sent) =>
           Sent'[i].frame # "Presets" /\ ~NamesOnWire(Sent'[i]),
         UNCHANGED <<tray, session, active>>, feed'.bus = feed.bus
  PROVE  ActiveTold'
<1>1. ASSUME NEW k \in 0..Len(Sent)', Basis(k)',
             \A b \in 0..Len(Sent) : Basis(b) => NamedAfter(b)
      PROVE  NamedAfter(k)'
  <2>1. k \in 0..Len(Sent)
    BY <1>1 DEF Basis
  <2>2. k # 0 => Sent'[k] = Sent[k]
    BY <2>1
  <2>3. Basis(k) /\ ActiveAt(k)' = ActiveAt(k)
    BY <1>1, <2>1, <2>2 DEF Basis, ActiveAt
  <2>4. NamedAfter(k) /\ k \in Nat
    BY <1>1, <2>1, <2>3
  <2>5. QED
    BY <2>3, <2>4, NamedKept
<1>2. QED
  BY <1>1 DEF ActiveTold

(* The last name of the bus stays its last, unless it is dropped without a *)
(* successor.                                                              *)
LEMMA ActivePushed ==
  ASSUME WireInv, FeedInv, NEW e \in Event, feed # None, Broadcast("bus", e),
         ~Names(e), "active" \notin Overwritten,
         UNCHANGED <<frames, outbox, tray, session, active>>, ActiveTold
  PROVE  ActiveTold'
<1> DEFINE q == feed.bus
           r == Push(q, e)
<1>1. q \in Seq(Event) /\ feed'.bus = r
  BY Broadcasts DEF Feed
<1>2. Overwritten = IF Len(q) < FeedCap THEN {}
                    ELSE FacetOf(Head(q)) \ UNION {FacetOf(q[i]) : i \in 2..Len(q)}
  BY DEF Overwritten
<1>3. \A i \in 1..Len(q) : q[i].event \in {"PresetsChanged", "ConfigApplied"}
  BY DEF FeedInv
<1>4. /\ \E i \in 1..Len(q) : /\ Names(q[i]) /\ q[i].preset = active
                              /\ \A j \in 1..Len(q) : j > i => ~Names(q[j])
      \/ /\ \A i \in 1..Len(q) : ~Names(q[i])
         /\ \A k \in 0..Len(Sent) : Basis(k) => NamedAfter(k)
  BY DEF ActiveTold
<1> HIDE DEF q
<1>5. /\ Len(r) > 0 /\ r[Len(r)] = e /\ Len(r) \in Nat /\ Len(q) \in Nat
      /\ \/ /\ Len(q) < FeedCap /\ Len(r) = Len(q) + 1
            /\ \A i \in 1..Len(q) : r[i] = q[i]
         \/ /\ ~(Len(q) < FeedCap) /\ Len(q) > 0 /\ Len(r) = Len(q)
            /\ Head(q) = q[1]
            /\ \A i \in 1..Len(q) - 1 : r[i] = q[i+1]
  BY <1>1, QueuePushed, ControlAssumption
<1> HIDE DEF r
<1>6. CASE \E i \in 1..Len(q) : /\ Names(q[i]) /\ q[i].preset = active
                                /\ \A j \in 1..Len(q) : j > i => ~Names(q[j])
  <2>1. PICK i \in 1..Len(q) : /\ Names(q[i]) /\ q[i].preset = active
                               /\ \A j \in 1..Len(q) : j > i => ~Names(q[j])
    BY <1>6
  <2>2. ASSUME NEW n \in 1..Len(r), r[n] = q[i],
               \A j \in 1..Len(r) : j > n => ~Names(r[j])
        PROVE  ActiveTold'
    BY <1>1, <2>1, <2>2 DEF ActiveTold
  <2>3. CASE Len(q) < FeedCap
    <3>1. i \in 1..Len(r) /\ r[i] = q[i] /\ Len(r) = Len(q) + 1
      BY <1>5, <2>1, <2>3
    <3>2. ASSUME NEW j \in 1..Len(r), j > i PROVE ~Names(r[j])
      <4>1. CASE j = Len(r)
        BY <1>5, <4>1
      <4>2. CASE j # Len(r)
        <5>1. j \in 1..Len(q) /\ r[j] = q[j]
          BY <1>5, <2>3, <3>1, <4>2
        <5>2. QED
          BY <2>1, <3>2, <5>1
      <4>3. QED
        BY <4>1, <4>2
    <3>3. QED
      BY <2>2, <3>1, <3>2
  <2>4. CASE ~(Len(q) < FeedCap)
    <3>1. i # 1
      <4>1. SUFFICES ASSUME i = 1 PROVE FALSE
        OBVIOUS
      <4>2. "active" \in FacetOf(Head(q))
        BY <1>3, <1>5, <2>1, <2>4, <4>1 DEF Names, FacetOf
      <4>3. PICK j \in 2..Len(q) : "active" \in FacetOf(q[j])
        BY <1>2, <2>4, <4>2
      <4>4. j \in 1..Len(q) /\ j > i
        BY <1>5, <4>1, <4>3
      <4>5. Names(q[j])
        BY <1>3, <4>3, <4>4 DEF FacetOf, Names
      <4>6. QED
        BY <2>1, <4>4, <4>5
    <3>2. PICK n : n = i - 1
      OBVIOUS
    <3>3. /\ n \in 1..Len(r) /\ r[n] = q[i] /\ Len(r) = Len(q) /\ i = n + 1
          /\ n \in 1..Len(q) - 1
      BY <1>5, <2>1, <2>4, <3>1, <3>2
    <3>4. ASSUME NEW j \in 1..Len(r), j > n PROVE ~Names(r[j])
      <4>1. CASE j = Len(r)
        BY <1>5, <4>1
      <4>2. CASE j # Len(r)
        <5>1. j + 1 \in 1..Len(q) /\ r[j] = q[j+1] /\ j + 1 > i
          BY <1>5, <2>4, <3>3, <3>4, <4>2
        <5>2. QED
          BY <2>1, <5>1
      <4>3. QED
        BY <4>1, <4>2
    <3>5. QED
      BY <2>2, <3>3, <3>4
  <2>5. QED
    BY <2>3, <2>4
<1>7. CASE /\ \A i \in 1..Len(q) : ~Names(q[i])
           /\ \A k \in 0..Len(Sent) : Basis(k) => NamedAfter(k)
  <2>1. \A i \in 1..Len(r) : ~Names(r[i])
    <3> SUFFICES ASSUME NEW i \in 1..Len(r) PROVE ~Names(r[i])
      OBVIOUS
    <3>1. CASE i = Len(r)
      BY <1>5, <3>1
    <3>2. CASE i # Len(r)
      BY <1>5, <1>7, <3>2
    <3>3. QED
      BY <3>1, <3>2
  <2>2. Sent' = Sent
    BY DEF Sent
  <2>3. \A k \in 0..Len(Sent)' : Basis(k)' => NamedAfter(k)'
    BY <1>7, <2>2 DEF Basis, NamedAfter, ActiveAt
  <2>4. QED
    BY <1>1, <2>1, <2>3 DEF ActiveTold
<1>8. QED
  BY <1>4, <1>6, <1>7

(* A name that is pushed is the last.                                      *)
LEMMA ActiveNamed ==
  ASSUME WireInv, NEW e \in Event, feed # None, Broadcast("bus", e),
         Names(e), e.preset = active'
  PROVE  ActiveTold'
<1> DEFINE q == feed.bus
           r == Push(q, e)
<1>1. q \in Seq(Event) /\ feed'.bus = r
  BY Broadcasts DEF Feed
<1> HIDE DEF q
<1>2. Len(r) > 0 /\ r[Len(r)] = e /\ Len(r) \in Nat
  BY <1>1, QueuePushed, PushType
<1> HIDE DEF r
<1>3. PICK n : n = Len(r)
  OBVIOUS
<1>4. n \in 1..Len(r) /\ r[n] = e /\ \A j \in 1..Len(r) : ~(j > n)
  BY <1>2, <1>3
<1>5. QED
  BY <1>1, <1>4 DEF ActiveTold

(* A name moves from the end of the broadcast to the end of the socket.    *)
LEMMA ActiveDelivered ==
  ASSUME WireInv, PhaseInv, Deliver("bus"), UNCHANGED <<tray, session>>, ActiveTold
  PROVE  ActiveTold'
<1> DEFINE q == feed.bus
           r == feed'.bus
           f == [frame |-> "Event", event |-> Head(q)]
<1>1. /\ q \in Seq(Event) /\ Head(q) = q[1] /\ Len(q) > 0
      /\ Len(r) = Len(q) - 1
      /\ \A i \in 1..Len(q) - 1 : r[i] = q[i+1]
      /\ Len(Sent)' = Len(Sent) + 1 /\ Sent'[Len(Sent) + 1] = f
      /\ \A i \in 1..Len(Sent) : Sent'[i] = Sent[i]
  BY EventTaken DEF Feed
<1>2. f.frame = "Event" /\ f.event = Head(q) /\ Len(Sent) \in Nat
  BY SentSeq
<1>3. active' = active
  BY DEF Deliver, daemon
<1>4. \/ \E i \in 1..Len(q) : /\ Names(q[i]) /\ q[i].preset = active
                              /\ \A j \in 1..Len(q) : j > i => ~Names(q[j])
      \/ /\ \A i \in 1..Len(q) : ~Names(q[i])
         /\ \A k \in 0..Len(Sent) : Basis(k) => NamedAfter(k)
  BY DEF ActiveTold
<1>5. ActiveTold' <=>
        \/ \E i \in 1..Len(r) : /\ Names(r[i]) /\ r[i].preset = active
                                /\ \A j \in 1..Len(r) : j > i => ~Names(r[j])
        \/ /\ \A i \in 1..Len(r) : ~Names(r[i])
           /\ \A k \in 0..Len(Sent)' : Basis(k)' => NamedAfter(k)'
  BY <1>3 DEF ActiveTold
<1>6. ASSUME NEW k \in 0..Len(Sent)', Basis(k)'
      PROVE  k \in 0..Len(Sent) /\ Basis(k) /\ ActiveAt(k)' = ActiveAt(k)
  <2>1. k \in 0..Len(Sent)
    <3>1. k # Len(Sent) + 1
      BY <1>1, <1>2, <1>6 DEF Basis
    <3>2. QED
      BY <1>1, <1>2, <3>1
  <2>2. k # 0 => Sent'[k] = Sent[k]
    BY <1>1, <1>2, <2>1
  <2>3. QED
    BY <1>2, <1>6, <2>1, <2>2 DEF Basis, ActiveAt
<1> HIDE DEF f, q, r
<1>7. \A i \in 1..Len(r) : r[i] = q[i+1] /\ i + 1 \in 1..Len(q)
  BY <1>1
<1>8. ASSUME NEW i \in 1..Len(q), Names(q[i]), q[i].preset = active,
             \A j \in 1..Len(q) : j > i => ~Names(q[j])
      PROVE  ActiveTold'
  <2>1. CASE i = 1
    <3>1. \A j \in 1..Len(r) : ~Names(r[j])
      BY <1>1, <1>7, <1>8, <2>1
    <3>2. PICK n : n = Len(Sent) + 1
      OBVIOUS
    <3>3. n \in 1..Len(Sent)' /\ Sent'[n] = f /\ \A j \in 1..Len(Sent)' : ~(j > n)
      BY <1>1, <1>2, <3>2
    <3>4. NamesOnWire(Sent'[n]) /\ Sent'[n].event.preset = active'
      BY <1>1, <1>2, <1>3, <1>8, <2>1, <3>3 DEF NamesOnWire
    <3>5. \A k \in 0..Len(Sent)' : Basis(k)' => n > k
      BY <1>2, <1>6, <3>2
    <3>6. \A k \in 0..Len(Sent)' : Basis(k)' => NamedAfter(k)'
      BY <3>3, <3>4, <3>5 DEF NamedAfter
    <3>7. QED
      BY <1>5, <3>1, <3>6
  <2>2. CASE i # 1
    <3>1. PICK n : n = i - 1
      OBVIOUS
    <3>2. n \in 1..Len(r) /\ r[n] = q[i] /\ i = n + 1
      BY <1>1, <2>2, <3>1
    <3>3. \A j \in 1..Len(r) : j > n => ~Names(r[j])
      <4> SUFFICES ASSUME NEW j \in 1..Len(r), j > n PROVE ~Names(r[j])
        OBVIOUS
      <4>1. j + 1 \in 1..Len(q) /\ j + 1 > i /\ r[j] = q[j+1]
        BY <1>7, <3>2
      <4>2. QED
        BY <1>8, <4>1
    <3>4. QED
      BY <1>5, <1>8, <3>2, <3>3
  <2>3. QED
    BY <2>1, <2>2
<1>9. ASSUME \A i \in 1..Len(q) : ~Names(q[i]),
             \A k \in 0..Len(Sent) : Basis(k) => NamedAfter(k)
      PROVE  ActiveTold'
  <2>1. \A j \in 1..Len(r) : ~Names(r[j])
    BY <1>7, <1>9
  <2>2. ~NamesOnWire(f)
    <3>1. 1 \in 1..Len(q)
      BY <1>1
    <3>2. QED
      BY <1>1, <1>2, <1>9, <3>1 DEF NamesOnWire
  <2>3. \A i \in 1..Len(Sent)' : i > Len(Sent) => ~NamesOnWire(Sent'[i])
    BY <1>1, <1>2, <2>2
  <2>4. Len(Sent)' \in Nat /\ Len(Sent)' >= Len(Sent)
    BY <1>1, <1>2
  <2>5. ASSUME NEW k \in 0..Len(Sent)', Basis(k)' PROVE NamedAfter(k)'
    <3>1. k \in Nat /\ NamedAfter(k) /\ ActiveAt(k)' = ActiveAt(k)
      BY <1>6, <1>9, <2>5
    <3>2. QED
      BY <1>1, <1>2, <1>3, <2>3, <2>4, <3>1, NamedKept
  <2>6. QED
    BY <1>5, <2>1, <2>5
<1>10. QED
  BY <1>4, <1>8, <1>9

(* What reading a frame leaves of the mark.                                *)
LEMMA ActiveRead ==
  ASSUME LinkInv, PhaseInv, ActiveInv, feed' # None,
         "active" \notin missed', ~Pending(unsaid)', TraySteps
  PROVE  ActiveTold'
<1>1. WireInv /\ SessionInv
  BY LinkParts
<1>2. CASE Connects \/ Greeted \/ SeedsStatus \/ SeedsPresets \/ Loses
  <2>1. feed' = feed
    BY <1>2 DEF Connects, Greeted, SeedsStatus, SeedsPresets, Loses, Asking,
       controlVars, connection
  <2>2. feed = None
    BY <1>2 DEF Connects, Greeted, SeedsStatus, SeedsPresets, Loses, PhaseInv
  <2>3. QED
    BY <2>1, <2>2
<1>3. CASE HearsPresetsChanged \/ Subscribed \/ Folds \/ Skips \/ Refetched
  <2>1. /\ frames # <<>> /\ frames' = Tail(frames) /\ outbox' = outbox
        /\ UNCHANGED <<feed, active, unsaid>>
    BY <1>3 DEF HearsPresetsChanged, Subscribed, Folds, Skips, Refetched, Received,
       Asking, Reading, daemon
  <2>2. missed \subseteq missed'
    BY <1>3 DEF HearsPresetsChanged, Subscribed, Folds, Skips, Refetched
  <2>3. ActiveTold
    BY <2>1, <2>2 DEF ActiveInv, Pending
  <2>4. /\ Len(Sent) \in Nat /\ Len(Sent) > 0
        /\ Len(Sent)' = Len(Sent) - 1
        /\ \A i \in 1..Len(Sent)' : Sent'[i] = Sent[i+1]
    BY <1>1, <2>1, SentSeq, SentRead
  <2>5. ASSUME \A b \in 0..Len(Sent) : Basis(b) => NamedAfter(b),
               NEW k \in 0..Len(Sent)', Basis(k)'
        PROVE  NamedAfter(k)'
    <3>1. ~HearsPresetsChanged
      BY <1>1, <2>1, <2>5, NoBasis
    <3>2. CASE /\ k = 0 /\ Basis(0)
               /\ ActiveAt(0)' = IF NamesOnWire(Sent[1]) THEN Sent[1].event.preset
                                 ELSE ActiveAt(0)
      <4>1. NamedAfter(0)
        BY <2>4, <2>5, <3>2
      <4>2. NamedAfter(0)'
        BY <2>1, <2>4, <3>2, <4>1, NamedFolded
      <4>3. QED
        BY <3>2, <4>2
    <3>3. CASE /\ k + 1 \in 1..Len(Sent) /\ Basis(k + 1)
               /\ ActiveAt(k)' = ActiveAt(k + 1)
      <4>1. NamedAfter(k + 1) /\ k \in Nat
        BY <2>4, <2>5, <3>3
      <4>2. QED
        BY <2>1, <2>4, <3>3, <4>1, NamedShift
    <3>4. QED
      BY <1>1, <1>3, <2>1, <2>5, <3>1, <3>2, <3>3, BasisRead
  <2>6. QED
    BY <2>1, <2>3, <2>5 DEF ActiveTold
<1>4. QED
  BY <1>2, <1>3 DEF TraySteps

(* What a reply leaves of it.                                              *)
LEMMA ActiveServed ==
  ASSUME LinkInv, PhaseInv, ActiveInv, feed' # None,
         "active" \notin missed', ~Pending(unsaid)',
         SubscribeServed \/ ListServed
  PROVE  ActiveTold'
<1>1. WireInv
  BY LinkParts
<1>2. CASE SubscribeServed
  <2>1. feed'.bus = <<>>
    BY <1>2 DEF SubscribeServed, Subscribe, Feed
  <2>2. ASSUME NEW k \in 0..Len(Sent)', Basis(k)' PROVE NamedAfter(k)'
    <3>1. /\ k = 0 /\ session # None /\ UNCHANGED <<session, active, unsaid>>
          /\ \A i \in 1..Len(Sent)' : Sent'[i].frame # "Event"
      BY <1>2, <2>2, ServedBasis
    <3>2. "active" \in Facet /\ "active" \notin Differs /\ ~Pending(unsaid)
      BY <1>2, <3>1 DEF SubscribeServed, Facet, Pending
    <3>3. session.active = active
      BY <3>1, <3>2 DEF Differs
    <3>4. QED
      BY <3>1, <3>3 DEF NamedAfter, NamesOnWire, ActiveAt
  <2>3. QED
    BY <2>1, <2>2 DEF ActiveTold
<1>3. CASE ListServed
  <2>1. UNCHANGED <<feed, active, unsaid>>
    BY <1>3 DEF ListServed, ListPresets, Asks, daemon
  <2>2. \A k \in 0..Len(Sent)' : Basis(k)' => NamedAfter(k)'
    BY <1>3, ServedBasis DEF NamedAfter
  <2>3. CASE \A i \in 1..Len(feed.bus) : ~Names(feed.bus[i])
    BY <2>1, <2>2, <2>3 DEF ActiveTold
  <2>4. CASE \E i \in 1..Len(feed.bus) : Names(feed.bus[i])
    <3>1. PICK i \in 1..Len(feed.bus) : Names(feed.bus[i])
      BY <2>4
    <3>2. "bus" \in Feed /\ feed["bus"] \in Seq(Event)
      BY <1>1, <2>1 DEF Feed, WireInv
    <3>3. i \in DOMAIN feed["bus"] /\ "active" \in FacetOf(feed["bus"][i])
      BY <3>1, <3>2 DEF Names, FacetOf
    <3>4. InFlight("active")
      BY <2>1, <3>2, <3>3 DEF InFlight
    <3>5. "active" \notin missed /\ ~Pending(unsaid)
      BY <1>3, <2>1, <3>4 DEF ListServed, Told, Pending
    <3>6. ActiveTold
      BY <2>1, <3>5 DEF ActiveInv
    <3>7. QED
      BY <2>1, <3>1, <3>6 DEF ActiveTold
  <2>5. QED
    BY <2>3, <2>4
<1>4. QED
  BY <1>2, <1>3

(* What is announced; a name that is not the present one leaves the mark   *)
(* to an announcement still to come.                                       *)
LEMMA ActiveAnnounced ==
  ASSUME LinkInv, FeedInv, ActiveInv, feed' # None,
         "active" \notin missed', ~Pending(unsaid)',
         NEW e \in unsaid, Announced(e)
  PROVE  ActiveTold'
<1>1. DaemonInv /\ WireInv
  BY LinkParts
<1>2. /\ Broadcast("bus", e) /\ UNCHANGED <<frames, outbox, tray, session, active>>
      /\ unsaid' = unsaid \ {e}
  BY DEF Announced, Announce
<1>3. feed # None
  BY <1>2 DEF Broadcast
<1>4. e \in Event /\ e \in BusEvent
  BY <1>1, EventFacts DEF DaemonInv
<1>5. CASE e = Applied(active) /\ active # None
  <2>1. Names(e) /\ e.preset = active'
    BY <1>2, <1>5 DEF Applied, Names
  <2>2. QED
    BY <1>1, <1>2, <1>3, <1>4, <2>1, ActiveNamed
<1>6. CASE e = Listed \/ e = Applied(None)
  <2> DEFINE said == Applied(active)
  <2>1. ~Names(e) /\ (active # None => Names(said))
    <3>1. Listed.event = "PresetsChanged"
      BY DEF Listed
    <3>2. Applied(None).preset = None
      BY DEF Applied
    <3>3. said.event = "ConfigApplied" /\ said.preset = active
      BY DEF Applied
    <3> HIDE DEF said
    <3>4. e.event = "PresetsChanged" \/ e.preset = None
      BY <1>6, <3>1, <3>2
    <3>5. QED
      BY <3>3, <3>4 DEF Names
  <2> HIDE DEF said
  <2>2. "active" \notin missed \cup Overwritten
    <3>1. Listed.event # Applied(None).event
      BY DEF Listed, Applied
    <3>2. ~(active # None /\ e = said)
      BY <2>1
    <3>3. missed' \in {missed \cup Overwritten, (missed \cup Overwritten) \ {"list"}}
      BY <1>6, <3>1, <3>2 DEF Announced, said
    <3>4. QED
      BY <3>3
  <2>3. ~Pending(unsaid)
    BY <1>2, <2>1 DEF Pending, said
  <2>4. ActiveTold
    BY <1>3, <2>2, <2>3 DEF ActiveInv
  <2>5. QED
    BY <1>1, <1>2, <1>3, <1>4, <2>1, <2>2, <2>4, ActivePushed
<1>7. CASE e # Listed /\ e # Applied(None) /\ e # Applied(active)
  <2>1. ~Pending(unsaid')
    BY <1>2 DEF Pending
  <2>2. "active" \in missed'
    BY <1>7, <2>1 DEF Announced
  <2>3. QED
    BY <2>2
<1>8. QED
  BY <1>5, <1>6, <1>7

(* The mark is told, whatever happens.                                     *)
LEMMA ActiveStep ==
  ASSUME LinkInv, PhaseInv, FeedInv, ActiveInv, LinkNext
  PROVE  ActiveInv'
<1>1. RelayInv /\ DaemonInv /\ WireInv /\ SessionInv
  BY LinkParts
<1> SUFFICES ASSUME feed' # None, "active" \notin missed', ~Pending(unsaid)'
             PROVE  ActiveTold'
  BY DEF ActiveInv, Pending
<1>2. Len(Sent) \in Nat
  BY <1>1, SentSeq
<1>3. CASE SubscribeServed \/ ListServed
  BY <1>3, ActiveServed
<1>4. CASE \E e \in unsaid : Announced(e)
  BY <1>4, ActiveAnnounced
<1>5. CASE \/ (StateMoves \/ KanataMoves \/ StateSent) /\ UNCHANGED trayVars
           \/ LayerMoved \/ RelayMoved \/ PresetsMoved
  <2>1. /\ UNCHANGED <<frames, outbox, tray, session, active>>
        /\ unsaid \subseteq unsaid'
        /\ "active" \in missed => "active" \in missed'
    BY <1>5 DEF StateMoves, KanataMoves, StateSent, LayerMoved, LayerNamed, RelayMoved,
       RelayElse, PresetsMoved, PresetsMove, connection, daemon, trayVars
  <2>2. feed # None /\ feed'.bus = feed.bus
    <3>1. CASE UNCHANGED feed
      BY <3>1
    <3>2. ASSUME NEW name \in {"states", "layers"}, NEW e \in Event, Broadcast(name, e)
          PROVE  feed # None /\ feed'.bus = feed.bus
      <4>1. feed # None
        BY <3>2 DEF Broadcast
      <4>2. feed'["bus"] = feed["bus"]
        BY <1>1, <3>2, <4>1, Broadcasts DEF Feed
      <4>3. QED
        BY <4>1, <4>2
    <3>3. CASE StateSent
      <4>1. [event |-> "StateChanged", to |-> state] \in Event
        BY <1>1, EventFacts DEF RelayInv, RelayTypeOK
      <4>2. QED
        BY <3>2, <3>3, <4>1 DEF StateSent
    <3>4. CASE LayerMoved
      <4>1. Head(wire) \in Layer
        BY <1>1, <3>4, SeqFacts
        DEF LayerMoved, LayerNamed, SetLayer, RelayInv, RelayTypeOK
      <4>2. [event |-> "LayerChanged", layer |-> layer'] \in Event
        BY <3>4, <4>1, EventFacts DEF LayerMoved, LayerNamed, SetLayer
      <4>3. QED
        BY <3>1, <3>2, <3>4, <4>2 DEF LayerMoved, LayerNamed
    <3>5. QED
      BY <1>5, <3>1, <3>3, <3>4 DEF StateMoves, KanataMoves, RelayMoved, RelayElse,
         PresetsMoved, PresetsMove, connection
  <2>3. ~Pending(unsaid)
    BY <2>1 DEF Pending
  <2>4. ActiveTold
    BY <2>1, <2>2, <2>3 DEF ActiveInv
  <2>5. Sent' = Sent
    BY <2>1 DEF Sent
  <2>6. \A i \in 1..Len(Sent)' : ~(i > Len(Sent))
    BY <1>2, <2>5
  <2>7. QED
    BY <1>2, <2>1, <2>2, <2>4, <2>5, <2>6, ActiveKept
<1>6. CASE ConfigMoved
  <2>1. PICK p \in Preset \cup {None} :
          active' = p /\ unsaid' = unsaid \cup {Applied(p)}
    BY <1>6 DEF ConfigMoved, ConfigMoves
  <2>2. CASE p = None
    BY <1>6, <2>1, <2>2 DEF ConfigMoved
  <2>3. CASE p # None
    BY <2>1, <2>3 DEF Pending
  <2>4. QED
    BY <2>2, <2>3
<1>7. CASE (DeliverState \/ DeliverLayer \/ DeliverBus) /\ UNCHANGED trayVars
  <2>1. PICK name \in Feed : Deliver(name)
    BY <1>7 DEF DeliverState, DeliverLayer, DeliverBus, Feed
  <2>2. UNCHANGED <<active, unsaid, tray, session, missed>>
    BY <1>7, <2>1 DEF Deliver, daemon, trayVars
  <2> DEFINE q == feed[name]
             f == [frame |-> "Event", event |-> Head(q)]
  <2>3. /\ q \in Seq(Event) /\ Head(q) = q[1] /\ Len(q) > 0
        /\ \A n \in Feed : n # name => feed'[n] = feed[n]
        /\ feed # None
        /\ Len(Sent)' = Len(Sent) + 1 /\ Sent'[Len(Sent) + 1] = f
        /\ \A i \in 1..Len(Sent) : Sent'[i] = Sent[i]
    BY <1>1, <2>1, EventTaken
  <2>4. f.frame = "Event" /\ f.event = Head(q)
    OBVIOUS
  <2> HIDE DEF f
  <2>5. ActiveTold
    BY <2>2, <2>3 DEF ActiveInv, Pending
  <2>6. CASE name = "bus"
    BY <1>1, <2>1, <2>2, <2>5, <2>6, ActiveDelivered
  <2>7. CASE name # "bus"
    <3>1. feed'["bus"] = feed["bus"]
      BY <2>3, <2>7 DEF Feed
    <3>2. 1 \in 1..Len(q)
      BY <2>3
    <3>3. Head(q).event \in {"StateChanged", "LayerChanged"}
      BY <2>3, <2>7, <3>2 DEF FeedInv, Feed
    <3>4. ~NamesOnWire(f)
      BY <2>4, <3>3 DEF NamesOnWire, Names
    <3>5. \A i \in 1..Len(Sent)' : i > Len(Sent) =>
            Sent'[i].frame # "Presets" /\ ~NamesOnWire(Sent'[i])
      BY <1>2, <2>3, <2>4, <3>4
    <3>6. Len(Sent)' \in Nat /\ Len(Sent)' >= Len(Sent)
      BY <1>2, <2>3
    <3>7. QED
      BY <1>2, <2>2, <2>3, <2>5, <3>1, <3>5, <3>6, ActiveKept
  <2>8. QED
    BY <2>6, <2>7
<1>8. CASE Write /\ UNCHANGED trayVars
  <2>1. Len(Sent)' = Len(Sent) /\ \A i \in 1..Len(Sent) : Sent'[i] = Sent[i]
    BY <1>1, <1>8, SentWritten
  <2>2. UNCHANGED <<feed, active, unsaid, tray, session, missed>>
    BY <1>8 DEF Write, daemon, trayVars
  <2>3. ActiveTold
    BY <2>2 DEF ActiveInv, Pending
  <2>4. \A i \in 1..Len(Sent)' : ~(i > Len(Sent))
    BY <1>2, <2>1
  <2>5. QED
    BY <1>2, <2>1, <2>2, <2>3, <2>4, ActiveKept
<1>9. CASE (Greet \/ GetStatus) /\ UNCHANGED trayVars
  <2>1. Head(<<"GetStatus">>) = "GetStatus" /\ Head(<<"ListPresets">>) = "ListPresets"
    OBVIOUS
  <2>2. feed' = feed
    BY <1>9 DEF Greet, GetStatus
  <2>3. feed = None
    BY <1>1, <1>9, <2>1 DEF PhaseInv, SessionInv, Exchange, Greet, GetStatus, Asks
  <2>4. QED
    BY <2>2, <2>3
<1>10. CASE DaemonDies \/ DaemonStarts
  BY <1>10 DEF DaemonDies, DaemonStarts, PhaseInv, connection
<1>11. CASE TraySteps
  BY <1>11, ActiveRead
<1>12. QED
  BY <1>3, <1>4, <1>5, <1>6, <1>7, <1>8, <1>9, <1>10, <1>11
  DEF LinkNext, DaemonElse

(* The invariant of the menu.                                              *)
LEMMA MenuStarts == LinkInit => MenuInv
BY DEF LinkInit, ControlInit, MenuInv, PhaseInv, FeedInv, FactInv, ListInv, ActiveInv

LEMMA MenuStep ==
  ASSUME LinkInv, MenuInv, [LinkNext]_linkVars
  PROVE  MenuInv'
<1>1. CASE UNCHANGED linkVars
  <2>1. UNCHANGED <<up, served, requests, outbox, frames, feed, tray, session, missed,
                    state, announced, layer, list, active, unsaid>>
    BY <1>1 DEF linkVars, controlVars, relayVars, supervisor, daemon, connection,
       trayVars
  <2>2. Sent' = Sent
    BY <2>1 DEF Sent
  <2>3. PhaseInv'
    BY <2>1, PhaseFrame DEF MenuInv, PhaseInv
  <2>4. FeedInv' /\ FactInv' /\ ListInv' /\ ActiveInv'
    BY <2>1, <2>2
    DEF MenuInv, FeedInv, FactInv, ListInv, ActiveInv, Due, Tells, LastOnWire, ListTold,
        ActiveTold, NamedAfter, Basis, ListAt, ActiveAt, InSession, InDaemon, Pending
  <2>5. QED
    BY <2>3, <2>4 DEF MenuInv
<1>2. CASE LinkNext
  BY <1>2, PhaseStep, FeedStep, FactStep, ListStep, ActiveStep DEF MenuInv
<1>3. QED
  BY <1>1, <1>2

(* When everything sent has been read, nothing is on its way: the session  *)
(* itself has the facts and is the basis of the list.                      *)
LEMMA QuietShows ==
  ASSUME LinkInv, MenuInv
  PROVE  MenuIsCurrent
<1>1. WireInv /\ SessionInv
  BY LinkParts
<1> SUFFICES ASSUME Quiet
             PROVE  /\ "state" \notin missed => session.state = state
                    /\ "layer" \notin missed => session.layer = layer
                    /\ "list" \notin missed => session.list = list
                    /\ "active" \notin missed => session.active = active
  BY DEF MenuIsCurrent, LinkInv, StateShown, LayerShown, PresetsShown
<1>2. Len(Sent) = 0
  BY <1>1, SentSeq DEF Quiet
<1>3. \A name \in Feed : Len(feed[name]) = 0
  BY DEF Quiet
<1>4. ASSUME NEW name \in Fact, Due(name) PROVE InSession(name) = InDaemon(name)
  <2>1. Tells(name)
    BY <1>4 DEF MenuInv, FactInv, Quiet
  <2>2. Len(feed[name]) = 0
    BY <1>3 DEF Fact, Feed
  <2>3. QED
    BY <1>2, <2>1, <2>2 DEF Tells, LastOnWire
<1>5. "state" \notin missed => session.state = state
  BY <1>4 DEF Fact, Due, FacetNamed, InSession, InDaemon, Quiet
<1>6. "layer" \notin missed => session.layer = layer
  BY <1>4 DEF Fact, Due, FacetNamed, InSession, InDaemon
<1>7. Basis(0) /\ 0 \in 0..Len(Sent) /\ Len(feed.bus) = 0 /\ ~Pending(unsaid)
  BY <1>2, <1>3 DEF Basis, Quiet, Feed, Pending
<1>8. "list" \notin missed => session.list = list
  <2>1. SUFFICES ASSUME "list" \notin missed PROVE session.list = list
    OBVIOUS
  <2>2. ListTold
    BY <2>1 DEF MenuInv, ListInv, Quiet
  <2>3. QED
    BY <1>2, <1>7, <2>2 DEF ListTold, ListAt
<1>9. "active" \notin missed => session.active = active
  <2>1. SUFFICES ASSUME "active" \notin missed PROVE session.active = active
    OBVIOUS
  <2>2. ActiveTold
    BY <1>7, <2>1 DEF MenuInv, ActiveInv, Quiet
  <2>3. NamedAfter(0)
    BY <1>7, <2>2 DEF ActiveTold
  <2>4. QED
    BY <1>2, <2>3 DEF NamedAfter, ActiveAt
<1>10. QED
  BY <1>5, <1>6, <1>8, <1>9

(* However events, answers and the daemon's moves interleave, a menu whose *)
(* stream is quiet shows the daemon, but for the gaps that missed names.   *)
THEOREM MenuIsCurrentHolds == LinkSpec => []MenuIsCurrent
<1>1. LinkInit => LinkInv /\ MenuInv
  BY LinkStarts, MenuStarts
<1>2. LinkInv /\ MenuInv /\ [LinkNext]_linkVars => LinkInv' /\ MenuInv'
  BY LinkStep, MenuStep
<1>3. LinkInv /\ MenuInv => MenuIsCurrent
  BY QuietShows
<1>4. QED
  BY <1>1, <1>2, <1>3, PTL DEF LinkSpec
=============================================================================
