----------------------------- MODULE TraySession -----------------------------
(***************************************************************************)
(* The tray's event-stream client (tray/conn.rs, session.rs, kanatactl's   *)
(* Client) on the other end of ControlSocket.tla: it connects, seeds its   *)
(* session with GetStatus and ListPresets, subscribes, and folds events    *)
(* into the session; when the connection ends it shows "disconnected" and  *)
(* tries again.  A PresetsChanged event makes it ask for the list on the   *)
(* same connection, and the events that arrive before the answer are       *)
(* thrown away.                                                            *)
(***************************************************************************)
EXTENDS ControlSocket

VARIABLES
  tray,       \* where stream_connection is
  session,    \* the Session, or None when it holds nothing
  missed      \* history: what an event that never reached the session changed

trayVars == <<tray, session, missed>>
linkVars == <<controlVars, trayVars>>

Facet == {"state", "layer", "list", "active"}
Session ==
  [state : DaemonState, layer : Layer \cup {None}, list : 0..MoveCap,
   active : Preset \cup {None}]

ASSUME SessionAssumption == None \notin Session

LinkTypeOK ==
  /\ ControlTypeOK
  /\ tray \in {"Backoff", "Hello", "Status", "Presets", "Subscribe", "Stream",
               "Refetch"}
  /\ session \in Session \cup {None}
  /\ missed \in SUBSET Facet

LinkInit ==
  /\ ControlInit
  /\ tray = "Backoff"
  /\ session = None
  /\ missed = {}

-----------------------------------------------------------------------------
(* The connection, from the client's side.                                 *)

(* The delay of the reconnector is over and the daemon accepts (a connect  *)
(* that fails only starts another delay).                                  *)
Connects ==
  /\ tray = "Backoff"
  /\ up /\ served = "none"
  /\ served' = "greeting"
  /\ requests' = <<"Hello">>
  /\ frames' = <<>>
  /\ tray' = "Hello"
  /\ missed' = {}
  /\ UNCHANGED <<relayVars, daemon, outbox, feed, session>>

Received(kind) == frames # <<>> /\ Head(frames).frame = kind

(* The frame is consumed and the next request is written; into a closed    *)
(* connection it goes nowhere.                                             *)
Asking(request) ==
  /\ frames' = Tail(frames)
  /\ requests' =
       IF served = "none" THEN requests ELSE Append(requests, request)
  /\ UNCHANGED <<relayVars, daemon, served, outbox, feed>>

Reading ==
  /\ frames' = Tail(frames)
  /\ UNCHANGED <<relayVars, daemon, served, requests, outbox, feed>>

Greeted ==
  /\ tray = "Hello" /\ Received("HelloAck")
  /\ tray' = "Status"
  /\ Asking("GetStatus")
  /\ UNCHANGED <<session, missed>>

SeedsStatus ==
  /\ tray = "Status" /\ Received("Status")
  /\ session' = [state |-> Head(frames).state, layer |-> Head(frames).layer,
                 list |-> 0, active |-> None]
  /\ tray' = "Presets"
  /\ Asking("ListPresets")
  /\ UNCHANGED missed

WithPresets(reply) ==
  [session EXCEPT !.list = reply.list, !.active = reply.active]

SeedsPresets ==
  /\ tray = "Presets" /\ Received("Presets")
  /\ session' = WithPresets(Head(frames))
  /\ tray' = "Subscribe"
  /\ Asking("Subscribe")
  /\ UNCHANGED missed

Subscribed ==
  /\ tray = "Subscribe" /\ Received("Ack")
  /\ tray' = "Stream"
  /\ Reading
  /\ UNCHANGED <<session, missed>>

(* Session::apply_event.                                                   *)
Apply(e) ==
  CASE e.event = "StateChanged" -> [session EXCEPT !.state = e.to]
    [] e.event = "LayerChanged" -> [session EXCEPT !.layer = e.layer]
    [] e.event = "ConfigApplied" /\ e.preset # None ->
         [session EXCEPT !.active = e.preset]
    [] OTHER -> session

(* What an event tells of.                                                 *)
FacetOf(e) ==
  CASE e.event = "StateChanged" -> {"state"}
    [] e.event = "LayerChanged" -> {"layer"}
    [] e.event = "PresetsChanged" -> {"list"}
    [] OTHER -> IF e.preset = None THEN {} ELSE {"active"}

(* A ConfigApplied without a name leaves the mark on the old preset.       *)
Folds ==
  /\ tray = "Stream" /\ Received("Event")
  /\ Head(frames).event.event # "PresetsChanged"
  /\ session' = Apply(Head(frames).event)
  /\ Reading
  /\ UNCHANGED <<tray, missed>>

(* (The variant keeps the list it has.) *)
HearsAndKeeps ==
  /\ tray = "Stream" /\ Received("Event")
  /\ Head(frames).event.event = "PresetsChanged"
  /\ Reading
  /\ UNCHANGED trayVars

HearsPresetsChanged ==
  /\ tray = "Stream" /\ Received("Event")
  /\ Head(frames).event.event = "PresetsChanged"
  /\ tray' = "Refetch"
  /\ Asking("ListPresets")
  /\ UNCHANGED <<session, missed>>

(* Client::request skips the events before its answer.  The answer is      *)
(* younger than the events it follows, so only what it does not tell can   *)
(* be missed.                                                              *)
Sent == frames \o (IF outbox = None THEN <<>> ELSE <<outbox>>)

InFlight(x) ==
  \/ \E i \in 2..Len(Sent) : Sent[i].frame = "Event" /\ x \in FacetOf(Sent[i].event)
  \/ feed # None /\ \E name \in Feed : \E i \in DOMAIN feed[name] :
       x \in FacetOf(feed[name][i])

Skips ==
  /\ tray = "Refetch" /\ Received("Event")
  /\ missed' = missed \cup {x \in FacetOf(Head(frames).event) \cap {"state", "layer"} :
                            ~InFlight(x)}
  /\ Reading
  /\ UNCHANGED <<tray, session>>

Refetched ==
  /\ tray = "Refetch" /\ Received("Presets")
  /\ session' = WithPresets(Head(frames))
  /\ tray' = "Stream"
  /\ Reading
  /\ UNCHANGED missed

(* End of the stream: the session goes with the connection (in the         *)
(* variant only a stream that was seeded notices).                         *)
LosesStream ==
  /\ tray = "Stream"
  /\ served = "none" /\ frames = <<>>
  /\ tray' = "Backoff"
  /\ session' = None
  /\ missed' = {}
  /\ UNCHANGED controlVars

Loses ==
  /\ tray # "Backoff"
  /\ served = "none" /\ frames = <<>>
  /\ tray' = "Backoff"
  /\ session' = None
  /\ missed' = {}
  /\ UNCHANGED controlVars

-----------------------------------------------------------------------------
(* The history: the facets whose latest change the session can no longer   *)
(* learn from what is on its way.                                          *)

Pending(announcements) == active # None /\ Applied(active) \in announcements

Differs ==
  {x \in Facet :
     /\ session # None
     /\ CASE x = "state" -> session.state # state /\ announced
          [] x = "layer" -> session.layer # layer
          [] x = "list" -> session.list # list /\ Listed \notin unsaid
          [] OTHER -> session.active # active /\ ~Pending(unsaid)}

(* What changed between the seed and the subscription.                     *)
SubscribeServed ==
  /\ Subscribe
  /\ missed' = Differs
  /\ UNCHANGED <<tray, session>>

(* A refetched list tells all there is to know, unless an older            *)
(* ConfigApplied follows it.                                               *)
Told == {"list"} \cup (IF InFlight("active") THEN {} ELSE {"active"})

ListServed ==
  /\ ListPresets
  /\ missed' = IF feed = None THEN missed ELSE missed \ Told
  /\ UNCHANGED <<tray, session>>

(* The bus is shared: what its overflow drops may have no successor.       *)
Overwritten ==
  IF feed = None \/ Len(feed.bus) < FeedCap THEN {}
  ELSE FacetOf(Head(feed.bus))
         \ UNION {FacetOf(feed.bus[i]) : i \in 2..Len(feed.bus)}

PresetsMoved ==
  /\ PresetsMove
  /\ missed' = IF Listed \in unsaid' THEN missed ELSE missed \cup {"list"}
  /\ UNCHANGED <<tray, session>>

ConfigMoved ==
  /\ ConfigMoves
  /\ missed' = IF active' = None THEN missed \cup {"active"} ELSE missed
  /\ UNCHANGED <<tray, session>>

(* The announcements of two requests may cross.                            *)
Announced(e) ==
  /\ Announce(e)
  /\ missed' =
       LET lost == missed \cup Overwritten
       IN  CASE e = Listed -> lost \ {"list"}
             [] e = Applied(None) -> lost
             [] active # None /\ e = Applied(active) -> lost \ {"active"}
             [] OTHER -> IF Pending(unsaid') THEN lost ELSE lost \cup {"active"}
  /\ UNCHANGED <<tray, session>>

(* A layer is announced when it is named, never when it is cleared.        *)
LayerMoved ==
  /\ LayerNamed
  /\ missed' = IF layer' = layer THEN missed ELSE missed \ {"layer"}
  /\ UNCHANGED <<tray, session>>

RelayMoved ==
  /\ RelayElse
  /\ missed' = IF layer' = layer THEN missed ELSE missed \cup {"layer"}
  /\ UNCHANGED <<tray, session>>

DaemonElse ==
  /\ \/ StateMoves
     \/ StateSent
     \/ KanataMoves
     \/ Greet
     \/ GetStatus
     \/ DeliverState
     \/ DeliverLayer
     \/ DeliverBus
     \/ Write
     \/ DaemonDies
     \/ DaemonStarts
  /\ UNCHANGED trayVars

TraySteps ==
  \/ Connects
  \/ Greeted
  \/ SeedsStatus
  \/ SeedsPresets
  \/ Subscribed
  \/ Folds
  \/ HearsPresetsChanged
  \/ Skips
  \/ Refetched
  \/ Loses

LinkNext ==
  \/ TraySteps
  \/ SubscribeServed
  \/ ListServed
  \/ PresetsMoved
  \/ ConfigMoved
  \/ \E e \in unsaid : Announced(e)
  \/ LayerMoved
  \/ RelayMoved
  \/ DaemonElse

LinkSpec == LinkInit /\ [][LinkNext]_linkVars

(* Every task of both processes is scheduled, the relay's select! is not   *)
(* biased, and launchd (KeepAlive) starts the daemon again.                *)
LinkFairSpec ==
  /\ LinkSpec
  /\ WF_linkVars(TraySteps)
  /\ WF_linkVars(SubscribeServed \/ ListServed \/ (Serving /\ DaemonElse))
  /\ WF_linkVars(StateSent /\ DaemonElse)
  /\ WF_linkVars(\E e \in unsaid : Announced(e))
  /\ WF_linkVars(RelayMoved \/ LayerMoved)
  /\ SF_linkVars(LeaveRunning /\ RelayMoved)
  /\ WF_linkVars(DaemonStarts /\ DaemonElse)

-----------------------------------------------------------------------------
(* Everything sent has been read: what the menu shows now it shows until   *)
(* the next change.                                                        *)
Quiet ==
  /\ tray = "Stream"
  /\ served = "serving"
  /\ requests = <<>> /\ frames = <<>> /\ outbox = None
  /\ feed # None /\ \A name \in Feed : feed[name] = <<>>
  /\ announced /\ unsaid = {}

(* The state in the menu is the supervisor's, however much a slow tray lags *)
(* behind the broadcast: only a change that fell between the seed and the  *)
(* subscription, or beside a list being fetched, can be missing            *)
(* (conn.rs:84-92, lib.rs:68, control/mod.rs:500-517).                     *)
StateShown == Quiet /\ "state" \notin missed => session.state = state

(* The layer in the menu is the one kanata is on; besides those gaps, only *)
(* a kanata that is gone leaves its layer behind, since a cleared layer is *)
(* no event (session.rs:76, health/mod.rs:66-78).                          *)
LayerShown == Quiet /\ "layer" \notin missed => session.layer = layer

(* The presets in the menu are the daemon's list with its active mark,     *)
(* although a list is asked for while more events of the bus arrive and    *)
(* those are thrown away (conn.rs:103-105): the answer is younger than     *)
(* every event it makes the client skip.  Only what nobody says can be     *)
(* missing: a list that could not be written, a config applied without a   *)
(* preset, and a name overtaken by an older one.                           *)
PresetsShown ==
  Quiet => /\ "list" \notin missed => session.list = list
           /\ "active" \notin missed => session.active = active

(* Without a seeded connection there is nothing to show: no status of a    *)
(* dead daemon outlives its connection (session.rs:32-38).                 *)
NothingStale == session # None <=> tray \in {"Presets", "Subscribe", "Stream", "Refetch"}

(* What the menu shows is the daemon of the open connection.               *)
MenuIsCurrent == NothingStale /\ StateShown /\ LayerShown /\ PresetsShown

(* However the daemon dies and returns under the tray, the tray ends up    *)
(* subscribed and with all its events read (conn.rs:46-76, 80-115).        *)
Settles == <>[]Quiet
=============================================================================
