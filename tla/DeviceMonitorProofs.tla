-------------------------- MODULE DeviceMonitorProofs --------------------------
(***************************************************************************)
(* Theorems about DeviceMonitor.tla, for any devices, registry keys, HID   *)
(* nodes and capacity of the event channel.                                *)
(***************************************************************************)
EXTENDS DeviceMonitor, FiniteSetTheorems, TLAPS

LEMMA AnnouncedType ==
  ASSUME NEW change \in {"Added", "Removed"}, NEW d \in Device, NEW initial \in BOOLEAN
  PROVE  Announced(change, d, Nodes[d], initial) \in SUBSET DeviceEvent
<1>1. Nodes[d] \subseteq Usage
  BY DeviceAssumption
<1>2. QED
  BY <1>1 DEF Announced, DeviceEvent

LEMMA ApplyType ==
  ASSUME NEW reg \in [DeviceKey -> Usage \cup {Absent}], NEW e \in DeviceEvent
  PROVE  Apply(reg, e) \in [DeviceKey -> Usage \cup {Absent}]
BY DEF Apply, DeviceEvent, DeviceKey

LEMMA HeadOfEvents ==
  ASSUME MonitorTypeOK, events # <<>>
  PROVE  Head(events) \in DeviceEvent /\ Tail(events) \in Seq(DeviceEvent)
BY DEF MonitorTypeOK

LEMMA TypeInitial == MonitorInit => MonitorTypeOK
<1> SUFFICES ASSUME MonitorInit PROVE MonitorTypeOK
  OBVIOUS
<1>1. \A d \in plugged : Announced("Added", d, Nodes[d], TRUE) \in SUBSET DeviceEvent
  BY AnnouncedType DEF MonitorInit
<1>2. arriving \in SUBSET DeviceEvent
  BY <1>1 DEF MonitorInit
<1>3. registry \in [DeviceKey -> Usage \cup {Absent}]
  BY DEF MonitorInit
<1>4. events \in Seq(DeviceEvent)
  BY DEF MonitorInit
<1>5. QED
  BY <1>2, <1>3, <1>4 DEF MonitorInit, MonitorTypeOK

LEMMA TypeStep == MonitorTypeOK /\ [MonitorNext]_monitor => MonitorTypeOK'
<1> SUFFICES ASSUME MonitorTypeOK, [MonitorNext]_monitor PROVE MonitorTypeOK'
  OBVIOUS
<1>1. ASSUME NEW d \in Device, Plug(d) \/ Unplug(d) PROVE MonitorTypeOK'
  BY <1>1, AnnouncedType DEF Plug, Unplug, MonitorTypeOK
<1>2. CASE Deliver
  BY <1>2 DEF Deliver, MonitorTypeOK
<1>3. CASE ReceiveEvent
  <2>1. registry' \in [DeviceKey -> Usage \cup {Absent}] /\ events' \in Seq(DeviceEvent)
    BY <1>3, HeadOfEvents, ApplyType DEF ReceiveEvent, MonitorTypeOK
  <2>2. deadline' \in BOOLEAN
    BY <1>3 DEF ReceiveEvent, MonitorTypeOK
  <2>3. QED
    BY <1>3, <2>1, <2>2 DEF ReceiveEvent, MonitorTypeOK
<1>4. CASE Settled
  BY <1>4 DEF Settled, DeadlineFires, MonitorTypeOK
<1>5. CASE UNCHANGED monitor
  BY <1>5 DEF monitor, MonitorTypeOK
<1>6. QED
  BY <1>1, <1>2, <1>3, <1>4, <1>5 DEF MonitorNext

(* Types, the registry among them, whatever order the events come in.      *)
THEOREM MonitorTypeCorrect == MonitorSpec => []MonitorTypeOK
BY TypeInitial, TypeStep, PTL DEF MonitorSpec

-----------------------------------------------------------------------------
(* The channel hands its events on one by one.                             *)
LEMMA ChannelKeeps ==
  ASSUME MonitorTypeOK, NEW i \in DOMAIN events, events # <<>>
  PROVE  i = 1 \/ (i - 1 \in DOMAIN Tail(events) /\ Tail(events)[i - 1] = events[i])
BY DEF MonitorTypeOK

LEMMA ChannelTakes ==
  ASSUME MonitorTypeOK, NEW e \in DeviceEvent
  PROVE  /\ \A i \in DOMAIN events :
              i \in DOMAIN Append(events, e) /\ Append(events, e)[i] = events[i]
         /\ \E i \in DOMAIN Append(events, e) : Append(events, e)[i] = e
<1>1. Len(events) + 1 \in DOMAIN Append(events, e) /\ Append(events, e)[Len(events) + 1] = e
  BY DEF MonitorTypeOK
<1>2. QED
  BY <1>1 DEF MonitorTypeOK

LEMMA NoLostStep ==
  MonitorTypeOK /\ NoLostHotplug /\ [MonitorNext]_monitor => NoLostHotplug'
<1> SUFFICES ASSUME MonitorTypeOK, NoLostHotplug, [MonitorNext]_monitor, unsettled'
             PROVE  \/ deadline'
                    \/ \E e \in arriving' : Pending(e)
                    \/ \E i \in DOMAIN events' : Pending(events'[i])
  BY DEF NoLostHotplug, Pending
<1>1. ASSUME NEW d \in Device, Plug(d) \/ Unplug(d), IsKeyboard(d)
      PROVE  \E e \in arriving' : Pending(e)
  <2>1. PICK change \in {"Added", "Removed"} :
          arriving' = arriving \cup Announced(change, d, Nodes[d], FALSE)
    BY <1>1 DEF Plug, Unplug
  <2> DEFINE e == [change |-> change, device |-> d, usage |-> "keyboard", initial |-> FALSE]
  <2>2. e \in arriving'
    BY <1>1, <2>1 DEF Announced, IsKeyboard
  <2>3. Pending(e)
    BY <1>1 DEF Pending, IsResyncRelevant, IsKeyboard
  <2>4. QED
    BY <2>2, <2>3
<1>2. ASSUME NEW d \in Device, Plug(d) \/ Unplug(d)
      PROVE  arriving \subseteq arriving' /\ UNCHANGED <<events, deadline>>
  BY <1>2 DEF Plug, Unplug
<1>3. CASE \E d \in Device : Plug(d) \/ Unplug(d)
  <2>1. PICK d \in Device : Plug(d) \/ Unplug(d)
    BY <1>3
  <2>2. CASE IsKeyboard(d)
    BY <1>1, <2>1, <2>2
  <2>3. CASE ~IsKeyboard(d)
    <3>1. unsettled
      BY <2>1, <2>3 DEF Plug, Unplug, MonitorTypeOK
    <3>2. QED
      BY <1>2, <2>1, <3>1 DEF NoLostHotplug
  <2>4. QED
    BY <2>2, <2>3
<1>4. CASE Deliver
  <2>1. PICK e \in arriving : arriving' = arriving \ {e} /\ events' = Append(events, e)
    BY <1>4 DEF Deliver
  <2>2. e \in DeviceEvent
    BY DEF MonitorTypeOK
  <2>3. unsettled /\ deadline' = deadline
    BY <1>4 DEF Deliver
  <2>4. QED
    BY <2>1, <2>2, <2>3, ChannelTakes DEF NoLostHotplug
<1>5. CASE ReceiveEvent
  <2>1. unsettled /\ arriving' = arriving /\ events # <<>> /\ events' = Tail(events)
    BY <1>5 DEF ReceiveEvent
  <2>2. deadline \/ Pending(Head(events)) => deadline'
    BY <1>5 DEF ReceiveEvent, Pending
  <2>3. ASSUME NEW i \in DOMAIN events, Pending(events[i])
        PROVE  deadline' \/ \E j \in DOMAIN events' : Pending(events'[j])
    <3>1. CASE i = 1
      BY <2>1, <2>2, <2>3, <3>1 DEF MonitorTypeOK
    <3>2. CASE i # 1
      BY <2>1, <2>3, <3>2, ChannelKeeps
    <3>3. QED
      BY <3>1, <3>2
  <2>4. QED
    BY <2>1, <2>2, <2>3 DEF NoLostHotplug
<1>6. CASE Settled
  BY <1>6 DEF Settled, DeadlineFires
<1>7. CASE UNCHANGED monitor
  BY <1>7 DEF monitor, NoLostHotplug
<1>8. QED
  BY <1>3, <1>4, <1>5, <1>6, <1>7 DEF MonitorNext

(* A keyboard that came or went is never lost between IOKit and the        *)
(* debounce (device/mod.rs:151-190).                                       *)
THEOREM NoLostHotplugHolds == MonitorSpec => []NoLostHotplug
<1>1. MonitorInit => NoLostHotplug
  BY DEF MonitorInit, NoLostHotplug
<1>2. QED
  BY <1>1, NoLostStep, MonitorTypeCorrect, PTL DEF MonitorSpec

-----------------------------------------------------------------------------
(* The registry follows the hardware.  Two devices of one make and name    *)
(* share an entry (device/mod.rs:54-61), and the one that is               *)
(* left would be shown as gone: what follows is about distinct keys.       *)
DistinctKeys == \A d, e \in Device : Key[d] = Key[e] => d = e

(* What the last event of d should say, and an event that says otherwise.  *)
Present(d) == IF d \in plugged THEN "Added" ELSE "Removed"

Outdated(i) == events[i].change # Present(events[i].device)

(* Node u of d still has an event on its way, after every outdated one.    *)
Coming(d, u) ==
  \/ \E e \in arriving : e.device = d /\ e.usage = u
  \/ \E i \in DOMAIN events :
       /\ events[i].device = d /\ events[i].usage = u
       /\ \A j \in DOMAIN events : j >= i /\ events[j].device = d => ~Outdated(j)

Recorded(d, u) ==
  IF d \in plugged
  THEN /\ registry[Key[d]] # Absent
       /\ u = "keyboard" /\ d \notin Virtual => registry[Key[d]] = "keyboard"
  ELSE registry[Key[d]] = Absent

UpToDate(d) == \A i \in DOMAIN events : events[i].device = d => ~Outdated(i)

NodesAnnounced ==
  /\ \A e \in arriving : e.change = Present(e.device) /\ e.usage \in Nodes[e.device]
  /\ \A i \in DOMAIN events : events[i].usage \in Nodes[events[i].device]

RecordsNodes == \A d \in Device : registry[Key[d]] \in Nodes[d] \cup {Absent}

NodesFollowed ==
  \A d \in Device : \A u \in Nodes[d] : Coming(d, u) \/ (Recorded(d, u) /\ UpToDate(d))

LiveInv == MonitorTypeOK /\ NodesAnnounced /\ RecordsNodes /\ NodesFollowed

LEMMA NodesOfDevices ==
  /\ \A d \in Device : Nodes[d] \subseteq Usage /\ Nodes[d] # {} /\ Absent \notin Nodes[d]
  /\ \A d \in Device : Key[d] \in DeviceKey
BY DeviceAssumption DEF DeviceKey

LEMMA LiveInitial == MonitorInit => LiveInv
<1> SUFFICES ASSUME MonitorInit PROVE LiveInv
  OBVIOUS
<1>1. MonitorTypeOK
  BY TypeInitial
<1>2. plugged \subseteq Device /\ events = <<>> /\ DOMAIN events = {}
  BY DEF MonitorInit
<1>3. arriving = UNION {Announced("Added", d, Nodes[d], TRUE) : d \in plugged}
  BY DEF MonitorInit
<1>4. \A d \in Device : registry[Key[d]] = Absent
  BY NodesOfDevices DEF MonitorInit
<1>5. NodesAnnounced
  BY <1>2, <1>3 DEF NodesAnnounced, Announced, Present
<1>6. ASSUME NEW d \in Device, NEW u \in Nodes[d]
      PROVE  Coming(d, u) \/ (Recorded(d, u) /\ UpToDate(d))
  <2>1. CASE d \in plugged
    <3> DEFINE e == [change |-> "Added", device |-> d, usage |-> u, initial |-> TRUE]
    <3>1. e \in Announced("Added", d, Nodes[d], TRUE)
      BY <1>6 DEF Announced
    <3> HIDE DEF e
    <3>2. e \in arriving
      BY <1>3, <2>1, <3>1
    <3>3. e.device = d /\ e.usage = u
      BY DEF e
    <3>4. QED
      BY <3>2, <3>3 DEF Coming
  <2>2. CASE d \notin plugged
    BY <1>2, <1>4, <2>2 DEF Recorded, UpToDate
  <2>3. QED
    BY <2>1, <2>2
<1>7. QED
  BY <1>1, <1>4, <1>5, <1>6 DEF LiveInv, RecordsNodes, NodesFollowed

(* A hotplug of d announces all its nodes, and touches no other device.    *)
LEMMA LiveHotplug ==
  ASSUME LiveInv, NEW d \in Device, Plug(d) \/ Unplug(d)
  PROVE  NodesAnnounced' /\ RecordsNodes' /\ NodesFollowed'
<1> USE DEF LiveInv
<1>1. PICK change \in {"Added", "Removed"} :
        /\ arriving' = arriving \cup Announced(change, d, Nodes[d], FALSE)
        /\ change = Present(d)'
  BY DEF Plug, Unplug, Present
<1>2. Quiet(d) /\ events' = events /\ registry' = registry
  BY DEF Plug, Unplug
<1>3. \A e \in Device : e # d => (e \in plugged <=> e \in plugged')
  BY DEF Plug, Unplug
<1>4. \A e \in Device : e # d => Present(e)' = Present(e)
  BY <1>3 DEF Present
<1>5. \A e \in arriving : e.device # d /\ e.device \in Device
  BY <1>2 DEF Quiet, MonitorTypeOK, DeviceEvent
<1>6. \A e \in Announced(change, d, Nodes[d], FALSE) :
        e.device = d /\ e.change = change /\ e.usage \in Nodes[d]
  BY DEF Announced
<1>7. NodesAnnounced'
  <2>1. \A e \in arriving' : e.change = Present(e.device)' /\ e.usage \in Nodes[e.device]
    BY <1>1, <1>4, <1>5, <1>6 DEF NodesAnnounced
  <2>2. QED
    BY <1>2, <2>1 DEF NodesAnnounced, Present
<1>8. RecordsNodes'
  BY <1>2 DEF RecordsNodes
<1>9. \A i \in DOMAIN events : events[i].device \in Device
  <2>1. \A i \in DOMAIN events : events[i] \in DeviceEvent
    BY DEF MonitorTypeOK
  <2>2. QED
    BY <2>1 DEF DeviceEvent
<1>10. ASSUME NEW e \in Device, NEW u \in Nodes[e]
       PROVE  Coming(e, u)' \/ (Recorded(e, u)' /\ UpToDate(e)')
  <2>1. CASE e = d
    <3> DEFINE n == [change |-> change, device |-> d, usage |-> u, initial |-> FALSE]
    <3>1. n \in arriving'
      BY <1>1, <2>1, <1>10 DEF Announced
    <3>2. n.device = d /\ n.usage = u
      OBVIOUS
    <3>3. QED
      BY <2>1, <3>1, <3>2 DEF Coming
  <2>2. CASE e # d
    <3>1. \A i \in DOMAIN events : events[i].device = e => (Outdated(i)' <=> Outdated(i))
      BY <1>2, <1>4, <2>2 DEF Outdated, Present
    <3>2. Coming(e, u) => Coming(e, u)'
      BY <1>1, <1>2, <3>1 DEF Coming
    <3>3. Recorded(e, u) => Recorded(e, u)'
      BY <1>2, <1>3, <2>2 DEF Recorded
    <3>4. UpToDate(e) => UpToDate(e)'
      BY <1>2, <3>1 DEF UpToDate
    <3>5. QED
      BY <1>10, <3>2, <3>3, <3>4 DEF NodesFollowed
  <2>3. QED
    BY <2>1, <2>2
<1>11. QED
  BY <1>7, <1>8, <1>10 DEF NodesFollowed

(* What IOKit delivers is never outdated: a hotplug waits for it.          *)
LEMMA LiveDeliver ==
  ASSUME LiveInv, Deliver
  PROVE  NodesAnnounced' /\ RecordsNodes' /\ NodesFollowed'
<1> USE DEF LiveInv
<1>1. PICK n \in arriving : arriving' = arriving \ {n} /\ events' = Append(events, n)
  BY DEF Deliver
<1>2. plugged' = plugged /\ registry' = registry
  BY DEF Deliver
<1>3. PICK len \in Nat : len = Len(events)
  BY DEF MonitorTypeOK
<1>4. /\ DOMAIN events = 1..len
      /\ DOMAIN events' = 1..(len + 1)
      /\ \A i \in 1..len : events'[i] = events[i]
      /\ events'[len + 1] = n
  BY <1>1, <1>3 DEF MonitorTypeOK
<1>5. n.change = Present(n.device) /\ n.usage \in Nodes[n.device] /\ n.device \in Device
  BY DEF NodesAnnounced, MonitorTypeOK, DeviceEvent
<1>6. \A d : Present(d)' = Present(d)
  BY <1>2 DEF Present
<1>7. \A i \in 1..len : Outdated(i)' <=> Outdated(i)
  BY <1>4, <1>6 DEF Outdated, Present
<1>8. ~Outdated(len + 1)'
  BY <1>2, <1>4, <1>5 DEF Outdated, Present
<1>9. NodesAnnounced'
  <2>1. \A e \in arriving' : e.change = Present(e.device)' /\ e.usage \in Nodes[e.device]
    BY <1>1, <1>6 DEF NodesAnnounced
  <2>2. \A i \in 1..(len + 1) : events'[i].usage \in Nodes[events'[i].device]
    <3>1. \A i \in 1..(len + 1) : i \in 1..len \/ i = len + 1
      OBVIOUS
    <3>2. QED
      BY <1>4, <1>5, <3>1 DEF NodesAnnounced
  <2>3. QED
    BY <1>2, <1>4, <2>1, <2>2 DEF NodesAnnounced, Present
<1>10. RecordsNodes'
  BY <1>2 DEF RecordsNodes
<1>11. \A i \in 1..(len + 1) : i \in 1..len \/ i = len + 1
  OBVIOUS
<1>12. ASSUME NEW d \in Device, NEW u \in Nodes[d]
       PROVE  Coming(d, u)' \/ (Recorded(d, u)' /\ UpToDate(d)')
  <2>1. CASE \E e \in arriving : e.device = d /\ e.usage = u
    <3>1. PICK e \in arriving : e.device = d /\ e.usage = u
      BY <2>1
    <3>2. CASE e = n
      <4>1. \A j \in 1..(len + 1) : j >= len + 1 => ~Outdated(j)'
        <5>1. \A j \in 1..(len + 1) : j >= len + 1 => j = len + 1
          OBVIOUS
        <5>2. QED
          BY <5>1, <1>8
      <4>2. len + 1 \in 1..(len + 1)
        OBVIOUS
      <4>3. QED
        BY <1>4, <3>1, <3>2, <4>1, <4>2 DEF Coming
    <3>3. CASE e # n
      BY <1>1, <3>1, <3>3 DEF Coming
    <3>4. QED
      BY <3>2, <3>3
  <2>2. CASE \E i \in DOMAIN events :
               /\ events[i].device = d /\ events[i].usage = u
               /\ \A j \in DOMAIN events : j >= i /\ events[j].device = d => ~Outdated(j)
    <3>1. PICK i \in 1..len :
            /\ events[i].device = d /\ events[i].usage = u
            /\ \A j \in 1..len : j >= i /\ events[j].device = d => ~Outdated(j)
      BY <1>4, <2>2
    <3>2. i \in DOMAIN events' /\ events'[i].device = d /\ events'[i].usage = u
      BY <1>4, <3>1
    <3>3. \A j \in DOMAIN events' : j >= i /\ events'[j].device = d => ~Outdated(j)'
      BY <1>4, <1>7, <1>8, <1>11, <3>1
    <3>4. QED
      BY <3>2, <3>3 DEF Coming
  <2>3. CASE Recorded(d, u) /\ UpToDate(d)
    <3>1. Recorded(d, u)'
      BY <1>2, <2>3 DEF Recorded
    <3>2. UpToDate(d)'
      BY <1>4, <1>7, <1>8, <1>11, <2>3 DEF UpToDate
    <3>3. QED
      BY <3>1, <3>2
  <2>4. QED
    BY <1>12, <2>1, <2>2, <2>3 DEF NodesFollowed, Coming
<1>13. QED
  BY <1>9, <1>10, <1>12 DEF NodesFollowed

(* The head of the channel is recorded: the last word about its device,    *)
(* or an outdated one that others follow.                                  *)
LEMMA LiveReceive ==
  ASSUME DistinctKeys, LiveInv, ReceiveEvent
  PROVE  NodesAnnounced' /\ RecordsNodes' /\ NodesFollowed'
<1> USE DEF LiveInv
<1>1. events # <<>> /\ arriving' = arriving /\ plugged' = plugged /\ events' = Tail(events)
  BY DEF ReceiveEvent
<1>2. PICK len \in Nat : len = Len(events)
  BY DEF MonitorTypeOK
<1>3. /\ len # 0
      /\ DOMAIN events = 1..len
      /\ DOMAIN events' = 1..(len - 1)
      /\ \A i \in 1..(len - 1) : events'[i] = events[i + 1]
      /\ Head(events) = events[1]
  BY <1>1, <1>2 DEF MonitorTypeOK
<1>4. 1 \in 1..len /\ \A i \in 1..(len - 1) : i + 1 \in 1..len
  BY <1>3
<1>5. PICK h \in DeviceEvent : h = events[1]
  BY <1>1, <1>3, HeadOfEvents
<1>6. registry' = Apply(registry, h)
  BY <1>3, <1>5 DEF ReceiveEvent
<1>7. h.device \in Device /\ h.usage \in Nodes[h.device] /\ h.usage # Absent
      /\ h.change \in {"Added", "Removed"}
  <2>1. h.usage \in Nodes[h.device]
    BY <1>3, <1>4, <1>5 DEF NodesAnnounced
  <2>2. h.device \in Device /\ h.change \in {"Added", "Removed"}
    BY DEF DeviceEvent
  <2>3. QED
    BY <2>1, <2>2, NodesOfDevices
<1>8. registry \in [DeviceKey -> Usage \cup {Absent}]
  BY DEF MonitorTypeOK
<1>9. \A d \in Device : d # h.device => registry'[Key[d]] = registry[Key[d]]
  <2>1. \A d \in Device : d # h.device => Key[d] # Key[h.device]
    BY <1>7 DEF DistinctKeys
  <2>2. QED
    BY <1>6, <1>8, <2>1, NodesOfDevices DEF Apply
<1>10. registry'[Key[h.device]] =
         CASE h.change = "Removed" -> Absent
           [] /\ h.change = "Added"
              /\ \/ registry[Key[h.device]] = Absent
                 \/ IsResyncRelevant("Added", h.device, h.usage) -> h.usage
           [] OTHER -> registry[Key[h.device]]
  BY <1>6, <1>7, <1>8, NodesOfDevices DEF Apply
<1>11. Outdated(1) <=> h.change # Present(h.device)
  BY <1>5 DEF Outdated
<1>12. \A i \in 1..(len - 1) : Outdated(i)' <=> Outdated(i + 1)
  BY <1>1, <1>3 DEF Outdated, Present
<1>13. NodesAnnounced'
  BY <1>1, <1>3, <1>4 DEF NodesAnnounced, Present
<1>14. RecordsNodes'
  BY <1>7, <1>9, <1>10 DEF RecordsNodes
<1>15. ASSUME NEW d \in Device, NEW u \in Nodes[d]
       PROVE  Coming(d, u)' \/ (Recorded(d, u)' /\ UpToDate(d)')
  <2>1. ASSUME NEW i \in 2..len, events[i].device = d, events[i].usage = u,
               \A j \in 1..len : j >= i /\ events[j].device = d => ~Outdated(j)
        PROVE  Coming(d, u)'
    <3>1. i - 1 \in 1..(len - 1) /\ (i - 1) + 1 = i
      OBVIOUS
    <3>2. i - 1 \in DOMAIN events' /\ events'[i - 1] = events[i]
      BY <1>3, <3>1
    <3>3. ASSUME NEW j \in 1..(len - 1), j >= i - 1, events'[j].device = d
          PROVE  ~Outdated(j)'
      <4>1. j + 1 >= i /\ j + 1 \in 1..len
        BY <3>3
      <4>2. QED
        BY <1>3, <1>12, <2>1, <3>3, <4>1
    <3>4. \A j \in DOMAIN events' : j >= i - 1 /\ events'[j].device = d => ~Outdated(j)'
      BY <1>3, <3>3
    <3>5. QED
      BY <2>1, <3>2, <3>4 DEF Coming
  <2>2. CASE \E e \in arriving : e.device = d /\ e.usage = u
    BY <1>1, <2>2 DEF Coming
  <2>3. UpToDate(d) => UpToDate(d)'
    BY <1>3, <1>4, <1>12 DEF UpToDate
  <2>4. d # h.device => (Recorded(d, u) => Recorded(d, u)')
    BY <1>1, <1>9 DEF Recorded
  <2>5. CASE \E i \in DOMAIN events :
               /\ events[i].device = d /\ events[i].usage = u
               /\ \A j \in DOMAIN events : j >= i /\ events[j].device = d => ~Outdated(j)
    <3>1. PICK i \in 1..len :
            /\ events[i].device = d /\ events[i].usage = u
            /\ \A j \in 1..len : j >= i /\ events[j].device = d => ~Outdated(j)
      BY <1>3, <2>5
    <3>2. CASE i = 1
      <4>1. h.device = d /\ h.usage = u /\ h.change = Present(d)
        BY <1>4, <1>5, <1>11, <3>1, <3>2
      <4>2. Recorded(d, u)'
        BY <1>1, <1>7, <1>10, <4>1, NodesOfDevices
           DEF Recorded, Present, IsResyncRelevant
      <4>3. \A j \in 1..len : j >= 1
        OBVIOUS
      <4>4. UpToDate(d)
        BY <1>3, <3>1, <3>2, <4>3 DEF UpToDate
      <4>5. QED
        BY <2>3, <4>2, <4>4
    <3>3. CASE i # 1
      <4>1. i \in 2..len
        BY <3>3
      <4>2. QED
        BY <2>1, <3>1, <4>1
    <3>4. QED
      BY <3>2, <3>3
  <2>6. CASE Recorded(d, u) /\ UpToDate(d)
    <3>1. CASE d # h.device
      BY <2>3, <2>4, <2>6, <3>1
    <3>2. CASE d = h.device
      <4>1. h.change = Present(d)
        BY <1>3, <1>4, <1>5, <1>11, <2>6, <3>2 DEF UpToDate
      <4>2. Recorded(d, u)'
        BY <1>1, <1>7, <1>10, <2>6, <3>2, <4>1, NodesOfDevices
           DEF Recorded, Present, IsResyncRelevant
      <4>3. QED
        BY <2>3, <2>6, <4>2
    <3>3. QED
      BY <3>1, <3>2
  <2>7. QED
    BY <1>15, <2>2, <2>5, <2>6 DEF NodesFollowed, Coming
<1>16. QED
  BY <1>13, <1>14, <1>15 DEF NodesFollowed

LEMMA LiveStep == DistinctKeys /\ LiveInv /\ [MonitorNext]_monitor => LiveInv'
<1> SUFFICES ASSUME DistinctKeys, LiveInv, [MonitorNext]_monitor PROVE LiveInv'
  OBVIOUS
<1>1. MonitorTypeOK'
  BY TypeStep DEF LiveInv
<1>2. CASE \E d \in Device : Plug(d) \/ Unplug(d)
  BY <1>1, <1>2, LiveHotplug DEF LiveInv
<1>3. CASE Deliver
  BY <1>1, <1>3, LiveDeliver DEF LiveInv
<1>4. CASE ReceiveEvent
  BY <1>1, <1>4, LiveReceive DEF LiveInv
<1>5. CASE UNCHANGED <<plugged, arriving, events, registry>>
  BY <1>1, <1>5 DEF LiveInv, NodesAnnounced, RecordsNodes, NodesFollowed, Coming,
                    Recorded, UpToDate, Outdated, Present
<1>6. QED
  BY <1>2, <1>3, <1>4, <1>5 DEF MonitorNext, Settled, DeadlineFires, monitor

LEMMA LiveShows == DistinctKeys /\ LiveInv => RegistryIsLive
<1> SUFFICES ASSUME DistinctKeys, LiveInv, arriving = {}, events = <<>>,
                    NEW k \in DeviceKey
             PROVE  LET owners == {d \in plugged : Key[d] = k}
                    IN  /\ registry[k] # Absent <=> owners # {}
                        /\ \A d \in owners :
                             IsResyncRelevant("Added", d, registry[k]) <=> IsKeyboard(d)
  BY DEF RegistryIsLive
<1>1. PICK d \in Device : k = Key[d]
  BY DEF DeviceKey
<1>2. \A e \in plugged : e \in Device
  BY DEF LiveInv, MonitorTypeOK
<1>3. \A e \in plugged : Key[e] = k => e = d
  BY <1>1, <1>2 DEF DistinctKeys
<1>4. \A u \in Nodes[d] : Recorded(d, u)
  BY DEF LiveInv, NodesFollowed, Coming
<1>5. PICK u \in Nodes[d] : TRUE
  BY NodesOfDevices
<1>6. registry[k] # Absent <=> d \in plugged
  BY <1>1, <1>4, <1>5 DEF Recorded
<1>7. ASSUME d \in plugged
      PROVE  IsResyncRelevant("Added", d, registry[k]) <=> IsKeyboard(d)
  <2>1. registry[k] \in Nodes[d]
    BY <1>1, <1>6, <1>7 DEF LiveInv, RecordsNodes
  <2>2. IsKeyboard(d) => registry[k] = "keyboard"
    BY <1>1, <1>4, <1>7 DEF IsKeyboard, Recorded
  <2>3. QED
    BY <2>1, <2>2 DEF IsResyncRelevant, IsKeyboard
<1>8. QED
  BY <1>1, <1>3, <1>6, <1>7

(* Once delivered, GetDevices shows what is plugged in, and as a keyboard  *)
(* what kanata would grab, whatever the order of the nodes and however     *)
(* many hotplugs overtook the channel (device/mod.rs:64-85).               *)
THEOREM RegistryIsLiveHolds ==
  ASSUME DistinctKeys PROVE MonitorSpec => []RegistryIsLive
<1>1. LiveInv /\ [MonitorNext]_monitor => LiveInv'
  BY LiveStep
<1>2. LiveInv => RegistryIsLive
  BY LiveShows
<1>3. QED
  BY <1>1, <1>2, LiveInitial, PTL DEF MonitorSpec
-----------------------------------------------------------------------------
(* Every re-sync is owed to a hotplug.                                     *)
WaitingEvents == {e \in arriving : Pending(e)}

QueuedEvents == {i \in DOMAIN events : Pending(events[i])}

Debt ==
  Cardinality(WaitingEvents) + Cardinality(QueuedEvents) + (IF deadline THEN 1 ELSE 0)

(* No feedback loop, one step at a time: the re-syncs that can still come  *)
(* are no more than the pending events; a re-sync uses one of them up, and *)
(* nothing adds any but a keyboard that comes, or a device other than the  *)
(* virtual keyboard that goes (device/mod.rs:151-190, device.rs:39-67).    *)
ResyncsAreOwed ==
  [][~HotplugOfInterest => Debt' <= Debt /\ (Settled => Debt' < Debt)]_monitor

DebtInv == IsFiniteSet(WaitingEvents)

LEMMA QueuedFinite ==
  ASSUME NEW s \in Seq(DeviceEvent)
  PROVE  /\ IsFiniteSet({i \in DOMAIN s : Pending(s[i])})
         /\ Cardinality({i \in DOMAIN s : Pending(s[i])}) \in Nat
<1>1. IsFiniteSet(1..Len(s))
  BY FS_Interval
<1>2. DOMAIN s = 1..Len(s)
  OBVIOUS
<1>3. IsFiniteSet({i \in DOMAIN s : Pending(s[i])})
  BY <1>1, <1>2, FS_Subset
<1>4. QED
  BY <1>3, FS_CardinalityType

(* A pending event counts once wherever it is in the channel.              *)
LEMMA QueuedAppend ==
  ASSUME NEW s \in Seq(DeviceEvent), NEW e \in DeviceEvent
  PROVE  Cardinality({i \in DOMAIN Append(s, e) : Pending(Append(s, e)[i])}) =
           Cardinality({i \in DOMAIN s : Pending(s[i])}) + (IF Pending(e) THEN 1 ELSE 0)
<1> DEFINE old == {i \in DOMAIN s : Pending(s[i])}
           new == {i \in DOMAIN Append(s, e) : Pending(Append(s, e)[i])}
<1>1. new = IF Pending(e) THEN old \cup {Len(s) + 1} ELSE old
  <2>1. /\ DOMAIN s = 1..Len(s)
        /\ DOMAIN Append(s, e) = 1..(Len(s) + 1)
        /\ \A i \in 1..Len(s) : Append(s, e)[i] = s[i]
        /\ Append(s, e)[Len(s) + 1] = e
        /\ Len(s) \in Nat
    OBVIOUS
  <2> HIDE DEF Pending
  <2>2. new = {i \in 1..(Len(s) + 1) : Pending(Append(s, e)[i])}
    BY <2>1
  <2>3. old = {i \in 1..Len(s) : Pending(Append(s, e)[i])}
    BY <2>1
  <2>4. 1..(Len(s) + 1) = 1..Len(s) \cup {Len(s) + 1}
    BY <2>1
  <2>5. QED
    BY <2>1, <2>2, <2>3, <2>4
<1>2. Len(s) + 1 \notin old
  OBVIOUS
<1>3. IsFiniteSet(old)
  BY QueuedFinite
<1>4. Cardinality(old \cup {Len(s) + 1}) = Cardinality(old) + 1
  BY <1>2, <1>3, FS_AddElement
<1>5. Cardinality(old) \in Nat
  BY <1>3, FS_CardinalityType
<1> HIDE DEF old, new
<1>6. Cardinality(new) = Cardinality(old) + (IF Pending(e) THEN 1 ELSE 0)
  BY <1>1, <1>4, <1>5
<1>7. QED
  BY <1>6 DEF old, new

LEMMA QueuedTail ==
  ASSUME NEW s \in Seq(DeviceEvent), s # <<>>
  PROVE  Cardinality({i \in DOMAIN s : Pending(s[i])}) =
           Cardinality({i \in DOMAIN Tail(s) : Pending(Tail(s)[i])})
             + (IF Pending(Head(s)) THEN 1 ELSE 0)
<1> DEFINE all == {i \in DOMAIN s : Pending(s[i])}
           rest == {i \in DOMAIN Tail(s) : Pending(Tail(s)[i])}
           later == all \ {1}
           shift == [i \in rest |-> i + 1]
<1>1. /\ DOMAIN s = 1..Len(s)
      /\ DOMAIN Tail(s) = 1..(Len(s) - 1)
      /\ \A i \in 1..(Len(s) - 1) : Tail(s)[i] = s[i + 1]
      /\ Len(s) \in Nat /\ Len(s) >= 1
      /\ Head(s) = s[1]
  OBVIOUS
<1>2. \A i : i \in rest <=> i \in 1..(Len(s) - 1) /\ Pending(s[i + 1])
  BY <1>1
<1>3. \A i : i \in later <=> i \in 2..Len(s) /\ Pending(s[i])
  BY <1>1
<1>4. IsFiniteSet(all) /\ IsFiniteSet(rest)
  <2>1. Tail(s) \in Seq(DeviceEvent)
    OBVIOUS
  <2>2. QED
    BY <2>1, QueuedFinite
<1> HIDE DEF rest, later
<1>5. shift \in Bijection(rest, later)
  <2>1. shift \in [rest -> later]
    BY <1>2, <1>3
  <2>2. \A i, j \in rest : shift[i] = shift[j] => i = j
    BY <1>2
  <2>3. ASSUME NEW j \in later PROVE \E i \in rest : shift[i] = j
    <3>1. j - 1 \in rest /\ (j - 1) + 1 = j
      BY <1>2, <1>3
    <3>2. QED
      BY <3>1
  <2>4. QED
    BY <2>1, <2>2, <2>3 DEF Bijection, Injection, Surjection, IsInjective
<1>6. Cardinality(later) = Cardinality(rest)
  BY <1>4, <1>5, FS_Bijection DEF ExistsBijection
<1>7. 1 \in all <=> Pending(Head(s))
  BY <1>1
<1>8. Cardinality(later) = IF 1 \in all THEN Cardinality(all) - 1 ELSE Cardinality(all)
  BY <1>4, FS_RemoveElement DEF later
<1>9. Cardinality(all) \in Nat
  BY <1>4, FS_CardinalityType
<1> HIDE DEF all, shift
<1>10. Cardinality(all) = Cardinality(rest) + (IF Pending(Head(s)) THEN 1 ELSE 0)
  BY <1>6, <1>7, <1>8, <1>9
<1>11. QED
  BY <1>10 DEF all, rest

(* Only a hotplug of interest announces a pending event.                   *)
LEMMA NothingOwed ==
  ASSUME NEW d \in Device, Plug(d) \/ Unplug(d), ~HotplugOfInterest
  PROVE  UNCHANGED <<WaitingEvents, events, deadline>>
<1>1. PICK change \in {"Added", "Removed"} :
        arriving' = arriving \cup Announced(change, d, Nodes[d], FALSE)
  BY DEF Plug, Unplug
<1>2. ASSUME NEW e \in Announced("Added", d, Nodes[d], FALSE), Plug(d) PROVE ~Pending(e)
  BY <1>2 DEF HotplugOfInterest, IsKeyboard, Announced, Pending, IsResyncRelevant
<1>3. ASSUME NEW e \in Announced("Removed", d, Nodes[d], FALSE), Unplug(d) PROVE ~Pending(e)
  BY <1>3 DEF HotplugOfInterest, Announced, Pending, IsResyncRelevant
<1>4. WaitingEvents' = WaitingEvents
  <2>1. CASE Plug(d)
    BY <1>2, <2>1 DEF Plug, WaitingEvents, Pending
  <2>2. CASE Unplug(d)
    BY <1>3, <2>2 DEF Unplug, WaitingEvents, Pending
  <2>3. QED
    BY <2>1, <2>2
<1>5. QED
  BY <1>4 DEF Plug, Unplug

(* A device has at most one node of each usage.                            *)
LEMMA AnnouncedFinite ==
  ASSUME NEW change, NEW d \in Device, NEW initial
  PROVE  IsFiniteSet(Announced(change, d, Nodes[d], initial))
<1> DEFINE e(u) == [change |-> change, device |-> d, usage |-> u, initial |-> initial]
<1>1. IsFiniteSet({e("keyboard"), e("other"), e("unknown")})
  <2>1. IsFiniteSet({e("keyboard")}) /\ IsFiniteSet({e("other")}) /\ IsFiniteSet({e("unknown")})
    BY FS_Singleton
  <2>2. IsFiniteSet({e("keyboard")} \cup {e("other")} \cup {e("unknown")})
    BY <2>1, FS_Union
  <2>3. QED
    BY <2>2
<1>2. Announced(change, d, Nodes[d], initial) \subseteq
        {e("keyboard"), e("other"), e("unknown")}
  BY DeviceAssumption DEF Announced, Usage
<1>3. QED
  BY <1>1, <1>2, FS_Subset

LEMMA DebtStep == DebtInv /\ [MonitorNext]_monitor => DebtInv'
<1> SUFFICES ASSUME DebtInv, [MonitorNext]_monitor PROVE IsFiniteSet(WaitingEvents')
  BY DEF DebtInv
<1>1. ASSUME NEW d \in Device, Plug(d) \/ Unplug(d)
      PROVE  IsFiniteSet(WaitingEvents')
  <2>1. PICK change \in {"Added", "Removed"} :
          arriving' = arriving \cup Announced(change, d, Nodes[d], FALSE)
    BY <1>1 DEF Plug, Unplug
  <2>2. WaitingEvents' \subseteq WaitingEvents \cup Announced(change, d, Nodes[d], FALSE)
    BY <2>1 DEF WaitingEvents, Pending
  <2>3. IsFiniteSet(WaitingEvents \cup Announced(change, d, Nodes[d], FALSE))
    BY AnnouncedFinite, FS_Union DEF DebtInv
  <2>4. QED
    BY <2>2, <2>3, FS_Subset
<1>2. CASE Deliver \/ ReceiveEvent \/ Settled \/ UNCHANGED monitor
  <2>1. WaitingEvents' \subseteq WaitingEvents
    BY <1>2 DEF Deliver, ReceiveEvent, Settled, DeadlineFires, monitor, WaitingEvents, Pending
  <2>2. QED
    BY <2>1, FS_Subset DEF DebtInv
<1>3. QED
  BY <1>1, <1>2 DEF MonitorNext

LEMMA DebtIsPaid ==
  ASSUME MonitorTypeOK, DebtInv, [MonitorNext]_monitor, ~HotplugOfInterest
  PROVE  Debt' <= Debt /\ (Settled => Debt' < Debt)
<1> DEFINE waiting == Cardinality(WaitingEvents)
           queued == Cardinality(QueuedEvents)
           due == IF deadline THEN 1 ELSE 0
<1>1. /\ waiting \in Nat /\ queued \in Nat /\ due \in {0, 1}
      /\ Debt = waiting + queued + due
      /\ Debt' = waiting' + queued' + due'
  BY QueuedFinite, FS_CardinalityType DEF Debt, DebtInv, QueuedEvents, MonitorTypeOK
<1>2. ASSUME UNCHANGED <<waiting, queued, due>>, ~Settled
      PROVE  Debt' <= Debt /\ (Settled => Debt' < Debt)
  <2> HIDE DEF waiting, queued, due
  <2>1. QED
    BY <1>1, <1>2
<1>3. CASE \E d \in Device : Plug(d) \/ Unplug(d)
  <2>1. UNCHANGED <<WaitingEvents, events, deadline>>
    BY <1>3, NothingOwed
  <2>2. UNCHANGED <<waiting, queued, due>>
    BY <2>1 DEF QueuedEvents, Pending
  <2>3. ~Settled
    BY <1>3, <2>1 DEF Settled, DeadlineFires, Plug, Unplug
  <2>4. QED
    BY <1>2, <2>2, <2>3
<1>4. CASE Deliver
  <2>1. PICK e \in arriving : arriving' = arriving \ {e} /\ events' = Append(events, e)
    BY <1>4 DEF Deliver
  <2>2. e \in DeviceEvent /\ events \in Seq(DeviceEvent)
    BY DEF MonitorTypeOK
  <2>3. queued' = queued + (IF Pending(e) THEN 1 ELSE 0)
    BY <2>1, <2>2, QueuedAppend DEF QueuedEvents, Pending
  <2>4. waiting' = IF Pending(e) THEN waiting - 1 ELSE waiting
    <3>1. CASE Pending(e)
      <4>1. e \in WaitingEvents /\ WaitingEvents' = WaitingEvents \ {e}
        BY <2>1, <3>1 DEF WaitingEvents, Pending
      <4>2. QED
        BY <3>1, <4>1, FS_RemoveElement DEF DebtInv
    <3>2. CASE ~Pending(e)
      <4>1. WaitingEvents' = WaitingEvents
        BY <2>1, <3>2 DEF WaitingEvents, Pending
      <4>2. QED
        BY <3>2, <4>1
    <3>3. QED
      BY <3>1, <3>2
  <2>5. due' = due /\ ~Settled
    BY <1>4, <2>1, <2>2 DEF Deliver, Settled, DeadlineFires
  <2> HIDE DEF waiting, queued, due
  <2>6. Debt' = Debt
    BY <1>1, <2>3, <2>4, <2>5
  <2>7. QED
    BY <1>1, <2>5, <2>6
<1>5. CASE ReceiveEvent
  <2> DEFINE read == IF Pending(Head(events)) THEN 1 ELSE 0
  <2>1. events # <<>> /\ events' = Tail(events) /\ arriving' = arriving
    BY <1>5 DEF ReceiveEvent
  <2>2. queued = queued' + read
    BY <2>1, QueuedTail DEF QueuedEvents, Pending, MonitorTypeOK
  <2>3. waiting' = waiting
    BY <2>1 DEF WaitingEvents, Pending
  <2>4. due' <= due + read
    <3>1. deadline' = (deadline \/ Pending(Head(events)))
      BY <1>5 DEF ReceiveEvent, Pending
    <3>2. CASE Pending(Head(events))
      BY <3>2
    <3>3. CASE ~Pending(Head(events))
      BY <3>1, <3>3 DEF MonitorTypeOK
    <3>4. QED
      BY <3>2, <3>3
  <2>5. ~Settled
    BY <2>1 DEF Settled, DeadlineFires
  <2>6. due' \in Nat /\ due \in Nat /\ queued' \in Nat
    <3>1. Tail(events) \in Seq(DeviceEvent)
      BY <2>1 DEF MonitorTypeOK
    <3>2. QED
      BY <2>1, <3>1, QueuedFinite DEF QueuedEvents, Pending
  <2>7. read \in Nat
    OBVIOUS
  <2> HIDE DEF waiting, queued, due, read
  <2>8. waiting' + queued' + due' <= waiting + queued + due
    <3>1. waiting + queued' + due' <= waiting + queued' + (due + read)
      <4>1. \A w, q, a, b \in Nat : a <= b => w + q + a <= w + q + b
        OBVIOUS
      <4>2. due + read \in Nat
        BY <2>6, <2>7
      <4>3. QED
        BY <1>1, <2>4, <2>6, <4>1, <4>2
    <3>2. waiting + queued' + (due + read) = waiting + queued + due
      BY <1>1, <2>2, <2>6, <2>7
    <3>3. QED
      BY <2>3, <3>1, <3>2
  <2>9. Debt' <= Debt
    BY <1>1, <2>8
  <2>10. QED
    BY <2>5, <2>9
<1>6. CASE Settled
  <2>1. due = 1 /\ due' = 0
    BY <1>6 DEF Settled, DeadlineFires
  <2>2. waiting' = waiting /\ queued' = queued
    BY <1>6 DEF Settled, DeadlineFires, WaitingEvents, QueuedEvents, Pending
  <2> HIDE DEF waiting, queued, due
  <2>3. QED
    BY <1>1, <2>1, <2>2
<1>7. CASE UNCHANGED monitor
  <2>1. UNCHANGED <<waiting, queued, due>>
    BY <1>7 DEF monitor, WaitingEvents, QueuedEvents, Pending
  <2>2. ~Settled
    BY <1>7 DEF monitor, Settled, DeadlineFires
  <2>3. QED
    BY <1>2, <2>1, <2>2
<1>8. QED
  BY <1>3, <1>4, <1>5, <1>6, <1>7 DEF MonitorNext

(* No feedback loop of re-syncs (device.rs:39-67).                         *)
THEOREM ResyncsAreOwedHolds == MonitorSpec => ResyncsAreOwed
<1>1. MonitorInit => DebtInv
  <2>1. MonitorInit => WaitingEvents = {}
    BY DEF MonitorInit, WaitingEvents, Announced, Pending
  <2>2. QED
    BY <2>1, FS_EmptySet DEF DebtInv
<1>2. MonitorSpec => []DebtInv
  BY <1>1, DebtStep, PTL DEF MonitorSpec
<1>3. /\ MonitorTypeOK /\ DebtInv /\ [MonitorNext]_monitor
      => [~HotplugOfInterest => Debt' <= Debt /\ (Settled => Debt' < Debt)]_monitor
  BY DebtIsPaid
<1>4. QED
  BY <1>2, <1>3, MonitorTypeCorrect, PTL DEF MonitorSpec, ResyncsAreOwed
=============================================================================
