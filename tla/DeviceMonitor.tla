---------------------------- MODULE DeviceMonitor ----------------------------
(***************************************************************************)
(* The device pipeline of kanatad (device/mod.rs with the relevance rules  *)
(* of kanatabar-core's device.rs).  A thread delivers HID presence events  *)
(* on an unbounded channel; the pipeline task records each in the registry *)
(* served by GetDevices, and arms a debounce deadline for those a running  *)
(* kanata has to learn of.  When the deadline passes the burst has settled *)
(* and kanata is asked to re-scan: here, without saying how.  Resync.tla   *)
(* composes the pipeline with the supervisor.                              *)
(***************************************************************************)
EXTENDS Naturals, Sequences

CONSTANTS
  Device,     \* physical devices
  Key,        \* Key[d]: the registry key (name and vendor) of device d
  Nodes,      \* Nodes[d]: the usages of the HID nodes device d presents
  Virtual,    \* the devices recognised as Karabiner's virtual keyboard
  EventCap,   \* bound on the channel of the monitor thread
  Absent      \* no entry in the registry

Usage == {"keyboard", "other", "unknown"}

ASSUME DeviceAssumption ==
  /\ Absent \notin Usage
  /\ Key \in [Device -> {Key[d] : d \in Device}]
  /\ Nodes \in [Device -> (SUBSET Usage) \ {{}}]
  /\ Virtual \subseteq Device
  /\ EventCap \in Nat

DeviceKey == {Key[d] : d \in Device}

VARIABLES
  plugged,    \* the devices present
  arriving,   \* presence events IOKit has yet to deliver, in no order
  events,     \* the channel from the monitor thread
  registry,   \* DeviceRegistry: the usage recorded under each key, or Absent
  deadline,   \* whether the debounce deadline is armed
  unsettled   \* ghost: a keyboard came or went and was not acted upon yet

monitor == <<plugged, arriving, events, registry, deadline, unsettled>>

DeviceEvent ==
  [change : {"Added", "Removed"}, device : Device, usage : Usage,
   initial : BOOLEAN]

MonitorTypeOK ==
  /\ plugged \in SUBSET Device
  /\ arriving \in SUBSET DeviceEvent
  /\ events \in Seq(DeviceEvent)
  /\ registry \in [DeviceKey -> Usage \cup {Absent}]
  /\ deadline \in BOOLEAN
  /\ unsettled \in BOOLEAN

-----------------------------------------------------------------------------
(* The virtual keyboard never counts; a known usage counts if it is a      *)
(* keyboard, an unknown one only when it goes.  (The variant forgets the   *)
(* virtual keyboard.)                                                      *)
RelevantIfVirtual(change, d, usage) ==
  usage = "keyboard" \/ (usage = "unknown" /\ change = "Removed")

IsResyncRelevant(change, d, usage) ==
  /\ d \notin Virtual
  /\ usage = "keyboard" \/ (usage = "unknown" /\ change = "Removed")

(* What kanata would grab.                                                 *)
IsKeyboard(d) == d \notin Virtual /\ "keyboard" \in Nodes[d]

(* One event per node of the device.                                       *)
Announced(change, d, usages, initial) ==
  {[change |-> change, device |-> d, usage |-> u, initial |-> initial] :
     u \in usages}

MonitorInit ==
  /\ plugged \in SUBSET Device
  /\ arriving = UNION {Announced("Added", d, Nodes[d], TRUE) : d \in plugged}
  /\ events = <<>>
  /\ registry = [k \in DeviceKey |-> Absent]
  /\ deadline = FALSE
  /\ unsettled = FALSE

(* Hotplug, outside the code.  The events of one device keep their order;  *)
(* a removal carries the descriptor that was read on arrival.              *)
Quiet(d) == \A e \in arriving : e.device # d

Plug(d) ==
  /\ d \notin plugged
  /\ Quiet(d)
  /\ plugged' = plugged \cup {d}
  /\ arriving' = arriving \cup Announced("Added", d, Nodes[d], FALSE)
  /\ unsettled' = (unsettled \/ IsKeyboard(d))
  /\ UNCHANGED <<events, registry, deadline>>

Unplug(d) ==
  /\ d \in plugged
  /\ Quiet(d)
  /\ plugged' = plugged \ {d}
  /\ arriving' = arriving \cup Announced("Removed", d, Nodes[d], FALSE)
  /\ unsettled' = (unsettled \/ IsKeyboard(d))
  /\ UNCHANGED <<events, registry, deadline>>

Deliver ==
  /\ Len(events) < EventCap
  /\ \E e \in arriving :
       /\ arriving' = arriving \ {e}
       /\ events' = Append(events, e)
  /\ UNCHANGED <<plugged, registry, deadline, unsettled>>

-----------------------------------------------------------------------------
(* DeviceRegistry::apply: the keyboard node of a composite device wins.    *)
(* (In the variant the node announced last does.)                          *)
ApplyLatest(reg, e) ==
  [reg EXCEPT ![Key[e.device]] = IF e.change = "Removed" THEN Absent ELSE e.usage]

Apply(reg, e) ==
  LET k == Key[e.device]
  IN  CASE e.change = "Removed" -> [reg EXCEPT ![k] = Absent]
        [] /\ e.change = "Added"
           /\ reg[k] = Absent \/ IsResyncRelevant("Added", e.device, e.usage) ->
             [reg EXCEPT ![k] = e.usage]
        [] OTHER -> reg

(* Every event is recorded; a relevant one that is no part of the initial  *)
(* enumeration (re)arms the debounce.  (The variant returns early for a    *)
(* device that is already known.)                                          *)
ReceiveNewDevice ==
  /\ events # <<>>
  /\ LET e == Head(events)
     IN  /\ registry' = Apply(registry, e)
         /\ deadline' = (deadline \/
              ( /\ ~e.initial
                /\ registry[Key[e.device]] = Absent
                /\ IsResyncRelevant(e.change, e.device, e.usage)))
  /\ events' = Tail(events)
  /\ UNCHANGED <<plugged, arriving, unsettled>>

ReceiveEvent ==
  /\ events # <<>>
  /\ LET e == Head(events)
     IN  /\ registry' = Apply(registry, e)
         /\ deadline' = (deadline \/
              (~e.initial /\ IsResyncRelevant(e.change, e.device, e.usage)))
  /\ events' = Tail(events)
  /\ UNCHANGED <<plugged, arriving, unsettled>>

(* The deadline passes; the select! is biased towards the channel.         *)
DeadlineFires ==
  /\ deadline
  /\ events = <<>>
  /\ deadline' = FALSE
  /\ UNCHANGED <<plugged, arriving, events, registry>>

(* What is announced by now is acted upon; the rest arms a new deadline.   *)
Pending(e) == ~e.initial /\ IsResyncRelevant(e.change, e.device, e.usage)

Settled ==
  /\ DeadlineFires
  /\ unsettled' = (\E e \in arriving : Pending(e))

-----------------------------------------------------------------------------
MonitorNext ==
  \/ \E d \in Device : Plug(d) \/ Unplug(d)
  \/ Deliver
  \/ ReceiveEvent
  \/ Settled

(* Threads and tasks run when they can; hotplugs are not fair.             *)
MonitorFairness ==
  WF_monitor(Deliver) /\ WF_monitor(ReceiveEvent) /\ WF_monitor(Settled)

MonitorSpec == MonitorInit /\ [][MonitorNext]_monitor /\ MonitorFairness
-----------------------------------------------------------------------------
(* Once delivered, what GetDevices shows is what is plugged in, and        *)
(* "matched" means that some node of the device is a keyboard kanata would *)
(* grab, in whatever order its nodes were enumerated.                      *)
RegistryIsLive ==
  (arriving = {} /\ events = <<>>) =>
    \A k \in DeviceKey :
      LET owners == {d \in plugged : Key[d] = k}
      IN  /\ registry[k] # Absent <=> owners # {}
          /\ \A d \in owners :
               IsResyncRelevant("Added", d, registry[k]) <=> IsKeyboard(d)

(* No keyboard change gets lost between IOKit and the debounce: it is on   *)
(* its way, in the channel, or in the armed deadline.                      *)
NoLostHotplug ==
  unsettled =>
    \/ deadline
    \/ \E e \in arriving : Pending(e)
    \/ \E i \in DOMAIN events : Pending(events[i])

(* No feedback loop: the virtual keyboard kanata itself creates and drops, *)
(* and devices that are no keyboards, cannot cause re-syncs for ever.  An  *)
(* unclassifiable device that goes counts like a keyboard, by design.      *)
HotplugOfInterest ==
  \E d \in Device \ Virtual : Unplug(d) \/ (IsKeyboard(d) /\ Plug(d))

NoFeedbackLoop ==
  []<><<Settled>>_monitor => []<><<HotplugOfInterest>>_monitor

(* Every keyboard change is settled once the hotplugs stop.                *)
HotplugSettles ==
  <>[][\A d \in Device : ~Plug(d) /\ ~Unplug(d)]_monitor => <>[](~unsettled)
=============================================================================
