--------------------------- MODULE MCDeviceMonitor ---------------------------
(***************************************************************************)
(* Model checking of DeviceMonitor.tla: a composite keyboard, a mouse, a   *)
(* device IOKit cannot classify, and Karabiner's virtual keyboard.         *)
(***************************************************************************)
EXTENDS DeviceMonitor

CONSTANTS kbd, mouse, odd, vhid

Devices == {kbd, mouse, odd, vhid}

OwnKeys == [d \in Devices |-> d]

NodesOf ==
  [d \in Devices |->
     CASE d = kbd -> {"keyboard", "other"}
       [] d = mouse -> {"other"}
       [] d = odd -> {"unknown"}
       [] d = vhid -> {"keyboard"}]

(* Two keyboards of one make.                                              *)
Twins == {kbd, odd}

TwinKeys == [d \in Twins |-> "make"]

TwinNodes == [d \in Twins |-> {"keyboard"}]
=============================================================================
