------------------------------ MODULE MCTrayLink ------------------------------
(***************************************************************************)
(* One layer, one preset, every queue of length one: the broadcasts lag    *)
(* and the socket blocks all the time.  Three moves of the daemon suffice  *)
(* for a kanata that comes up, names its layer and is stopped or dies, for *)
(* two requests whose announcements cross around a subscription, and for a *)
(* death of the daemon with events on either side.                         *)
(***************************************************************************)
EXTENDS TraySession

CONSTANTS base, main

MCLayer == {base}
MCPreset == {main}
=============================================================================
