------------------------------- MODULE MCResync -------------------------------
(***************************************************************************)
(* Model checking of Resync.tla with one keyboard.                         *)
(***************************************************************************)
EXTENDS Resync

CONSTANTS kbd

OneKeyboard == {kbd}

ItsKey == [d \in OneKeyboard |-> d]

ItsNode == [d \in OneKeyboard |-> {"keyboard"}]
=============================================================================
