----------------------------- MODULE RevivedKeeper -----------------------------
(***************************************************************************)
(* The keeper of Keeper.tla when its process may be killed and started     *)
(* again: `wanted' now says that a daemon is there to keep a kanata.  A    *)
(* crash ends that, and leaves the kanata running or takes it along.  The  *)
(* next daemon takes over when none is left: nothing is adopted, and there *)
(* are never two.                                                          *)
(***************************************************************************)
EXTENDS Keeper

TakeOver == procs = {} /\ Want

Crash ==
  /\ wanted
  /\ wanted' = FALSE
  /\ procs' \in {procs, {}}

RevivedNext == TakeOver \/ Launch \/ Die \/ Crash

RevivedSpec == KeeperInit /\ [][RevivedNext]_keeper
=============================================================================
