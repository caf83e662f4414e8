------------------------------- MODULE Keeper -------------------------------
(***************************************************************************)
(* What the supervisor promises to the rest of the system, without its     *)
(* states, timers and queues: while kanata is wanted one process of it is  *)
(* kept, there is never a second one, and a process nobody wants any more  *)
(* is ended.  A process may also end by itself at any time, and the keeper *)
(* may stop wanting it at any time (a user's Stop, a fault it gives up on).*)
(***************************************************************************)
CONSTANTS Pid

VARIABLES
  wanted,   \* whether a kanata process is to be kept
  procs     \* the kanata processes alive

keeper == <<wanted, procs>>

KeeperTypeOK ==
  /\ wanted \in BOOLEAN
  /\ procs \in {{}} \cup {{p} : p \in Pid}

KeeperInit ==
  /\ wanted = FALSE
  /\ procs = {}

Want ==
  /\ ~wanted
  /\ wanted' = TRUE
  /\ UNCHANGED procs

GiveUp ==
  /\ wanted
  /\ wanted' = FALSE
  /\ UNCHANGED procs

(* A process is launched only when wanted, and only when none is left.     *)
Launch ==
  /\ wanted
  /\ procs = {}
  /\ \E p \in Pid : procs' = {p}
  /\ UNCHANGED wanted

Die ==
  /\ procs # {}
  /\ procs' = {}
  /\ UNCHANGED wanted

(* The death the keeper brings about.                                      *)
Reap == ~wanted /\ Die

KeeperNext == Want \/ GiveUp \/ Launch \/ Die

KeeperSpec == KeeperInit /\ [][KeeperNext]_keeper

KeeperFairSpec == KeeperSpec /\ WF_keeper(Reap)
=============================================================================
