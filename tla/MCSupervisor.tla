----------------------------- MODULE MCSupervisor -----------------------------
(***************************************************************************)
(* Model checking of Supervisor.tla.  Two pids are enough for a restart to *)
(* have an old and a new process.                                          *)
(***************************************************************************)
EXTENDS Supervisor
=============================================================================
