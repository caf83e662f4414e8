------------------------------ MODULE MCLifecycle ------------------------------
(***************************************************************************)
(* Two commands over two releases: an upgrade, a reinstall of a part, an   *)
(* uninstall, and a second command after one that failed half way.  The    *)
(* daemon's part alone leaves what a whole command leaves that fails in    *)
(* the agent's.  Two pids hold the kanata and an orphan or a stranger; one *)
(* fault kills the daemon or its kanata, or takes its socket.              *)
(***************************************************************************)
EXTENDS Installer

CONSTANTS p1, p2, kanata, r1, r2

MCPid == {p1, p2}
MCBinary == {kanata}
MCRelease == {r1, r2}
MCLine == <<r1, r2>>
=============================================================================
