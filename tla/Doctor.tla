-------------------------------- MODULE Doctor --------------------------------
(***************************************************************************)
(* What the daemon finds out about the machine it runs on and what the     *)
(* tray makes of it, as operators: the checks of `doctor` (kanatad         *)
(* doctor.rs, health/driver.rs; core doctor.rs, driver.rs, vhidd.rs), the  *)
(* driver preflight and permissions an attempt to run kanata meets, the    *)
(* steps of the Setup Assistant (tray wizard.rs, wizardwin.rs), and the    *)
(* menu items a state enables (tray model.rs).  SetupAssistant.tla lets    *)
(* the machine change under them.                                          *)
(*                                                                         *)
(* A machine is the set of facts that hold of it, whether the daemon runs, *)
(* its state machine, and the grants it was launched with.                 *)
(***************************************************************************)
EXTENDS Machine, FiniteSets

CONSTANTS
  DriverPreflight,     \* FALSE for --skip-driver-check
  PermissionPreflight  \* FALSE for KANATABAR_SKIP_PERMISSION_CHECK

ASSUME PreflightAssumption == {DriverPreflight, PermissionPreflight} \subseteq BOOLEAN

Grant == {"inputMonitoring", "accessibility"}

(* requested: the extension is listed, activated but perhaps not approved; *)
(* ours, other: a launchd job of ours, or of someone else, keeps the VHID  *)
(* daemon alive; service: so does one for kanatad; probe: the child        *)
(* `kanatad tcc-status` answers; file: config.toml parses or is not there; *)
(* config: the active .kbd passes `kanata --check`.  A fact is what the    *)
(* daemon finds: where systemextensionsctl, pgrep or launchctl cannot run  *)
(* it takes the extension for inactive, the VHID daemon for down and       *)
(* unmanaged, and the fact is missing.                                     *)
Fact ==
  Grant \cup
  {"package", "requested", "approved", "ours", "other", "vhidd", "probe",
   "service", "binary", "config", "file", "socket", "presets", "kbds"}

World ==
  [facts : SUBSET Fact, up : BOOLEAN, machine : MachineType,
   launched : SUBSET Grant]

DriverReady(w) == {"requested", "approved"} \subseteq w.facts

(* health::driver::check: the extension, then the VHID daemon.             *)
DriverHealth(w) ==
  IF ~DriverReady(w) THEN "DriverNotActivated"
  ELSE IF "vhidd" \notin w.facts THEN "VhidDaemonDown"
  ELSE "Ok"

(* vhidd::classify: our job, or a service of someone else; the "-0x" label *)
(* of the driver's own process does not count.                             *)
Managed(w) == w.facts \cap {"ours", "other"} # {}

(* A fresh probe child reads the grants as they are; without its answer    *)
(* the daemon's own verdict is the one it was launched with.               *)
ReadsGrants(w) == IF "probe" \in w.facts THEN w.facts \cap Grant ELSE w.launched

(* tcc_grants_ready.                                                       *)
GrantsSeen(w) == "probe" \in w.facts /\ Grant \subseteq w.facts

-----------------------------------------------------------------------------
(* The checks.                                                             *)

SetupCheck ==
  {"driver present", "driver version", "karabiner driver",
   "vhid daemon managed", "input monitoring", "accessibility", "daemon"}

Check ==
  SetupCheck \cup
  {"kanata binary", "vhid daemon", "control socket", "active config",
   "config file", "supervisor"}

(* Each check of doctor::run, as far as it can pass or fail.  What the     *)
(* driver preflight or the permission preflight skips passes.              *)
KanataBinaryCheck(w) == "binary" \in w.facts

DriverPresentCheck(w) == DriverPreflight => "package" \in w.facts

DriverCheck(w) == DriverPreflight => DriverHealth(w) # "DriverNotActivated"

VhidDaemonCheck(w) == DriverPreflight => DriverHealth(w) = "Ok"

VhidManagedCheck(w) == DriverPreflight => Managed(w)

InputMonitoringCheck(w) ==
  PermissionPreflight => "inputMonitoring" \in ReadsGrants(w)

AccessibilityCheck(w) ==
  PermissionPreflight => "accessibility" \in ReadsGrants(w)

(* The version is only reported: supported_driver_major knows of none.     *)
DriverVersionCheck(w) == TRUE

SocketCheck(w) == "socket" \in w.facts

ActiveConfigCheck(w) == {"config", "binary"} \subseteq w.facts

ConfigFileCheck(w) == "file" \in w.facts

SupervisorCheck(w) == w.machine.state # "Degraded"

(* The daemon that answers is reachable.                                   *)
Passes(w) ==
  [c \in Check |->
     CASE c = "daemon" -> TRUE
       [] c = "kanata binary" -> KanataBinaryCheck(w)
       [] c = "driver present" -> DriverPresentCheck(w)
       [] c = "karabiner driver" -> DriverCheck(w)
       [] c = "driver version" -> DriverVersionCheck(w)
       [] c = "vhid daemon" -> VhidDaemonCheck(w)
       [] c = "vhid daemon managed" -> VhidManagedCheck(w)
       [] c = "input monitoring" -> InputMonitoringCheck(w)
       [] c = "accessibility" -> AccessibilityCheck(w)
       [] c = "control socket" -> SocketCheck(w)
       [] c = "active config" -> ActiveConfigCheck(w)
       [] c = "config file" -> ConfigFileCheck(w)
       [] c = "supervisor" -> SupervisorCheck(w)]

(* The failed checks of a report.  The daemon runs them: unreachable, it   *)
(* leaves the synthetic report of one.                                     *)
Unreachable == {"daemon"}

Failed(w) == IF w.up THEN {c \in Check : ~Passes(w)[c]} ELSE Unreachable

SetupComplete(failed) == failed \cap SetupCheck = {}

-----------------------------------------------------------------------------
(* The supervisor, from one settled state to the next (Supervisor.tla has  *)
(* the steps between them).                                                *)

SpawnRefusal(w) ==
  IF DriverPreflight /\ DriverHealth(w) # "Ok" THEN DriverHealth(w)
  ELSE IF "binary" \notin w.facts THEN "KanataBinMissing"
  ELSE IF "config" \notin w.facts THEN "ConfigBroken"
  ELSE None

(* kanata starts, and says so when macOS denies it the keyboard.           *)
Spawns(w, starting) ==
  LET running == Handle(starting, "SpawnSucceeded").machine
  IN  IF SpawnRefusal(w) # None THEN Handle(starting, SpawnRefusal(w)).machine
      ELSE IF Grant \subseteq w.facts THEN running
      ELSE Handle(running, "InputMonitoringDenied").machine

Settles(w, e) ==
  LET out == Handle(w.machine, e)
  IN  [w EXCEPT !.machine =
         IF out.moved /\ out.machine.state = "Starting"
         THEN Spawns(w, out.machine) ELSE out.machine]

(* launchd starts the daemon, which starts kanata.                         *)
Boots(w) ==
  Settles([w EXCEPT !.up = TRUE, !.machine = NewMachine,
                    !.launched = w.facts \cap Grant], "Start")

Down(w) == [w EXCEPT !.up = FALSE, !.machine = NewMachine]

(* sudo kanatactl install (Installer.tla): our VHID job where the driver   *)
(* is there and nobody else keeps its daemon alive, and a daemon anew.     *)
Installs(w) ==
  LET ours == "package" \in w.facts /\ "other" \notin w.facts
  IN  Boots([w EXCEPT !.facts =
               @ \cup (IF ours THEN {"service", "ours", "vhidd"} ELSE {"service"})])

Degradation(w) ==
  IF w.up /\ w.machine.state = "Degraded" THEN w.machine.reason ELSE None

-----------------------------------------------------------------------------
(* The Setup Assistant.                                                    *)

StepOf(check, run, open, copy) ==
  [verifies |-> check, run |-> run, open |-> open, copy |-> copy]

(* (In the variant the first two steps verify one check, as they once      *)
(* did.)                                                                   *)
OneDriverCheck ==
  <<StepOf("karabiner driver", FALSE, TRUE, FALSE),
    StepOf("driver version", FALSE, TRUE, FALSE),
    StepOf("karabiner driver", TRUE, TRUE, FALSE),
    StepOf("vhid daemon managed", FALSE, FALSE, TRUE),
    StepOf("input monitoring", FALSE, TRUE, FALSE),
    StepOf("accessibility", FALSE, TRUE, FALSE),
    StepOf("daemon", FALSE, FALSE, TRUE),
    StepOf(None, FALSE, FALSE, FALSE)>>

Steps ==
  <<StepOf("driver present", FALSE, TRUE, FALSE),
    StepOf("driver version", FALSE, TRUE, FALSE),
    StepOf("karabiner driver", TRUE, TRUE, FALSE),
    StepOf("vhid daemon managed", FALSE, FALSE, TRUE),
    StepOf("input monitoring", FALSE, TRUE, FALSE),
    StepOf("accessibility", FALSE, TRUE, FALSE),
    StepOf("daemon", FALSE, FALSE, TRUE),
    StepOf(None, FALSE, FALSE, FALSE)>>

FirstStep(checks) ==
  LET open == {i \in DOMAIN Steps : Steps[i].verifies \in checks}
  IN  IF open = {} THEN 0 ELSE CHOOSE i \in open : \A j \in open : i <= j

CheckForDegradedReason(reason) ==
  CASE reason = "InputMonitoringDenied" -> {"input monitoring"}
    [] reason = "DriverNotActivated" -> {"karabiner driver"}
    [] reason = "VhidDaemonDown" -> {"vhid daemon"}
    [] reason = "KanataBinMissing" -> {"kanata binary"}
    [] reason = "ConfigBroken" -> {"active config"}
    [] OTHER -> {}

(* The step to do next, 0 when none is left: what fails right now decides, *)
(* and only a clean checklist leaves it to the degradation.  (In the       *)
(* variant the degradation comes first.)                                   *)
FirstDegraded(failed, reason) ==
  IF FirstStep(CheckForDegradedReason(reason)) # 0
  THEN FirstStep(CheckForDegradedReason(reason))
  ELSE FirstStep(failed)

FirstUnsatisfied(failed, reason) ==
  IF FirstStep(failed) # 0
  THEN FirstStep(failed)
  ELSE FirstStep(CheckForDegradedReason(reason))

(* A view of the assistant: its current step and, without one, what the    *)
(* completion panel says next.                                             *)
Completion(w) ==
  IF ~w.up \/ "presets" \in w.facts THEN "AllSet"
  ELSE IF "kbds" \in w.facts THEN "ImportConfig" ELSE "AddPreset"

WizardView(step, completion) ==
  [rows |-> {}, step |-> step, completion |-> completion]

(* A page of rows: the failing checks, or the devices, or an error when    *)
(* the daemon does not answer.                                             *)
RowsView(rows) == [rows |-> rows, step |-> 0, completion |-> "None"]

HealthView(w) == RowsView(IF w.up THEN Failed(w) ELSE {"error"})

DevicesView(w, plugged) == RowsView(IF w.up THEN plugged ELSE {"error"})

(* A failing setup check leads to the assistant.                           *)
Delegates(check) == IF check \in SetupCheck THEN FirstStep({check}) ELSE 0

-----------------------------------------------------------------------------
(* Capabilities::for_state: the commands the menu enables.                 *)
Offered(state) ==
  CASE state = "Stopped" -> {"Start", "Restart"}
    [] state = "Starting" -> {"Stop"}
    [] state = "Running" -> {"Stop", "Restart", "Pause"}
    [] state \in {"Backoff", "Degraded"} -> {"Start", "Stop", "Restart"}
    [] state = "Paused" -> {"Start", "Stop", "Resume"}
=============================================================================
