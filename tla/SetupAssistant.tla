---------------------------- MODULE SetupAssistant ----------------------------
(***************************************************************************)
(* The windows of the tray (tray main.rs, ui_shell.rs, pages.rs): devices, *)
(* Health Check and Setup Assistant.  A window is built when it is first   *)
(* opened and hidden when it is closed.  Opening it starts a fetch, a task *)
(* of its own that asks the daemon and posts a view to the event loop;     *)
(* several may be on their way and the last to arrive stays on the page.   *)
(* The health page and the assistant check again every 2 s while they are  *)
(* visible, by a chain of one-shot ticks; the devices page fetches again   *)
(* when a hotplug is announced.  Meanwhile the machine of Doctor.tla is    *)
(* repaired, broken and restarted, by the user and by itself.              *)
(***************************************************************************)
EXTENDS Doctor

CONSTANTS
  Scenes,     \* where a behaviour may begin: the facts, whether the daemon
              \* runs, moves used up, and pages that the user will open
  Flips,      \* facts that may become true or false by themselves
  Device,     \* devices that may be plugged
  MoveCap,    \* bound: changes nobody was told to make
  Slot        \* bound: fetches on their way

ASSUME AssistantAssumption ==
  /\ Scenes \subseteq
       [facts : SUBSET Fact, up : BOOLEAN, moves : 0..MoveCap,
        opens : SUBSET {"Devices", "Health", "Wizard"}]
  /\ Flips \subseteq Fact
  /\ MoveCap \in Nat
  /\ (Check \cup {"error"}) \cap Device = {}

VARIABLES
  world,      \* the machine
  plugged,    \* its devices
  moves,      \* changes so far
  opens,      \* pages the user may yet open, once each
  auto,       \* the auto-open task: failed attempts, or how it ended
  page,       \* the window of each page
  fetch,      \* what each slot fetches, or None
  pending,    \* wizard_tick_pending, health_tick_pending
  ticks,      \* tick tasks asleep
  news,       \* DevicesChanged events on their way
  excuse      \* history: why the devices shown may be out of date

worldVars == <<world, plugged, moves, news>>
windowVars == <<opens, auto, page, fetch, pending, ticks>>
assistantVars == <<worldVars, windowVars, excuse>>

Page == {"Devices", "Health", "Wizard"}
Polled == {"Health", "Wizard"}

View ==
  [rows : SUBSET (Check \cup {"error"} \cup Device), step : 0..Len(Steps),
   completion : {"None", "AllSet", "ImportConfig", "AddPreset"}]

Window ==
  [made : BOOLEAN, ready : BOOLEAN, visible : BOOLEAN,
   kept : View \cup {None}, drawn : View \cup {None}]

(* running: the command of a step goes first; asked: nothing is read yet;  *)
(* status, presets: what the assistant reads next; done: the view is       *)
(* posted.  old: another fetch of the page read later.                     *)
Fetch ==
  [page : Page, stage : {"running", "asked", "status", "presets", "done"},
   failed : SUBSET Check, reason : DegradedReason \cup {None},
   view : View \cup {None}, old : BOOLEAN]

ASSUME FetchAssumption == None \notin Fetch

AssistantTypeOK ==
  /\ world \in World
  /\ plugged \subseteq Device
  /\ moves \in 0..MoveCap
  /\ opens \subseteq Page
  /\ auto \in {"first", "second", "third", "opening", "settled"}
  /\ page \in [Page -> Window]
  /\ fetch \in [Slot -> Fetch \cup {None}]
  /\ pending \in [Polled -> BOOLEAN]
  /\ ticks \in [Polled -> Nat]
  /\ news \in 0..MoveCap
  /\ excuse \subseteq {"deaf", "overtaken"}
  /\ \A p \in Page : page[p].ready \/ page[p].visible => page[p].made
  /\ \A p \in Page : ~page[p].made => page[p].kept = None

NoWindow ==
  [made |-> FALSE, ready |-> FALSE, visible |-> FALSE, kept |-> None,
   drawn |-> None]

(* The tray starts, on a machine whose daemon, if it has one, may not be   *)
(* up yet.                                                                 *)
AssistantInit ==
  /\ \E scene \in Scenes :
       LET off == [facts |-> scene.facts, up |-> FALSE, machine |-> NewMachine,
                   launched |-> {}]
       IN  /\ world = IF scene.up THEN Boots(off) ELSE off
           /\ moves = scene.moves
           /\ opens = scene.opens
  /\ plugged = {}
  /\ auto = "first"
  /\ page = [p \in Page |-> NoWindow]
  /\ fetch = [s \in Slot |-> None]
  /\ pending = [p \in Polled |-> FALSE]
  /\ ticks = [p \in Polled |-> 0]
  /\ news = 0
  /\ excuse = {}

-----------------------------------------------------------------------------
(* Fetches.                                                                *)

Free == {s \in Slot : fetch[s] = None}

NewFetch(p, stage) ==
  [page |-> p, stage |-> stage, failed |-> {}, reason |-> None, view |-> None,
   old |-> FALSE]

Starts(p, stage) ==
  /\ Free # {}
  /\ fetch' = [fetch EXCEPT ![CHOOSE s \in Free : TRUE] = NewFetch(p, stage)]

InFlight(p) == \E s \in Slot : fetch[s] # None /\ fetch[s].page = p

At(s, stage) == fetch[s] # None /\ fetch[s].stage = stage

Posts(f, view) == [f EXCEPT !.stage = "done", !.view = view]

(* conn::fetch_devices, into the devices page.                             *)
FetchDevices(s) ==
  /\ At(s, "asked") /\ fetch[s].page = "Devices"
  /\ fetch' =
       [t \in Slot |->
          IF t = s THEN Posts(fetch[s], DevicesView(world, plugged))
          ELSE IF fetch[t] # None /\ fetch[t].page = "Devices"
                  /\ fetch[t].stage = "done"
          THEN [fetch[t] EXCEPT !.old = TRUE] ELSE fetch[t]]
  /\ excuse' = excuse \ {"deaf"}
  /\ UNCHANGED <<worldVars, opens, auto, page, pending, ticks>>

FetchHealth(s) ==
  /\ At(s, "asked") /\ fetch[s].page = "Health"
  /\ fetch' = [fetch EXCEPT ![s] = Posts(@, HealthView(world))]
  /\ UNCHANGED <<worldVars, opens, auto, page, pending, ticks, excuse>>

(* fetch_wizard_view: the doctor's report, then the supervisor's status,   *)
(* then, when nothing is left to do, the presets: three connections.       *)
FetchChecks(s) ==
  /\ At(s, "asked") /\ fetch[s].page = "Wizard"
  /\ fetch' = [fetch EXCEPT ![s].stage = "status", ![s].failed = Failed(world)]
  /\ UNCHANGED <<worldVars, opens, auto, page, pending, ticks, excuse>>

FetchStatus(s) ==
  /\ At(s, "status")
  /\ LET reason == Degradation(world)
         step == FirstUnsatisfied(fetch[s].failed, reason)
         read == [fetch[s] EXCEPT !.reason = reason]
     IN  fetch' = [fetch EXCEPT ![s] =
                     IF step = 0 THEN [read EXCEPT !.stage = "presets"]
                     ELSE Posts(read, WizardView(step, "None"))]
  /\ UNCHANGED <<worldVars, opens, auto, page, pending, ticks, excuse>>

FetchPresets(s) ==
  /\ At(s, "presets")
  /\ fetch' = [fetch EXCEPT ![s] = Posts(@, WizardView(0, Completion(world)))]
  /\ UNCHANGED <<worldVars, opens, auto, page, pending, ticks, excuse>>

(* run_step_command, which activates the extension or fails, and the fetch *)
(* after it either way.                                                    *)
Activates(w) ==
  [w EXCEPT !.facts = IF "package" \in @ THEN @ \cup {"requested"} ELSE @]

RunsCommand(s) ==
  /\ At(s, "running")
  /\ fetch' = [fetch EXCEPT ![s].stage = "asked"]
  /\ world' \in {world, Activates(world)}
  /\ UNCHANGED <<plugged, moves, news, opens, auto, page, pending, ticks, excuse>>

-----------------------------------------------------------------------------
(* Windows.                                                                *)

(* (The variant shows the window as it was left.) *)
ShowsAsLeft(p) ==
  /\ page' = [page EXCEPT ![p].made = TRUE, ![p].visible = TRUE]
  /\ IF page[p].made THEN UNCHANGED fetch ELSE Starts(p, "asked")

(* open_page: build the window on first use, show it, fetch.               *)
Shows(p) ==
  /\ page' = [page EXCEPT ![p].made = TRUE, ![p].visible = TRUE]
  /\ Starts(p, "asked")

UserOpens(p) ==
  /\ p \in opens
  /\ opens' = opens \ {p}
  /\ Shows(p)
  /\ UNCHANGED <<worldVars, auto, pending, ticks, excuse>>

(* The menu: "Devices..." is enabled while the tray is connected.          *)
ClicksMenu(p) ==
  /\ p = "Devices" => world.up
  /\ UserOpens(p)

(* The button beside a failing setup check.                                *)
OpensWizard ==
  /\ page["Health"].visible /\ page["Health"].drawn # None
  /\ \E c \in page["Health"].drawn.rows : Delegates(c) # 0
  /\ UserOpens("Wizard")

(* The webview has loaded: the view that came early is drawn (in the       *)
(* variant it is not).                                                     *)
ReadyUndrawn(p) ==
  /\ page[p].made /\ ~page[p].ready
  /\ page' = [page EXCEPT ![p].ready = TRUE]
  /\ UNCHANGED <<worldVars, opens, auto, fetch, pending, ticks, excuse>>

PageReady(p) ==
  /\ page[p].made /\ ~page[p].ready
  /\ page' = [page EXCEPT ![p].ready = TRUE, ![p].drawn = page[p].kept]
  /\ UNCHANGED <<worldVars, opens, auto, fetch, pending, ticks, excuse>>

Closes(p) ==
  /\ page[p].visible
  /\ page' = [page EXCEPT ![p].visible = FALSE]
  /\ UNCHANGED <<worldVars, opens, auto, fetch, pending, ticks, excuse>>

Render(p, view) ==
  [page EXCEPT ![p].kept = view,
               ![p].drawn = IF page[p].ready THEN view ELSE @]

(* (In the variant every view starts a tick of its own.)                   *)
TicksAnyway(p) ==
  /\ pending' = [pending EXCEPT ![p] = TRUE]
  /\ ticks' = [ticks EXCEPT ![p] = @ + 1]

ChainsTick(p) ==
  IF page[p].visible /\ ~pending[p]
  THEN /\ pending' = [pending EXCEPT ![p] = TRUE]
       /\ ticks' = [ticks EXCEPT ![p] = @ + 1]
  ELSE UNCHANGED <<pending, ticks>>

(* HealthData, WizardData: the view is drawn, and one tick is pending as   *)
(* long as the window is visible.                                          *)
DeliversReport(s) ==
  /\ At(s, "done") /\ fetch[s].page \in Polled
  /\ page' = Render(fetch[s].page, fetch[s].view)
  /\ ChainsTick(fetch[s].page)
  /\ fetch' = [fetch EXCEPT ![s] = None]
  /\ UNCHANGED <<worldVars, opens, auto, excuse>>

DeliversDevices(s) ==
  /\ At(s, "done") /\ fetch[s].page = "Devices"
  /\ page' = Render("Devices", fetch[s].view)
  /\ fetch' = [fetch EXCEPT ![s] = None]
  /\ excuse' = IF fetch[s].old THEN excuse \cup {"overtaken"}
               ELSE excuse \ {"overtaken"}
  /\ UNCHANGED <<worldVars, opens, auto, pending, ticks>>

(* HealthTick, WizardTick.                                                 *)
TickFires(p) ==
  /\ ticks[p] > 0
  /\ ticks' = [ticks EXCEPT ![p] = @ - 1]
  /\ pending' = [pending EXCEPT ![p] = FALSE]
  /\ IF page[p].visible THEN Starts(p, "asked") ELSE UNCHANGED fetch
  /\ UNCHANGED <<worldVars, opens, auto, page, excuse>>

(* DevicesChanged: hidden windows do not fetch.                            *)
HearsHotplug ==
  /\ news > 0
  /\ news' = news - 1
  /\ IF page["Devices"].visible THEN Starts("Devices", "asked") ELSE UNCHANGED fetch
  /\ UNCHANGED <<world, plugged, moves, opens, auto, page, pending, ticks, excuse>>

-----------------------------------------------------------------------------
(* The tray starts: an attempt, and another 2 s after one that did not     *)
(* reach the daemon, three in all (the variant takes silence for a          *)
(* complete setup).                                                        *)
NextAttemptTrusts ==
  CASE auto = "first" -> "second"
    [] auto = "second" -> "third"
    [] auto = "third" -> "settled"

NextAttempt ==
  CASE auto = "first" -> "second"
    [] auto = "second" -> "third"
    [] auto = "third" -> "opening"

ChecksSetup ==
  /\ auto \in {"first", "second", "third"}
  /\ auto' = IF ~world.up THEN NextAttempt
             ELSE IF SetupComplete(Failed(world)) THEN "settled" ELSE "opening"
  /\ UNCHANGED <<worldVars, opens, page, fetch, pending, ticks, excuse>>

AutoOpenWizard ==
  /\ auto = "opening"
  /\ auto' = "settled"
  /\ Shows("Wizard")
  /\ UNCHANGED <<worldVars, opens, pending, ticks, excuse>>

-----------------------------------------------------------------------------
(* The user does what the current step says.                               *)

Reads(check) ==
  /\ page["Wizard"].visible /\ page["Wizard"].drawn # None
  /\ page["Wizard"].drawn.step # 0
  /\ Steps[page["Wizard"].drawn.step].verifies = check

(* "Do it for me".                                                         *)
RunStep ==
  /\ \E c \in Check : Reads(c)
  /\ Steps[page["Wizard"].drawn.step].run
  /\ "requested" \notin world.facts
  /\ Starts("Wizard", "running")
  /\ UNCHANGED <<worldVars, opens, auto, page, pending, ticks, excuse>>

Obtains(fact) ==
  /\ fact \notin world.facts
  /\ world' = [world EXCEPT !.facts = @ \cup {fact}]
  /\ UNCHANGED <<plugged, moves, news, windowVars, excuse>>

FollowsStep ==
  \/ Reads("driver present") /\ Obtains("package")
  \/ Reads("karabiner driver") /\ "requested" \in world.facts /\ Obtains("approved")
  \/ Reads("input monitoring") /\ Obtains("inputMonitoring")
  \/ Reads("accessibility") /\ Obtains("accessibility")

(* sudo kanatactl install, where the step it is the remedy for still       *)
(* stands.                                                                 *)
InstallsService ==
  /\ \/ Reads("daemon") /\ ~world.up
     \/ Reads("vhid daemon managed") /\ ~Managed(world)
  /\ world' = Installs(world)
  /\ excuse' = excuse \cup {"deaf"}
  /\ UNCHANGED <<plugged, moves, news, windowVars>>

-----------------------------------------------------------------------------
(* The machine and its daemon change.                                      *)

Moves == moves < MoveCap /\ moves' = moves + 1

Alone == UNCHANGED <<plugged, news, windowVars>>

FactFlips ==
  /\ Moves
  /\ \E f \in Flips :
       world' = [world EXCEPT !.facts =
                   IF f \in @ THEN @ \ {f} ELSE @ \cup {f}]
  /\ UNCHANGED excuse /\ Alone

(* A lifecycle command from the menu.                                      *)
UserCommands ==
  /\ Moves
  /\ world.up
  /\ \E c \in Offered(world.machine.state) : world' = Settles(world, c)
  /\ UNCHANGED excuse /\ Alone

(* KanataBar is updated: the grants are void and the daemon is a new one.  *)
Updates ==
  /\ Moves
  /\ world.up
  /\ world' = Boots([world EXCEPT !.facts = @ \ Grant])
  /\ excuse' = excuse \cup {"deaf"}
  /\ Alone

DaemonStops ==
  /\ Moves
  /\ world.up
  /\ world' = Down(world)
  /\ excuse' = excuse \cup {"deaf"}
  /\ Alone

(* The announcement reaches the tray, or it does not: the daemon is down,  *)
(* the tray connects again or has not subscribed yet (conn.rs:84-93), the  *)
(* broadcast lags (control/mod.rs:251-273), or the event comes before the  *)
(* answer to the preset list that is fetched again (conn.rs:104-106).      *)
Hotplug ==
  /\ Moves
  /\ \E d \in Device :
       plugged' = IF d \in plugged THEN plugged \ {d} ELSE plugged \cup {d}
  /\ \/ world.up /\ news' = news + 1 /\ UNCHANGED excuse
     \/ excuse' = excuse \cup {"deaf"} /\ UNCHANGED news
  /\ UNCHANGED <<world, windowVars>>

Itself == UNCHANGED <<plugged, moves, news, windowVars>>

(* launchd.                                                                *)
DaemonStarts ==
  /\ ~world.up /\ "service" \in world.facts
  /\ world' = Boots(world)
  /\ excuse' = excuse \cup {"deaf"}
  /\ Itself

(* launchd keeps the VHID daemon of a job alive.                           *)
DriverDaemonRevives ==
  /\ Managed(world) /\ "vhidd" \notin world.facts
  /\ world' = [world EXCEPT !.facts = @ \cup {"vhidd"}]
  /\ UNCHANGED excuse /\ Itself

(* The supervisor: its watch on the grants, and kanata's reports of the    *)
(* output backend.                                                         *)
Notices(e) ==
  /\ world.up
  /\ world' = Settles(world, e)
  /\ UNCHANGED excuse /\ Itself

GrantsNoticed ==
  /\ Degradation(world) = "InputMonitoringDenied" /\ GrantsSeen(world)
  /\ Notices("Restart")

BackendNoticed ==
  \/ /\ world.machine.state = "Running" /\ "vhidd" \notin world.facts
     /\ Notices("OutputBackendLost")
  \/ /\ BackendDegraded(world.machine) /\ "vhidd" \in world.facts
     /\ Notices("OutputBackendRecovered")

-----------------------------------------------------------------------------
FetchStep(s) ==
  \/ FetchDevices(s)
  \/ FetchHealth(s)
  \/ FetchChecks(s)
  \/ FetchStatus(s)
  \/ FetchPresets(s)
  \/ RunsCommand(s)
  \/ DeliversReport(s)
  \/ DeliversDevices(s)

TrayStep ==
  \/ \E p \in Page : PageReady(p)
  \/ \E p \in Polled : TickFires(p)
  \/ HearsHotplug
  \/ ChecksSetup
  \/ AutoOpenWizard

UserStep ==
  \/ \E p \in Page : ClicksMenu(p) \/ Closes(p)
  \/ OpensWizard
  \/ RunStep
  \/ FollowsStep
  \/ InstallsService

MachineStep ==
  \/ FactFlips
  \/ UserCommands
  \/ Updates
  \/ DaemonStops
  \/ Hotplug
  \/ DaemonStarts
  \/ DriverDaemonRevives
  \/ GrantsNoticed
  \/ BackendNoticed

AssistantNext ==
  \/ \E s \in Slot : FetchStep(s)
  \/ TrayStep
  \/ UserStep
  \/ MachineStep

AssistantSpec == AssistantInit /\ [][AssistantNext]_assistantVars

(* Tasks are scheduled, timers elapse, pages load and the event loop runs; *)
(* launchd restarts the daemon and the supervisor sees the grants.  Where  *)
(* a fetch starts the fairness is strong: Slot bounds the fetches of the   *)
(* model, nothing bounds those of the tray.                                *)
AssistantFairSpec ==
  /\ AssistantSpec
  /\ \A s \in Slot : WF_assistantVars(FetchStep(s))
  /\ \A p \in Page : WF_assistantVars(PageReady(p))
  /\ \A p \in Polled : SF_assistantVars(TickFires(p))
  /\ SF_assistantVars(HearsHotplug)
  /\ WF_assistantVars(ChecksSetup)
  /\ SF_assistantVars(AutoOpenWizard)
  /\ WF_assistantVars(DaemonStarts)
  /\ WF_assistantVars(GrantsNoticed)

(* And a user who does what the assistant says, and a command that does    *)
(* not fail for ever.                                                      *)
GuidedSpec ==
  /\ AssistantFairSpec
  /\ SF_assistantVars(RunStep)
  /\ SF_assistantVars(\E s \in Slot : RunsCommand(s) /\ world' # world)
  /\ WF_assistantVars(FollowsStep)
  /\ WF_assistantVars(InstallsService)

-----------------------------------------------------------------------------
(* The ticks of a page form one chain: two views that arrive close         *)
(* together, a command's and a tick's, or those of two openings, do not    *)
(* double it (main.rs:190-193, 354-405).                                   *)
OneChain == \A p \in Polled : ticks[p] = IF pending[p] THEN 1 ELSE 0

(* While a checking page is visible its next check is on its way: a fetch  *)
(* or a tick.  Closing and reopening within one tick is where it could     *)
(* break (main.rs:354-405).                                                *)
KeepsChecking ==
  \A p \in Polled : page[p].visible => InFlight(p) \/ ticks[p] > 0

(* So a visible page is checked again and again, by one chain.             *)
PollsOnce == OneChain /\ KeepsChecking

(* The current step is one whose check fails; only when no setup check     *)
(* fails may a degradation name it.  After an update voids both grants the *)
(* assistant goes from the one to the other (wizard.rs:195-223).           *)
NeverPins ==
  \A s \in Slot :
    At(s, "done") /\ fetch[s].page = "Wizard" /\ fetch[s].view.step # 0
      /\ Steps[fetch[s].view.step].verifies \notin fetch[s].failed
    => fetch[s].failed \cap SetupCheck = {}

(* A setup check that fails on the health page has its step, and the       *)
(* assistant the button opens stands at that step or at one before it      *)
(* (healthwin.rs:6-9, 87-99; wizard.rs:160-164).                           *)
HealthDelegates ==
  page["Health"].drawn # None =>
    \A c \in page["Health"].drawn.rows \cap SetupCheck :
      /\ Delegates(c) # 0
      /\ FirstUnsatisfied(page["Health"].drawn.rows, None) \in 1..Delegates(c)

(* A visible devices page that is not about to change lists the devices as *)
(* last announced, whichever of opening, hiding, loading, hotplugs and     *)
(* answers came first (main.rs:416-425, 572-584; ui_shell.rs:188-202).     *)
(* Two things excuse it, and do happen (README, finding 18): since its     *)
(* last answer the daemon was away or an announcement was lost (Hotplug    *)
(* says how), or an older answer arrived after a newer one.                *)
DevicesFresh ==
  /\ page["Devices"].visible /\ page["Devices"].ready
  /\ ~InFlight("Devices") /\ news = 0 /\ excuse = {}
  => page["Devices"].drawn = DevicesView(world, plugged)

(* What a complete setup is, in terms of the machine.                      *)
SetUp(w) ==
  /\ w.up
  /\ DriverPreflight =>
       {"package", "requested", "approved"} \subseteq w.facts /\ Managed(w)
  /\ PermissionPreflight => ReadsGrants(w) = Grant

(* The assistant never opens itself over a machine that is set up, however *)
(* degraded it is (core doctor.rs:96-105; main.rs:204-222).                *)
OpensOnlyUnset ==
  [][auto # "opening" /\ auto' = "opening" => ~SetUp(world)]_assistantVars

(* It does open itself when the machine stays without a setup, the daemon  *)
(* that is not installed included (main.rs:197-223).                       *)
OffersSetup == []~SetUp(world) => <>page["Wizard"].made

(* It opens itself over a machine without a setup and no other.            *)
OpensItself == OpensOnlyUnset /\ OffersSetup

Shown(p) ==
  IF p = "Health" THEN HealthView(world)
  ELSE LET step == FirstUnsatisfied(Failed(world), Degradation(world))
       IN  WizardView(step, IF step = 0 THEN Completion(world) ELSE "None")

(* When the machine settles, a checking page shows it as it is: no view    *)
(* that arrived late, was read before a grant or came before the page was  *)
(* ready stays (main.rs:354-405, SPEC 11.2 "live re-check").               *)
ShowsTheTruth ==
  \A p \in Polled : <>[](page[p].visible => page[p].drawn = Shown(p))

(* A Degraded that outlives its cause: a driver approved since is seen by  *)
(* nobody until the next Start, and grants are not seen without the probe. *)
Outlived(w) ==
  \/ Degradation(w) = "DriverNotActivated" /\ DriverReady(w)
  \/ "probe" \notin w.facts

(* Whoever does what the assistant says gets to its end, from any machine  *)
(* and whatever order the daemon's report imposes (wizard.rs:71-154).      *)
GuidesToCompletion ==
  <>[](page["Wizard"].visible /\ ~Outlived(world)
         => /\ page["Wizard"].drawn # None
            /\ page["Wizard"].drawn.step = 0)

(* The assistant does not report a complete setup while the supervisor is  *)
(* degraded for a reason that has a check (wizardwin.rs:3-4).              *)
DoneIsHealthy ==
  \A s \in Slot :
    At(s, "presets") => CheckForDegradedReason(fetch[s].reason) = {}
=============================================================================
