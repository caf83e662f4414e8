------------------------- MODULE SetupAssistantProofs -------------------------
(***************************************************************************)
(* Theorems about SetupAssistant.tla, for every set of scenes, of facts    *)
(* that flip, of devices and of fetches on their way.                      *)
(***************************************************************************)
EXTENDS SetupAssistant, TLAPS

(* A set of steps has a first one.                                         *)
LEMMA LeastStep ==
  ASSUME NEW S \in SUBSET (1..8), S # {}
  PROVE  \E i \in S : \A j \in S : i <= j
<1> DEFINE Has(n) == \E i \in S : i <= n
           Goal == \E i \in S : \A j \in S : i <= j
<1>1. ~Has(0)
  OBVIOUS
<1>6. PICK x \in S : x \in 1..8
  OBVIOUS
<1>2. Has(8)
  BY <1>6
<1>3. ASSUME NEW n \in 0..7, ~Has(n), Has(n+1) PROVE Goal
  <2>2. PICK i \in S : i <= n + 1
    BY <1>3
  <2>3. \A j \in S : i <= j
    BY <1>3, <2>2
  <2>4. QED
    BY <2>3
<1> HIDE DEF Has, Goal
<1>4. Goal
  <2>1. \A n \in 0..7 : Has(n+1) => Goal \/ Has(n)
    BY <1>3
  <2>2. /\ Has(8) => Goal \/ Has(7)
        /\ Has(7) => Goal \/ Has(6)
        /\ Has(6) => Goal \/ Has(5)
        /\ Has(5) => Goal \/ Has(4)
        /\ Has(4) => Goal \/ Has(3)
        /\ Has(3) => Goal \/ Has(2)
        /\ Has(2) => Goal \/ Has(1)
        /\ Has(1) => Goal \/ Has(0)
    BY <2>1
  <2>3. QED
    BY <2>2, <1>1, <1>2
<1>5. QED
  BY <1>4 DEF Goal

LEMMA StepsAre == DOMAIN Steps = 1..8 /\ Len(Steps) = 8
BY DEF Steps

LEMMA FirstStepType ==
  ASSUME NEW checks
  PROVE  FirstStep(checks) \in 0..Len(Steps)
<1> DEFINE open == {i \in DOMAIN Steps : Steps[i].verifies \in checks}
           first == CHOOSE i \in open : \A j \in open : i <= j
<1>1. open \subseteq 1..8
  BY StepsAre
<1>2. FirstStep(checks) = IF open = {} THEN 0 ELSE first
  BY DEF FirstStep
<1>5. (\E i \in open : \A j \in open : i <= j) => first \in open
  OBVIOUS
<1> HIDE DEF open, first
<1>3. FirstStep(checks) \in 0..8
  <2>1. open # {} => \E i \in open : \A j \in open : i <= j
    BY <1>1, LeastStep
  <2>2. open # {} => first \in 1..8
    BY <1>1, <1>5, <2>1
  <2>3. QED
    BY <1>2, <2>2
<1>4. QED
  BY <1>3, StepsAre
-----------------------------------------------------------------------------
(* The machine of Doctor.tla.                                              *)
LEMMA FreshBudgetType ==
  ASSUME NEW m \in MachineType
  PROVE  FreshBudget(m) \in MachineType
BY BudgetAssumption DEF FreshBudget, MachineType

LEMMA HandleMachine ==
  ASSUME NEW m \in MachineType, NEW e \in MachineEvent
  PROVE  Handle(m, e).machine \in MachineType
<1>1. \A n \in MachineType, next \in SupervisorState : \A actions :
        Enter(n, next, actions).machine \in MachineType
  BY DEF Enter, Outcome, MachineType
<1>2. \A n \in MachineType, why \in DegradedReason : \A actions :
        EnterDegraded(n, why, actions).machine \in MachineType
  BY DEF EnterDegraded, Outcome, MachineType, SupervisorState
<1>3. \A n \in MachineType : Ignore(n).machine \in MachineType
  BY DEF Ignore, Outcome
<1>4. FreshBudget(m) \in MachineType
  BY FreshBudgetType
<1>5. OnFailure(m).machine \in MachineType
  <2> DEFINE counted == [m EXCEPT !.failures = SaturatingSucc(m.failures)]
  <2>1. counted \in MachineType
    BY BudgetAssumption DEF SaturatingSucc, MachineType
  <2>2. QED
    BY <1>1, <1>2, <2>1 DEF OnFailure, DegradedReason, SupervisorState
<1>6. /\ "OutputBackendUnavailable" \in DegradedReason
      /\ {"Starting", "Stopped", "Paused", "Running"} \subseteq SupervisorState
  BY DEF DegradedReason, SupervisorState
<1>7. QED
  BY <1>1, <1>2, <1>3, <1>4, <1>5, <1>6, SMTT(60) DEF Handle

LEMMA EventsAre ==
  /\ DegradedReason \subseteq MachineEvent
  /\ UserEvent \subseteq MachineEvent
  /\ {"Start", "Restart", "SpawnSucceeded", "OutputBackendLost",
      "OutputBackendRecovered"} \subseteq MachineEvent
BY DEF MachineEvent, UserEvent

LEMMA RefusalType ==
  ASSUME NEW w \in World, SpawnRefusal(w) # None
  PROVE  SpawnRefusal(w) \in DegradedReason
BY DEF SpawnRefusal, DriverHealth, DegradedReason

LEMMA SpawnsType ==
  ASSUME NEW w \in World, NEW m \in MachineType
  PROVE  Spawns(w, m) \in MachineType
<1> DEFINE running == Handle(m, "SpawnSucceeded").machine
<1>1. running \in MachineType
  BY HandleMachine, EventsAre
<1>2. "InputMonitoringDenied" \in MachineEvent
  BY EventsAre DEF DegradedReason
<1>3. Handle(running, "InputMonitoringDenied").machine \in MachineType
  BY <1>1, <1>2, HandleMachine
<1>4. SpawnRefusal(w) # None => Handle(m, SpawnRefusal(w)).machine \in MachineType
  BY RefusalType, EventsAre, HandleMachine
<1> HIDE DEF running
<1>5. QED
  BY <1>1, <1>3, <1>4 DEF Spawns, running

LEMMA SettlesType ==
  ASSUME NEW w \in World, NEW e \in MachineEvent
  PROVE  Settles(w, e) \in World
<1> DEFINE out == Handle(w.machine, e)
<1>1. out.machine \in MachineType
  BY HandleMachine DEF World
<1>2. Spawns(w, out.machine) \in MachineType
  BY <1>1, SpawnsType
<1>3. Settles(w, e) = [w EXCEPT !.machine =
        IF out.moved /\ out.machine.state = "Starting"
        THEN Spawns(w, out.machine) ELSE out.machine]
  BY DEF Settles
<1> HIDE DEF out
<1>4. QED
  BY <1>1, <1>2, <1>3 DEF World

LEMMA NewMachineType == NewMachine \in MachineType
BY BudgetAssumption DEF NewMachine, MachineType, SupervisorState

LEMMA BootsType ==
  ASSUME NEW w \in World
  PROVE  Boots(w) \in World /\ Down(w) \in World
<1> DEFINE booted == [w EXCEPT !.up = TRUE, !.machine = NewMachine,
                               !.launched = w.facts \cap Grant]
<1>1. booted \in World
  BY NewMachineType DEF World
<1>2. Boots(w) = Settles(booted, "Start")
  BY DEF Boots
<1>3. Down(w) \in World
  BY NewMachineType DEF World, Down
<1> HIDE DEF booted
<1>4. QED
  BY <1>1, <1>2, <1>3, SettlesType, EventsAre

LEMMA FactsType ==
  ASSUME NEW w \in World, NEW facts \in SUBSET Fact
  PROVE  [w EXCEPT !.facts = facts] \in World
BY DEF World

LEMMA InstallsType ==
  ASSUME NEW w \in World
  PROVE  Installs(w) \in World
<1> DEFINE ours == "package" \in w.facts /\ "other" \notin w.facts
           facts == w.facts \cup (IF ours THEN {"service", "ours", "vhidd"}
                                  ELSE {"service"})
<1>1. facts \in SUBSET Fact
  BY DEF World, Fact
<1>2. [w EXCEPT !.facts = facts] \in World
  BY <1>1, FactsType
<1>3. Installs(w) = Boots([w EXCEPT !.facts = facts])
  BY DEF Installs
<1> HIDE DEF facts
<1>4. QED
  BY <1>2, <1>3, BootsType
-----------------------------------------------------------------------------
(* Views.                                                                  *)
LEMMA FailedType ==
  ASSUME NEW w
  PROVE  Failed(w) \subseteq Check
BY DEF Failed, Unreachable, Check, SetupCheck

LEMMA ViewTypes ==
  ASSUME NEW w \in World, NEW devices \in SUBSET Device
  PROVE  /\ HealthView(w) \in View
         /\ DevicesView(w, devices) \in View
         /\ \A step \in 0..Len(Steps) : WizardView(step, "None") \in View
         /\ WizardView(0, Completion(w)) \in View
         /\ Degradation(w) \in DegradedReason \cup {None}
<1> DEFINE n == Len(Steps)
<1>1. n \in Nat
  BY StepsAre
<1>2. View = [rows : SUBSET (Check \cup {"error"} \cup Device), step : 0..n,
              completion : {"None", "AllSet", "ImportConfig", "AddPreset"}]
  BY DEF View
<1> HIDE DEF n
<1>3. \A rows \in SUBSET (Check \cup {"error"} \cup Device) : RowsView(rows) \in View
  BY <1>1, <1>2 DEF RowsView
<1>4. HealthView(w) \in View /\ DevicesView(w, devices) \in View
  BY <1>3, FailedType DEF HealthView, DevicesView
<1>5. \A step \in 0..n : WizardView(step, "None") \in View
  BY <1>2 DEF WizardView
<1>6. WizardView(0, Completion(w)) \in View
  BY <1>1, <1>2 DEF WizardView, Completion
<1>7. Degradation(w) \in DegradedReason \cup {None}
  BY DEF Degradation, World, MachineType
<1>8. QED
  BY <1>4, <1>5, <1>6, <1>7 DEF n
-----------------------------------------------------------------------------
(* The invariant.  News is bounded by the moves that made it, a fetch is   *)
(* on its way only to a page whose window was built, and the two halves of *)
(* PollsOnce need each other: a delivered view is followed by a tick       *)
(* because a pending tick is really there.                                 *)
FetchesMade == \A p \in Page : InFlight(p) => page[p].made

AssistantInv ==
  /\ AssistantTypeOK
  /\ news <= moves
  /\ FetchesMade
  /\ PollsOnce

MachineInv ==
  /\ world \in World
  /\ plugged \subseteq Device
  /\ moves \in 0..MoveCap
  /\ news \in 0..MoveCap
  /\ news <= moves

PageInv ==
  /\ page \in [Page -> Window]
  /\ \A p \in Page : page[p].ready \/ page[p].visible => page[p].made
  /\ \A p \in Page : ~page[p].made => page[p].kept = None

FetchInv == fetch \in [Slot -> Fetch \cup {None}] /\ FetchesMade

TickInv ==
  /\ pending \in [Polled -> BOOLEAN]
  /\ ticks \in [Polled -> Nat]
  /\ PollsOnce

OtherInv ==
  /\ opens \subseteq Page
  /\ auto \in {"first", "second", "third", "opening", "settled"}
  /\ excuse \subseteq {"deaf", "overtaken"}

LEMMA AssistantParts ==
  AssistantInv <=> MachineInv /\ PageInv /\ FetchInv /\ TickInv /\ OtherInv
BY DEF AssistantInv, AssistantTypeOK, MachineInv, PageInv, FetchInv, TickInv, OtherInv

LEMMA AssistantPartsNext ==
  AssistantInv' <=> MachineInv' /\ PageInv' /\ FetchInv' /\ TickInv' /\ OtherInv'
BY DEF AssistantInv, AssistantTypeOK, MachineInv, PageInv, FetchInv, TickInv, OtherInv

LEMMA PolledPages == Polled \subseteq Page /\ "Devices" \in Page \ Polled
BY DEF Polled, Page

(* A fetch that starts takes a free slot.                                  *)
LEMMA NewFetchType ==
  ASSUME NEW p \in Page, NEW stage \in {"running", "asked"}
  PROVE  NewFetch(p, stage) \in Fetch /\ NewFetch(p, stage).page = p
BY DEF NewFetch, Fetch

LEMMA StartsFetch ==
  ASSUME FetchInv, NEW p \in Page, NEW stage \in {"running", "asked"},
         Starts(p, stage)
  PROVE  /\ fetch' \in [Slot -> Fetch \cup {None}]
         /\ InFlight(p)'
         /\ \A q \in Page : InFlight(q) => InFlight(q)'
         /\ \A q \in Page : InFlight(q)' => InFlight(q) \/ q = p
<1> DEFINE s == CHOOSE t \in Free : TRUE
           new == NewFetch(p, stage)
<1>1. s \in Slot /\ fetch[s] = None
  BY DEF Starts, Free
<1>2. fetch' = [fetch EXCEPT ![s] = new]
  BY DEF Starts
<1>3. new \in Fetch /\ new.page = p /\ new # None
  BY NewFetchType, FetchAssumption
<1>4. fetch \in [Slot -> Fetch \cup {None}]
  BY DEF FetchInv
<1> HIDE DEF s, new
<1>5. /\ fetch' \in [Slot -> Fetch \cup {None}]
      /\ fetch'[s] = new
      /\ \A t \in Slot : t # s => fetch'[t] = fetch[t]
  BY <1>1, <1>2, <1>3, <1>4
<1>6. InFlight(p)'
  BY <1>1, <1>3, <1>5 DEF InFlight
<1>7. \A q \in Page : InFlight(q) => InFlight(q)'
  BY <1>1, <1>5 DEF InFlight
<1>8. \A q \in Page : InFlight(q)' => InFlight(q) \/ q = p
  BY <1>1, <1>3, <1>5 DEF InFlight
<1>9. QED
  BY <1>5, <1>6, <1>7, <1>8

(* A step of a fetch keeps its page.                                       *)
LEMMA GoesOn ==
  ASSUME FetchInv, NEW s \in Slot, fetch[s] # None,
         fetch' \in [Slot -> Fetch \cup {None}],
         \A t \in Slot : /\ fetch'[t] = None <=> fetch[t] = None
                         /\ fetch[t] # None => fetch'[t].page = fetch[t].page
  PROVE  \A q \in Page : InFlight(q) <=> InFlight(q)'
BY DEF InFlight

LEMMA FetchStages ==
  ASSUME MachineInv, FetchInv, NEW s \in Slot,
         \/ FetchDevices(s) \/ FetchHealth(s) \/ FetchChecks(s)
         \/ FetchStatus(s) \/ FetchPresets(s) \/ RunsCommand(s)
  PROVE  /\ fetch' \in [Slot -> Fetch \cup {None}]
         /\ \A q \in Page : InFlight(q) <=> InFlight(q)'
<1> DEFINE f == fetch[s]
<1>1. f \in Fetch /\ f # None /\ fetch \in [Slot -> Fetch \cup {None}]
  BY DEF FetchInv, FetchDevices, FetchHealth, FetchChecks, FetchStatus,
     FetchPresets, RunsCommand, At
<1>2. ASSUME NEW g \in Fetch, g.page = f.page, fetch' = [fetch EXCEPT ![s] = g]
      PROVE  /\ fetch' \in [Slot -> Fetch \cup {None}]
             /\ \A q \in Page : InFlight(q) <=> InFlight(q)'
  <2>1. fetch' \in [Slot -> Fetch \cup {None}]
    BY <1>1, <1>2
  <2>2. \A t \in Slot : /\ fetch'[t] = None <=> fetch[t] = None
                        /\ fetch[t] # None => fetch'[t].page = fetch[t].page
    BY <1>1, <1>2, FetchAssumption
  <2>3. QED
    BY <1>1, <2>1, <2>2, GoesOn
<1>3. \A view \in View : /\ Posts(f, view) \in Fetch
                         /\ Posts(f, view).page = f.page
  BY <1>1 DEF Posts, Fetch
<1>4. world \in World /\ plugged \in SUBSET Device
  BY DEF MachineInv
<1>5. CASE FetchDevices(s)
  <2> DEFINE view == DevicesView(world, plugged)
             aged(t) == IF fetch[t] # None /\ fetch[t].page = "Devices"
                           /\ fetch[t].stage = "done"
                        THEN [fetch[t] EXCEPT !.old = TRUE] ELSE fetch[t]
  <2>1. view \in View
    BY <1>4, ViewTypes
  <2>2. fetch' = [t \in Slot |-> IF t = s THEN Posts(f, view) ELSE aged(t)]
    BY <1>5 DEF FetchDevices
  <2>3. \A t \in Slot :
          /\ aged(t) \in Fetch \cup {None}
          /\ aged(t) = None <=> fetch[t] = None
          /\ fetch[t] # None => aged(t).page = fetch[t].page
    BY <1>1, FetchAssumption DEF Fetch
  <2>4. Posts(f, view) \in Fetch /\ Posts(f, view).page = f.page
    BY <1>3, <2>1
  <2> HIDE DEF aged, view
  <2>5. fetch' \in [Slot -> Fetch \cup {None}]
    BY <2>2, <2>3, <2>4
  <2>6. \A t \in Slot : /\ fetch'[t] = None <=> fetch[t] = None
                        /\ fetch[t] # None => fetch'[t].page = fetch[t].page
    BY <1>1, <2>2, <2>3, <2>4, FetchAssumption
  <2>7. QED
    BY <1>1, <2>5, <2>6, GoesOn
<1>6. CASE FetchHealth(s)
  <2>1. HealthView(world) \in View
    BY <1>4, ViewTypes
  <2>2. fetch' = [fetch EXCEPT ![s] = Posts(f, HealthView(world))]
    BY <1>6 DEF FetchHealth
  <2>3. QED
    BY <1>2, <1>3, <2>1, <2>2
<1>7. CASE FetchChecks(s)
  <2> DEFINE g == [f EXCEPT !.stage = "status", !.failed = Failed(world)]
  <2>1. g \in Fetch /\ g.page = f.page
    BY <1>1, FailedType DEF Fetch
  <2>2. fetch' = [fetch EXCEPT ![s] = g]
    BY <1>1, <1>7 DEF FetchChecks, Fetch
  <2> HIDE DEF g
  <2>3. QED
    BY <1>2, <2>1, <2>2
<1>8. CASE FetchStatus(s)
  <2> DEFINE reason == Degradation(world)
             step == FirstUnsatisfied(f.failed, reason)
             read == [f EXCEPT !.reason = reason]
             g == IF step = 0 THEN [read EXCEPT !.stage = "presets"]
                  ELSE Posts(read, WizardView(step, "None"))
  <2>1. reason \in DegradedReason \cup {None}
    BY <1>4, ViewTypes
  <2>2. step \in 0..Len(Steps)
    BY FirstStepType DEF FirstUnsatisfied
  <2>3. WizardView(step, "None") \in View
    BY <1>4, <2>2, ViewTypes
  <2>4. fetch' = [fetch EXCEPT ![s] = g]
    BY <1>8 DEF FetchStatus
  <2> HIDE DEF reason, step
  <2>5. read \in Fetch /\ read.page = f.page
    BY <1>1, <2>1 DEF Fetch
  <2>6. g \in Fetch /\ g.page = f.page
    BY <2>3, <2>5 DEF Posts, Fetch
  <2> HIDE DEF g
  <2>7. QED
    BY <1>2, <2>4, <2>6
<1>9. CASE FetchPresets(s)
  <2>1. WizardView(0, Completion(world)) \in View
    BY <1>4, ViewTypes
  <2>2. fetch' = [fetch EXCEPT ![s] = Posts(f, WizardView(0, Completion(world)))]
    BY <1>9 DEF FetchPresets
  <2>3. QED
    BY <1>2, <1>3, <2>1, <2>2
<1>10. CASE RunsCommand(s)
  <2> DEFINE g == [f EXCEPT !.stage = "asked"]
  <2>1. g \in Fetch /\ g.page = f.page
    BY <1>1 DEF Fetch
  <2>2. fetch' = [fetch EXCEPT ![s] = g]
    BY <1>10 DEF RunsCommand
  <2> HIDE DEF g
  <2>3. QED
    BY <1>2, <2>1, <2>2
<1>11. QED
  BY <1>5, <1>6, <1>7, <1>8, <1>9, <1>10
-----------------------------------------------------------------------------
(* Windows, fetches and ticks.                                             *)
WindowInv == PageInv /\ FetchInv /\ TickInv

LEMMA WindowsAlone ==
  ASSUME WindowInv, UNCHANGED <<page, fetch, pending, ticks>>
  PROVE  WindowInv'
BY DEF WindowInv, PageInv, FetchInv, TickInv, FetchesMade, PollsOnce, OneChain,
       KeepsChecking, InFlight

LEMMA FetchGoesOn ==
  ASSUME MachineInv, WindowInv, NEW s \in Slot,
         \/ FetchDevices(s) \/ FetchHealth(s) \/ FetchChecks(s)
         \/ FetchStatus(s) \/ FetchPresets(s) \/ RunsCommand(s)
  PROVE  WindowInv'
<1>1. UNCHANGED <<page, pending, ticks>>
  BY DEF FetchDevices, FetchHealth, FetchChecks, FetchStatus, FetchPresets,
     RunsCommand
<1>2. /\ fetch' \in [Slot -> Fetch \cup {None}]
      /\ \A q \in Page : InFlight(q) <=> InFlight(q)'
  BY FetchStages DEF WindowInv
<1>3. PageInv' /\ FetchInv'
  BY <1>1, <1>2 DEF WindowInv, PageInv, FetchInv, FetchesMade
<1>4. TickInv'
  BY <1>1, <1>2, PolledPages
  DEF WindowInv, TickInv, PollsOnce, OneChain, KeepsChecking
<1>5. QED
  BY <1>3, <1>4 DEF WindowInv

LEMMA WindowShows ==
  ASSUME WindowInv, NEW p \in Page, Shows(p), UNCHANGED <<pending, ticks>>
  PROVE  WindowInv'
<1>1. page' = [page EXCEPT ![p].made = TRUE, ![p].visible = TRUE]
  BY DEF Shows
<1>2. /\ page' \in [Page -> Window]
      /\ page'[p].made /\ page'[p].visible
      /\ page'[p].ready = page[p].ready /\ page'[p].kept = page[p].kept
      /\ \A q \in Page : q # p => page'[q] = page[q]
  BY <1>1 DEF WindowInv, PageInv, Window
<1>3. PageInv'
  BY <1>2 DEF WindowInv, PageInv
<1>4. /\ fetch' \in [Slot -> Fetch \cup {None}]
      /\ InFlight(p)'
      /\ \A q \in Page : InFlight(q) => InFlight(q)'
      /\ \A q \in Page : InFlight(q)' => InFlight(q) \/ q = p
  BY StartsFetch DEF Shows, WindowInv
<1>5. FetchInv'
  BY <1>2, <1>4 DEF WindowInv, FetchInv, FetchesMade
<1>6. TickInv'
  BY <1>2, <1>4, PolledPages
  DEF WindowInv, TickInv, PollsOnce, OneChain, KeepsChecking
<1>7. QED
  BY <1>3, <1>5, <1>6 DEF WindowInv

(* A tick is taken out of its chain, or starts one.                        *)
LEMMA TickTaken ==
  ASSUME TickInv, NEW p \in Polled, ticks[p] > 0,
         pending' = [pending EXCEPT ![p] = FALSE],
         ticks' = [ticks EXCEPT ![p] = ticks[p] - 1]
  PROVE  /\ pending' \in [Polled -> BOOLEAN] /\ ticks' \in [Polled -> Nat]
         /\ \A q \in Polled : q # p => ticks'[q] = ticks[q]
         /\ OneChain'
<1>1. ticks \in [Polled -> Nat] /\ pending \in [Polled -> BOOLEAN]
  BY DEF TickInv
<1>2. pending' \in [Polled -> BOOLEAN]
  BY <1>1
<1>3. /\ ticks'[p] = ticks[p] - 1
      /\ \A q \in Polled : q # p => ticks'[q] = ticks[q] /\ pending'[q] = pending[q]
      /\ ~pending'[p]
  BY <1>1
<1>4. ticks' \in [Polled -> Nat]
  BY <1>1
<1>5. ticks[p] = 1
  BY <1>1 DEF TickInv, PollsOnce, OneChain
<1>6. OneChain'
  BY <1>3, <1>5 DEF TickInv, PollsOnce, OneChain
<1>7. QED
  BY <1>2, <1>3, <1>4, <1>6

LEMMA TickChained ==
  ASSUME TickInv, NEW p \in Polled, ChainsTick(p)
  PROVE  /\ pending' \in [Polled -> BOOLEAN] /\ ticks' \in [Polled -> Nat]
         /\ \A q \in Polled : q # p => ticks'[q] = ticks[q]
         /\ OneChain'
         /\ page[p].visible => ticks'[p] > 0
<1>1. ticks \in [Polled -> Nat] /\ pending \in [Polled -> BOOLEAN] /\ OneChain
  BY DEF TickInv, PollsOnce
<1>2. CASE page[p].visible /\ ~pending[p]
  <2>1. /\ pending' = [pending EXCEPT ![p] = TRUE]
        /\ ticks' = [ticks EXCEPT ![p] = ticks[p] + 1]
    BY <1>2 DEF ChainsTick
  <2>2. /\ pending' \in [Polled -> BOOLEAN] /\ ticks' \in [Polled -> Nat]
        /\ pending'[p] /\ ticks'[p] = ticks[p] + 1
        /\ \A q \in Polled : q # p => ticks'[q] = ticks[q] /\ pending'[q] = pending[q]
    BY <1>1, <2>1
  <2>3. ticks[p] = 0
    BY <1>1, <1>2 DEF OneChain
  <2>4. OneChain'
    BY <1>1, <2>2, <2>3 DEF OneChain
  <2>5. QED
    BY <2>2, <2>3, <2>4
<1>3. CASE ~(page[p].visible /\ ~pending[p])
  <2>1. UNCHANGED <<pending, ticks>>
    BY <1>3 DEF ChainsTick
  <2>2. pending[p] => ticks[p] = 1
    BY <1>1 DEF OneChain
  <2>3. QED
    BY <1>1, <1>3, <2>1, <2>2 DEF OneChain
<1>4. QED
  BY <1>2, <1>3

(* A fetch that starts for a visible window.                               *)
LEMMA WindowFetches ==
  ASSUME WindowInv, NEW p \in Page, NEW stage \in {"running", "asked"},
         page[p].visible, Starts(p, stage), page' = page,
         \/ UNCHANGED <<pending, ticks>>
         \/ /\ pending' = [pending EXCEPT ![p] = FALSE]
            /\ p \in Polled /\ ticks[p] > 0
            /\ ticks' = [ticks EXCEPT ![p] = ticks[p] - 1]
  PROVE  WindowInv'
<1>1. /\ fetch' \in [Slot -> Fetch \cup {None}]
      /\ InFlight(p)'
      /\ \A q \in Page : InFlight(q) => InFlight(q)'
      /\ \A q \in Page : InFlight(q)' => InFlight(q) \/ q = p
  BY StartsFetch DEF WindowInv
<1>2. PageInv' /\ FetchInv'
  BY <1>1 DEF WindowInv, PageInv, FetchInv, FetchesMade
<1>3. /\ pending' \in [Polled -> BOOLEAN] /\ ticks' \in [Polled -> Nat]
      /\ \A q \in Polled : q # p => ticks'[q] = ticks[q]
      /\ OneChain'
  <2>1. TickInv
    BY DEF WindowInv
  <2>2. CASE UNCHANGED <<pending, ticks>>
    BY <2>1, <2>2 DEF TickInv, PollsOnce, OneChain
  <2>3. CASE /\ pending' = [pending EXCEPT ![p] = FALSE]
             /\ p \in Polled /\ ticks[p] > 0
             /\ ticks' = [ticks EXCEPT ![p] = ticks[p] - 1]
    BY <2>1, <2>3, TickTaken
  <2>4. QED
    BY <2>2, <2>3
<1>4. KeepsChecking'
  BY <1>1, <1>3, PolledPages DEF WindowInv, TickInv, PollsOnce, KeepsChecking
<1>5. QED
  BY <1>2, <1>3, <1>4 DEF WindowInv, TickInv, PollsOnce

LEMMA TicksOut ==
  ASSUME WindowInv, NEW p \in Polled, TickFires(p)
  PROVE  WindowInv'
<1>1. CASE page[p].visible
  BY <1>1, WindowFetches, PolledPages DEF TickFires
<1>2. CASE ~page[p].visible
  <2>1. UNCHANGED <<page, fetch>>
    BY <1>2 DEF TickFires
  <2>2. PageInv' /\ FetchInv'
    BY <2>1 DEF WindowInv, PageInv, FetchInv, FetchesMade, InFlight
  <2>3. /\ pending' = [pending EXCEPT ![p] = FALSE]
        /\ ticks[p] > 0 /\ ticks' = [ticks EXCEPT ![p] = ticks[p] - 1]
    BY DEF TickFires
  <2>4. /\ pending' \in [Polled -> BOOLEAN] /\ ticks' \in [Polled -> Nat]
        /\ \A q \in Polled : q # p => ticks'[q] = ticks[q]
        /\ OneChain'
    BY <2>3, TickTaken DEF WindowInv
  <2>5. KeepsChecking'
    BY <1>2, <2>1, <2>4
    DEF WindowInv, TickInv, PollsOnce, KeepsChecking, InFlight
  <2>6. QED
    BY <2>2, <2>4, <2>5 DEF WindowInv, TickInv, PollsOnce
<1>3. QED
  BY <1>1, <1>2

(* Nothing opens, and no fetch or tick is lost.                            *)
LEMMA WindowLoadsOrCloses ==
  ASSUME WindowInv, NEW p \in Page, PageReady(p) \/ Closes(p)
  PROVE  WindowInv'
<1>1. UNCHANGED <<fetch, pending, ticks>>
  BY DEF PageReady, Closes
<1>2. /\ page' \in [Page -> Window]
      /\ \A q \in Page : /\ page'[q].made = page[q].made
                         /\ page'[q].kept = page[q].kept
                         /\ page'[q].visible => page[q].visible
                         /\ page'[q].ready => page[q].ready \/ page[q].made
  <2>1. page \in [Page -> Window]
    BY DEF WindowInv, PageInv
  <2>2. CASE PageReady(p)
    BY <2>1, <2>2 DEF PageReady, Window
  <2>3. CASE Closes(p)
    BY <2>1, <2>3 DEF Closes, Window
  <2>4. QED
    BY <2>2, <2>3
<1>3. PageInv'
  BY <1>2 DEF WindowInv, PageInv
<1>4. FetchInv'
  BY <1>1, <1>2 DEF WindowInv, FetchInv, FetchesMade, InFlight
<1>5. TickInv'
  BY <1>1, <1>2, PolledPages
  DEF WindowInv, TickInv, PollsOnce, OneChain, KeepsChecking, InFlight
<1>6. QED
  BY <1>3, <1>4, <1>5 DEF WindowInv

(* A view arrives.  Its fetch is over, and a visible page gets a tick      *)
(* unless it has one.                                                      *)
LEMMA FetchEnds ==
  ASSUME FetchInv, NEW s \in Slot, fetch[s] # None,
         fetch' = [fetch EXCEPT ![s] = None]
  PROVE  /\ fetch' \in [Slot -> Fetch \cup {None}]
         /\ fetch[s].page \in Page /\ fetch[s].view \in View \cup {None}
         /\ InFlight(fetch[s].page)
         /\ \A q \in Page : InFlight(q)' => InFlight(q)
         /\ \A q \in Page : InFlight(q) => InFlight(q)' \/ q = fetch[s].page
<1>1. fetch \in [Slot -> Fetch \cup {None}] /\ fetch[s] \in Fetch
  BY DEF FetchInv
<1>2. \A t \in Slot : t # s => fetch'[t] = fetch[t]
  BY <1>1
<1>3. fetch'[s] = None /\ fetch' \in [Slot -> Fetch \cup {None}]
  BY <1>1
<1>4. fetch[s].page \in Page /\ fetch[s].view \in View \cup {None}
  BY <1>1 DEF Fetch
<1>5. QED
  BY <1>1, <1>2, <1>3, <1>4 DEF InFlight

LEMMA Renders ==
  ASSUME PageInv, NEW p \in Page, page[p].made, NEW view \in View \cup {None},
         page' = Render(p, view)
  PROVE  /\ PageInv'
         /\ \A q \in Page : /\ page'[q].made = page[q].made
                            /\ page'[q].visible = page[q].visible
<1>1. /\ page' \in [Page -> Window]
      /\ \A q \in Page : /\ page'[q].made = page[q].made
                         /\ page'[q].visible = page[q].visible
                         /\ page'[q].ready = page[q].ready
                         /\ q # p => page'[q].kept = page[q].kept
  BY DEF Render, PageInv, Window
<1>2. QED
  BY <1>1 DEF PageInv

LEMMA DeliverReport ==
  ASSUME WindowInv, NEW s \in Slot, DeliversReport(s)
  PROVE  WindowInv'
<1> DEFINE p == fetch[s].page
           view == fetch[s].view
<1>1. /\ fetch[s] # None /\ p \in Polled
      /\ page' = Render(p, view) /\ ChainsTick(p)
      /\ fetch' = [fetch EXCEPT ![s] = None]
  BY DEF DeliversReport, At
<1>2. /\ fetch' \in [Slot -> Fetch \cup {None}]
      /\ p \in Page /\ view \in View \cup {None}
      /\ InFlight(p)
      /\ \A q \in Page : InFlight(q)' => InFlight(q)
      /\ \A q \in Page : InFlight(q) => InFlight(q)' \/ q = p
  BY <1>1, FetchEnds DEF WindowInv
<1> HIDE DEF p, view
<1>3. page[p].made
  BY <1>2 DEF WindowInv, FetchInv, FetchesMade
<1>4. /\ PageInv'
      /\ \A q \in Page : /\ page'[q].made = page[q].made
                         /\ page'[q].visible = page[q].visible
  BY <1>1, <1>2, <1>3, Renders DEF WindowInv
<1>5. FetchInv'
  BY <1>2, <1>4 DEF WindowInv, FetchInv, FetchesMade
<1>6. /\ pending' \in [Polled -> BOOLEAN] /\ ticks' \in [Polled -> Nat]
      /\ \A q \in Polled : q # p => ticks'[q] = ticks[q]
      /\ OneChain'
      /\ page[p].visible => ticks'[p] > 0
  BY <1>1, TickChained DEF WindowInv
<1>7. KeepsChecking'
  BY <1>2, <1>4, <1>6, PolledPages
  DEF WindowInv, TickInv, PollsOnce, KeepsChecking
<1>8. QED
  BY <1>4, <1>5, <1>6, <1>7 DEF WindowInv, TickInv, PollsOnce

LEMMA DeliverDevices ==
  ASSUME WindowInv, NEW s \in Slot, DeliversDevices(s)
  PROVE  WindowInv'
<1> DEFINE view == fetch[s].view
<1>1. /\ fetch[s] # None /\ fetch[s].page = "Devices"
      /\ page' = Render("Devices", view)
      /\ fetch' = [fetch EXCEPT ![s] = None]
      /\ UNCHANGED <<pending, ticks>>
  BY DEF DeliversDevices, At
<1>2. /\ fetch' \in [Slot -> Fetch \cup {None}]
      /\ "Devices" \in Page /\ view \in View \cup {None}
      /\ InFlight("Devices")
      /\ \A q \in Page : InFlight(q)' => InFlight(q)
      /\ \A q \in Page : InFlight(q) => InFlight(q)' \/ q = "Devices"
  BY <1>1, FetchEnds DEF WindowInv
<1> HIDE DEF view
<1>3. page["Devices"].made
  BY <1>2 DEF WindowInv, FetchInv, FetchesMade
<1>4. /\ PageInv'
      /\ \A q \in Page : /\ page'[q].made = page[q].made
                         /\ page'[q].visible = page[q].visible
  BY <1>1, <1>2, <1>3, Renders DEF WindowInv
<1>5. FetchInv'
  BY <1>2, <1>4 DEF WindowInv, FetchInv, FetchesMade
<1>6. TickInv'
  BY <1>1, <1>2, <1>4, PolledPages
  DEF WindowInv, TickInv, PollsOnce, OneChain, KeepsChecking
<1>7. QED
  BY <1>4, <1>5, <1>6 DEF WindowInv

LEMMA WindowStep ==
  ASSUME MachineInv, WindowInv, AssistantNext
  PROVE  WindowInv'
<1> USE DEF worldVars, windowVars
<1>1. CASE \E s \in Slot : FetchStep(s)
  BY <1>1, FetchGoesOn, DeliverReport, DeliverDevices DEF FetchStep
<1>2. CASE TrayStep
  <2>1. CASE \E p \in Page : PageReady(p)
    BY <2>1, WindowLoadsOrCloses
  <2>2. CASE \E p \in Polled : TickFires(p)
    BY <2>2, TicksOut
  <2>3. CASE HearsHotplug
    <3>1. CASE page["Devices"].visible
      BY <2>3, <3>1, WindowFetches, PolledPages DEF HearsHotplug
    <3>2. CASE ~page["Devices"].visible
      BY <2>3, <3>2, WindowsAlone DEF HearsHotplug
    <3>3. QED
      BY <3>1, <3>2
  <2>4. CASE ChecksSetup
    BY <2>4, WindowsAlone DEF ChecksSetup
  <2>5. CASE AutoOpenWizard
    BY <2>5, WindowShows DEF AutoOpenWizard, Page
  <2>6. QED
    BY <1>2, <2>1, <2>2, <2>3, <2>4, <2>5 DEF TrayStep
<1>3. CASE UserStep
  <2>1. ASSUME NEW p \in Page, UserOpens(p) PROVE WindowInv'
    BY <2>1, WindowShows DEF UserOpens
  <2>2. CASE \E p \in Page : ClicksMenu(p)
    BY <2>1, <2>2 DEF ClicksMenu
  <2>3. CASE \E p \in Page : Closes(p)
    BY <2>3, WindowLoadsOrCloses
  <2>4. CASE OpensWizard
    BY <2>1, <2>4 DEF OpensWizard, Page
  <2>5. CASE RunStep
    <3>1. page["Wizard"].visible /\ "Wizard" \in Page
      BY <2>5 DEF RunStep, Reads, Page
    <3>2. QED
      BY <2>5, <3>1, WindowFetches DEF RunStep
  <2>6. CASE FollowsStep \/ InstallsService
    BY <2>6, WindowsAlone DEF FollowsStep, Obtains, InstallsService
  <2>7. QED
    BY <1>3, <2>2, <2>3, <2>4, <2>5, <2>6 DEF UserStep
<1>4. CASE MachineStep
  BY <1>4, WindowsAlone
  DEF MachineStep, FactFlips, UserCommands, Updates, DaemonStops, Hotplug,
      DaemonStarts, DriverDaemonRevives, GrantsNoticed, BackendNoticed, Notices,
      Alone, Itself
<1>5. QED
  BY <1>1, <1>2, <1>3, <1>4 DEF AssistantNext
-----------------------------------------------------------------------------
(* The machine under the windows.                                          *)
LEMMA OfferedType ==
  ASSUME NEW state \in SupervisorState
  PROVE  Offered(state) \subseteq MachineEvent
BY EventsAre DEF Offered, SupervisorState, UserEvent

LEMMA StartsType == AssistantInit => AssistantInv
<1> SUFFICES ASSUME AssistantInit PROVE AssistantInv
  OBVIOUS
<1>1. PICK scene \in Scenes :
        LET off == [facts |-> scene.facts, up |-> FALSE, machine |-> NewMachine,
                    launched |-> {}]
        IN  /\ world = IF scene.up THEN Boots(off) ELSE off
            /\ moves = scene.moves
            /\ opens = scene.opens
  BY DEF AssistantInit
<1> DEFINE off == [facts |-> scene.facts, up |-> FALSE, machine |-> NewMachine,
                   launched |-> {}]
<1>2. /\ scene.facts \in SUBSET Fact /\ scene.moves \in 0..MoveCap
      /\ scene.opens \subseteq Page
  BY AssistantAssumption DEF Page
<1>3. off \in World
  BY <1>2, NewMachineType DEF World
<1>4. world \in World
  BY <1>1, <1>3, BootsType
<1>5. MachineInv
  BY <1>1, <1>2, <1>4, AssistantAssumption DEF AssistantInit, MachineInv
<1>6. PageInv
  BY DEF AssistantInit, PageInv, Window, NoWindow
<1>7. FetchInv
  BY DEF AssistantInit, FetchInv, FetchesMade, InFlight
<1>8. TickInv
  BY DEF AssistantInit, TickInv, PollsOnce, OneChain, KeepsChecking, NoWindow,
     Polled, Page
<1>9. OtherInv
  BY <1>1, <1>2 DEF AssistantInit, OtherInv
<1>10. QED
  BY <1>5, <1>6, <1>7, <1>8, <1>9, AssistantParts

LEMMA MachineChanges ==
  ASSUME MachineInv, AssistantNext
  PROVE  MachineInv'
<1> USE DEF worldVars, windowVars
<1>1. CASE UNCHANGED <<world, plugged, moves, news>>
  BY <1>1 DEF MachineInv
<1>2. ASSUME world' \in World, UNCHANGED <<plugged, moves, news>>
      PROVE  MachineInv'
  BY <1>2 DEF MachineInv
<1>3. ASSUME world' \in World, Moves, UNCHANGED <<plugged, news>>
      PROVE  MachineInv'
  BY <1>3, AssistantAssumption DEF MachineInv, Moves
<1>4. world \in World
  BY DEF MachineInv
<1>5. \A facts \in SUBSET Fact : [world EXCEPT !.facts = facts] \in World
  BY <1>4, FactsType
<1>6. world.facts \in SUBSET Fact /\ world.machine.state \in SupervisorState
  BY <1>4 DEF World, MachineType
<1>7. CASE \E s \in Slot : FetchStep(s)
  <2>1. PICK s \in Slot : FetchStep(s)
    BY <1>7
  <2>2. CASE RunsCommand(s)
    <3> DEFINE facts == IF "package" \in world.facts
                        THEN world.facts \cup {"requested"} ELSE world.facts
    <3>1. facts \in SUBSET Fact
      BY <1>6 DEF Fact
    <3>2. world' \in {world, [world EXCEPT !.facts = facts]}
      BY <1>4, <2>2 DEF RunsCommand, Activates, World
    <3> HIDE DEF facts
    <3>3. QED
      BY <1>2, <1>4, <1>5, <2>2, <3>1, <3>2 DEF RunsCommand
  <2>3. CASE ~RunsCommand(s)
    BY <1>1, <2>1, <2>3
    DEF FetchStep, FetchDevices, FetchHealth, FetchChecks, FetchStatus,
        FetchPresets, DeliversReport, DeliversDevices
  <2>4. QED
    BY <2>2, <2>3
<1>8. CASE TrayStep
  <2>1. CASE HearsHotplug
    BY <2>1, AssistantAssumption DEF HearsHotplug, MachineInv
  <2>2. CASE ~HearsHotplug
    BY <1>1, <1>8, <2>2
    DEF TrayStep, PageReady, TickFires, ChecksSetup, AutoOpenWizard
  <2>3. QED
    BY <2>1, <2>2
<1>9. CASE UserStep
  <2>1. CASE FollowsStep
    <3>1. PICK fact \in Fact : Obtains(fact)
      BY <2>1 DEF FollowsStep, Fact, Grant
    <3>2. world.facts \cup {fact} \in SUBSET Fact
      BY <1>6
    <3>3. world' = [world EXCEPT !.facts = world.facts \cup {fact}]
      BY <3>1 DEF Obtains
    <3>4. QED
      BY <1>2, <1>5, <3>1, <3>2, <3>3 DEF Obtains
  <2>2. CASE InstallsService
    BY <1>2, <1>4, <2>2, InstallsType DEF InstallsService
  <2>3. CASE ~FollowsStep /\ ~InstallsService
    BY <1>1, <1>9, <2>3
    DEF UserStep, ClicksMenu, UserOpens, Closes, OpensWizard, RunStep
  <2>4. QED
    BY <2>1, <2>2, <2>3
<1>10. CASE MachineStep
  <2>1. CASE FactFlips
    <3>1. PICK f \in Flips : world' = [world EXCEPT !.facts =
            IF f \in world.facts THEN world.facts \ {f} ELSE world.facts \cup {f}]
      BY <2>1 DEF FactFlips
    <3>2. (IF f \in world.facts THEN world.facts \ {f} ELSE world.facts \cup {f})
            \in SUBSET Fact
      BY <1>6, AssistantAssumption
    <3>3. world' \in World
      BY <1>5, <3>1, <3>2
    <3>4. QED
      BY <1>3, <2>1, <3>3 DEF FactFlips, Alone
  <2>2. CASE UserCommands
    <3>1. PICK c \in Offered(world.machine.state) : world' = Settles(world, c)
      BY <2>2 DEF UserCommands
    <3>2. world' \in World
      BY <1>4, <1>6, <3>1, OfferedType, SettlesType
    <3>3. QED
      BY <1>3, <2>2, <3>2 DEF UserCommands, Alone
  <2>3. CASE Updates
    <3> DEFINE void == [world EXCEPT !.facts = world.facts \ Grant]
    <3>1. void \in World
      BY <1>5, <1>6
    <3>2. world' = Boots(void)
      BY <2>3 DEF Updates
    <3> HIDE DEF void
    <3>3. world' \in World
      BY <3>1, <3>2, BootsType
    <3>4. QED
      BY <1>3, <2>3, <3>3 DEF Updates, Alone
  <2>4. CASE DaemonStops
    BY <1>3, <1>4, <2>4, BootsType DEF DaemonStops, Alone
  <2>5. CASE Hotplug
    <3>1. plugged' \subseteq Device /\ news' \in {news, news + 1} /\ world' = world
      BY <2>5 DEF Hotplug, MachineInv
    <3>2. moves' = moves + 1 /\ moves < MoveCap
      BY <2>5 DEF Hotplug, Moves
    <3>3. moves' \in 0..MoveCap /\ news' \in 0..MoveCap /\ news' <= moves'
      BY <3>1, <3>2, AssistantAssumption DEF MachineInv
    <3>4. QED
      BY <1>4, <3>1, <3>3 DEF MachineInv
  <2>6. CASE DaemonStarts
    BY <1>2, <1>4, <2>6, BootsType DEF DaemonStarts, Itself
  <2>7. CASE DriverDaemonRevives
    <3>1. world.facts \cup {"vhidd"} \in SUBSET Fact
      BY <1>6 DEF Fact
    <3>2. world' = [world EXCEPT !.facts = world.facts \cup {"vhidd"}]
      BY <2>7 DEF DriverDaemonRevives
    <3>3. QED
      BY <1>2, <1>5, <2>7, <3>1, <3>2 DEF DriverDaemonRevives, Itself
  <2>8. CASE GrantsNoticed \/ BackendNoticed
    <3>1. PICK e \in MachineEvent : Notices(e)
      BY <2>8, EventsAre DEF GrantsNoticed, BackendNoticed
    <3>2. world' \in World
      BY <1>4, <3>1, SettlesType DEF Notices
    <3>3. QED
      BY <1>2, <3>1, <3>2 DEF Notices, Itself
  <2>9. QED
    BY <1>10, <2>1, <2>2, <2>3, <2>4, <2>5, <2>6, <2>7, <2>8 DEF MachineStep
<1>11. QED
  BY <1>7, <1>8, <1>9, <1>10 DEF AssistantNext

LEMMA OthersChange ==
  ASSUME OtherInv, AssistantNext
  PROVE  OtherInv'
<1> USE DEF OtherInv, worldVars, windowVars
<1>1. CASE \E s \in Slot : FetchStep(s)
  BY <1>1
  DEF FetchStep, FetchDevices, FetchHealth, FetchChecks, FetchStatus,
      FetchPresets, RunsCommand, DeliversReport, DeliversDevices
<1>2. CASE TrayStep
  BY <1>2
  DEF TrayStep, PageReady, TickFires, HearsHotplug, ChecksSetup, NextAttempt,
      AutoOpenWizard
<1>3. CASE UserStep
  BY <1>3
  DEF UserStep, ClicksMenu, UserOpens, Closes, OpensWizard, RunStep, FollowsStep,
      Obtains, InstallsService
<1>4. CASE MachineStep
  BY <1>4
  DEF MachineStep, FactFlips, UserCommands, Updates, DaemonStops, Hotplug,
      DaemonStarts, DriverDaemonRevives, GrantsNoticed, BackendNoticed, Notices,
      Alone, Itself
<1>5. QED
  BY <1>1, <1>2, <1>3, <1>4 DEF AssistantNext

LEMMA AssistantStep ==
  ASSUME AssistantInv, [AssistantNext]_assistantVars
  PROVE  AssistantInv'
<1>1. MachineInv /\ WindowInv /\ OtherInv
  BY AssistantParts DEF WindowInv
<1>2. CASE UNCHANGED assistantVars
  <2>1. UNCHANGED <<worldVars, windowVars, excuse>>
    BY <1>2 DEF assistantVars
  <2>2. WindowInv'
    BY <1>1, <2>1, WindowsAlone DEF windowVars
  <2>3. MachineInv' /\ OtherInv'
    BY <1>1, <2>1 DEF MachineInv, OtherInv, worldVars, windowVars
  <2>4. QED
    BY <2>2, <2>3, AssistantPartsNext DEF WindowInv
<1>3. CASE AssistantNext
  BY <1>1, <1>3, WindowStep, MachineChanges, OthersChange, AssistantPartsNext
  DEF WindowInv
<1>4. QED
  BY <1>2, <1>3

(* The inductive invariant of the windows, their fetches and their ticks.  *)
THEOREM AssistantCorrect == AssistantSpec => []AssistantInv
BY StartsType, AssistantStep, PTL DEF AssistantSpec

(* Types of the machine, the windows, the fetches and their ticks.         *)
THEOREM AssistantTypeCorrect == AssistantSpec => []AssistantTypeOK
<1>1. AssistantInv => AssistantTypeOK
  BY DEF AssistantInv
<1>2. QED
  BY <1>1, AssistantCorrect, PTL

(* A visible page is checked again and again, by one chain of ticks, for   *)
(* any number of fetches that overlap and any order they end in.           *)
THEOREM PollsOnceHolds == AssistantSpec => []PollsOnce
<1>1. AssistantInv => PollsOnce
  BY DEF AssistantInv
<1>2. QED
  BY <1>1, AssistantCorrect, PTL
-----------------------------------------------------------------------------
(* A machine that is set up fails no setup check.                          *)
LEMMA SetUpPasses ==
  ASSUME NEW w, SetUp(w)
  PROVE  SetupComplete(Failed(w))
<1>1. w.up
  BY DEF SetUp
<1>2. DriverPreflight => DriverHealth(w) # "DriverNotActivated"
  BY DEF SetUp, DriverHealth, DriverReady
<1>3. /\ DriverPresentCheck(w) /\ DriverCheck(w) /\ VhidManagedCheck(w)
      /\ InputMonitoringCheck(w) /\ AccessibilityCheck(w) /\ DriverVersionCheck(w)
  BY <1>2
  DEF SetUp, DriverPresentCheck, DriverCheck, VhidManagedCheck, Grant,
      InputMonitoringCheck, AccessibilityCheck, DriverVersionCheck
<1>4. \A c \in SetupCheck : c \in Check /\ Passes(w)[c]
  BY <1>3 DEF SetupCheck, Check, Passes
<1>5. QED
  BY <1>1, <1>4 DEF SetupComplete, Failed

(* The assistant never opens itself over a machine that is set up.         *)
THEOREM OpensOnlyUnsetHolds == AssistantSpec => OpensOnlyUnset
<1>1. [AssistantNext]_assistantVars =>
        [auto # "opening" /\ auto' = "opening" => ~SetUp(world)]_assistantVars
  <2> SUFFICES ASSUME AssistantNext, auto # "opening", auto' = "opening"
               PROVE  ~SetUp(world)
    OBVIOUS
  <2>1. ChecksSetup
    <3> USE DEF worldVars, windowVars
    <3>1. ~(\E s \in Slot : FetchStep(s))
      BY DEF FetchStep, FetchDevices, FetchHealth, FetchChecks, FetchStatus,
         FetchPresets, RunsCommand, DeliversReport, DeliversDevices
    <3>2. ~UserStep
      BY DEF UserStep, ClicksMenu, UserOpens, Closes, OpensWizard, RunStep,
         FollowsStep, Obtains, InstallsService
    <3>3. ~MachineStep
      BY DEF MachineStep, FactFlips, UserCommands, Updates, DaemonStops, Hotplug,
         DaemonStarts, DriverDaemonRevives, GrantsNoticed, BackendNoticed,
         Notices, Alone, Itself
    <3>4. TrayStep => ChecksSetup
      BY DEF TrayStep, PageReady, TickFires, HearsHotplug, AutoOpenWizard
    <3>5. QED
      BY <3>1, <3>2, <3>3, <3>4 DEF AssistantNext
  <2>2. ~world.up \/ ~SetupComplete(Failed(world))
    BY <2>1 DEF ChecksSetup
  <2>3. QED
    BY <2>2, SetUpPasses DEF SetUp
<1>2. QED
  BY <1>1, PTL DEF AssistantSpec, OpensOnlyUnset
-----------------------------------------------------------------------------
(* The devices page.                                                       *)
DevicesFetch(t) == fetch[t] # None /\ fetch[t].page = "Devices"

Asked == \E t \in Slot : DevicesFetch(t) /\ fetch[t].stage = "asked"

(* The answer that was read last, on its way.                              *)
Newest(t) == DevicesFetch(t) /\ fetch[t].stage = "done" /\ ~fetch[t].old

(* It tells how things are, or it came already, and an older one after it  *)
(* or none.                                                                *)
Latest ==
  \/ \E t \in Slot : Newest(t) /\ fetch[t].view = DevicesView(world, plugged)
  \/ /\ \A t \in Slot : ~Newest(t)
     /\ \/ "overtaken" \in excuse
        \/ page["Devices"].kept = DevicesView(world, plugged)

Unmixed ==
  /\ \A t \in Slot : DevicesFetch(t) =>
       fetch[t].stage \in {"asked", "done"} /\ (fetch[t].old => fetch[t].stage = "done")
  /\ \A s, t \in Slot : Newest(s) /\ Newest(t) => s = t

FreshInv ==
  /\ page["Devices"].ready => page["Devices"].drawn = page["Devices"].kept
  /\ Unmixed
  /\ page["Devices"].visible /\ "deaf" \notin excuse => news > 0 \/ Asked \/ Latest

(* A step that leaves the fetches of the page alone, and all it shows but  *)
(* for hiding it: the devices are the same, or a piece of news is on its   *)
(* way, or the daemon was away.                                            *)
LEMMA FreshFrame ==
  ASSUME FreshInv,
         \A t \in Slot : /\ DevicesFetch(t)' <=> DevicesFetch(t)
                         /\ DevicesFetch(t) => fetch'[t] = fetch[t],
         page'["Devices"].ready => page'["Devices"].drawn = page'["Devices"].kept,
         page'["Devices"].kept = page["Devices"].kept,
         page'["Devices"].visible => page["Devices"].visible,
         \/ "deaf" \in excuse'
         \/ /\ excuse' = excuse
            /\ \/ news' > 0
               \/ /\ news' = news
                  /\ DevicesView(world', plugged') = DevicesView(world, plugged)
               \/ ~page'["Devices"].visible
  PROVE  FreshInv'
<1>1. \A t \in Slot : Newest(t)' <=> Newest(t)
  BY DEF Newest
<1>2. Unmixed'
  BY <1>1 DEF FreshInv, Unmixed
<1>3. Asked => Asked'
  BY DEF Asked
<1>4. Latest /\ excuse' = excuse
        /\ DevicesView(world', plugged') = DevicesView(world, plugged) => Latest'
  BY <1>1 DEF Latest, Newest
<1>5. QED
  BY <1>2, <1>3, <1>4 DEF FreshInv

(* A fetch of another page starts, goes on or ends.                        *)
LEMMA OtherFetch ==
  ASSUME fetch \in [Slot -> Fetch \cup {None}], NEW s \in Slot, NEW f,
         fetch' = [fetch EXCEPT ![s] = f],
         ~DevicesFetch(s), f = None \/ f.page # "Devices"
  PROVE  \A t \in Slot : /\ DevicesFetch(t)' <=> DevicesFetch(t)
                         /\ DevicesFetch(t) => fetch'[t] = fetch[t]
BY DEF DevicesFetch

LEMMA OtherStarts ==
  ASSUME fetch \in [Slot -> Fetch \cup {None}], NEW p \in Page \ {"Devices"},
         NEW stage, Starts(p, stage)
  PROVE  \A t \in Slot : /\ DevicesFetch(t)' <=> DevicesFetch(t)
                         /\ DevicesFetch(t) => fetch'[t] = fetch[t]
<1> DEFINE s == CHOOSE t \in Free : TRUE
<1>1. s \in Slot /\ fetch[s] = None
  BY DEF Starts, Free
<1>2. fetch' = [fetch EXCEPT ![s] = NewFetch(p, stage)]
  BY DEF Starts
<1>3. NewFetch(p, stage).page # "Devices"
  BY DEF NewFetch
<1> HIDE DEF s
<1>4. ~DevicesFetch(s)
  BY <1>1 DEF DevicesFetch
<1>5. QED
  BY <1>1, <1>2, <1>3, <1>4, OtherFetch

(* A fetch of the devices starts.                                          *)
LEMMA FreshAsked ==
  ASSUME FreshInv, fetch \in [Slot -> Fetch \cup {None}],
         Starts("Devices", "asked"),
         page'["Devices"].ready = page["Devices"].ready,
         page'["Devices"].drawn = page["Devices"].drawn,
         page'["Devices"].kept = page["Devices"].kept
  PROVE  FreshInv'
<1> DEFINE s == CHOOSE t \in Free : TRUE
           new == NewFetch("Devices", "asked")
<1>1. s \in Slot
  BY DEF Starts, Free
<1>2. fetch' = [fetch EXCEPT ![s] = new]
  BY DEF Starts
<1>3. new.page = "Devices" /\ new.stage = "asked" /\ ~new.old /\ new # None
  <2>1. new \in Fetch
    BY NewFetchType DEF Page
  <2>2. QED
    BY <2>1, FetchAssumption DEF NewFetch
<1> HIDE DEF s, new
<1>4. fetch'[s] = new /\ \A t \in Slot : t # s => fetch'[t] = fetch[t]
  BY <1>1, <1>2
<1>5. Asked'
  BY <1>1, <1>3, <1>4 DEF Asked, DevicesFetch
<1>6. Unmixed'
  BY <1>3, <1>4 DEF FreshInv, Unmixed, Newest, DevicesFetch
<1>7. QED
  BY <1>5, <1>6 DEF FreshInv

(* The devices are read: this answer is the newest.                        *)
LEMMA FreshRead ==
  ASSUME FreshInv, fetch \in [Slot -> Fetch \cup {None}],
         MachineInv, NEW s \in Slot, FetchDevices(s)
  PROVE  FreshInv'
<1> DEFINE view == DevicesView(world, plugged)
           aged(t) == IF fetch[t] # None /\ fetch[t].page = "Devices"
                         /\ fetch[t].stage = "done"
                      THEN [fetch[t] EXCEPT !.old = TRUE] ELSE fetch[t]
<1>1. fetch' = [t \in Slot |-> IF t = s THEN Posts(fetch[s], view) ELSE aged(t)]
  BY DEF FetchDevices
<1>2. DevicesFetch(s) /\ fetch[s].stage = "asked" /\ fetch[s] \in Fetch
  BY DEF FetchDevices, At, DevicesFetch
<1>3. ~fetch[s].old
  BY <1>2 DEF FreshInv, Unmixed
<1>4. view \in View
  BY ViewTypes DEF MachineInv
<1>5. /\ fetch'[s] # None /\ fetch'[s].page = "Devices"
      /\ fetch'[s].stage = "done" /\ ~fetch'[s].old /\ fetch'[s].view = view
  <2> HIDE DEF view
  <2>1. fetch'[s] = Posts(fetch[s], view)
    BY <1>1
  <2>2. Posts(fetch[s], view).page = "Devices"
    BY <1>2 DEF Posts, Fetch, DevicesFetch
  <2>3. Posts(fetch[s], view) # None
    <3>1. Posts(fetch[s], view) \in Fetch
      BY <1>2, <1>4 DEF Posts, Fetch
    <3>2. QED
      BY <3>1, FetchAssumption
  <2>4. QED
    BY <1>2, <1>3, <2>1, <2>2, <2>3 DEF Posts, Fetch
<1>6. ASSUME NEW t \in Slot, t # s
      PROVE  /\ DevicesFetch(t)' => DevicesFetch(t)
             /\ DevicesFetch(t)' => fetch'[t].stage \in {"asked", "done"}
             /\ DevicesFetch(t)' => (fetch'[t].old => fetch'[t].stage = "done")
             /\ ~Newest(t)'
  <2>1. fetch'[t] = aged(t)
    BY <1>1, <1>6
  <2>2. CASE DevicesFetch(t) /\ fetch[t].stage = "done"
    <3>1. fetch[t] \in Fetch
      BY <2>2 DEF DevicesFetch
    <3>2. /\ fetch'[t].old = TRUE /\ fetch'[t].stage = "done"
      BY <2>1, <2>2, <3>1 DEF DevicesFetch, Fetch
    <3>3. QED
      BY <2>2, <3>2 DEF Newest
  <2>3. CASE ~(DevicesFetch(t) /\ fetch[t].stage = "done")
    <3>1. fetch'[t] = fetch[t]
      BY <2>1, <2>3 DEF DevicesFetch
    <3>2. QED
      BY <2>3, <3>1 DEF Newest, DevicesFetch, FreshInv, Unmixed
  <2>4. QED
    BY <2>2, <2>3
<1>7. UNCHANGED <<page, world, plugged>>
  BY DEF FetchDevices, worldVars
<1>8. Newest(s)'
  BY <1>5 DEF Newest, DevicesFetch
<1> HIDE DEF aged
<1>9. Unmixed'
  BY <1>5, <1>6 DEF Unmixed, DevicesFetch
<1>10. Latest'
  BY <1>5, <1>7, <1>8 DEF Latest
<1>11. QED
  BY <1>7, <1>9, <1>10 DEF FreshInv

(* An answer arrives.                                                      *)
LEMMA FreshDelivered ==
  ASSUME FreshInv, PageInv, fetch \in [Slot -> Fetch \cup {None}],
         NEW s \in Slot, DeliversDevices(s)
  PROVE  FreshInv'
<1> DEFINE view == fetch[s].view
<1>1. /\ DevicesFetch(s) /\ fetch[s].stage = "done"
      /\ page' = Render("Devices", view)
      /\ fetch' = [fetch EXCEPT ![s] = None]
      /\ UNCHANGED <<world, plugged, news>>
      /\ excuse' = IF fetch[s].old THEN excuse \cup {"overtaken"}
                   ELSE excuse \ {"overtaken"}
  BY DEF DeliversDevices, At, DevicesFetch, worldVars
<1>2. "Devices" \in Page
  BY DEF Page
<1> HIDE DEF view
<1>3. /\ page'["Devices"].kept = view
      /\ page'["Devices"].ready = page["Devices"].ready
      /\ page'["Devices"].visible = page["Devices"].visible
      /\ page'["Devices"].ready => page'["Devices"].drawn = view
  BY <1>1, <1>2 DEF Render, PageInv, Window
<1>4. /\ ~DevicesFetch(s)'
      /\ \A t \in Slot : t # s => fetch'[t] = fetch[t]
  BY <1>1 DEF DevicesFetch
<1>5. \A t \in Slot : Newest(t)' <=> t # s /\ Newest(t)
  BY <1>4 DEF Newest, DevicesFetch
<1>6. Unmixed'
  BY <1>4, <1>5 DEF FreshInv, Unmixed, DevicesFetch
<1>7. Asked => Asked'
  BY <1>1, <1>4 DEF Asked, DevicesFetch
<1>8. Latest => Latest'
  <2>1. CASE fetch[s].old
    <3>1. ~Newest(s) /\ "overtaken" \in excuse'
      BY <1>1, <2>1 DEF Newest
    <3>2. QED
      BY <1>1, <1>4, <1>5, <3>1 DEF Latest
  <2>2. CASE ~fetch[s].old
    <3>1. Newest(s)
      BY <1>1, <2>2 DEF Newest
    <3>2. \A t \in Slot : ~Newest(t)'
      BY <1>5, <3>1 DEF FreshInv, Unmixed
    <3>3. Latest => view = DevicesView(world, plugged)
      BY <3>1 DEF Latest, FreshInv, Unmixed, view
    <3>4. QED
      BY <1>1, <1>3, <3>2, <3>3 DEF Latest
  <2>3. QED
    BY <2>1, <2>2
<1>9. QED
  BY <1>1, <1>3, <1>6, <1>7, <1>8 DEF FreshInv

(* What the supervisor does shows nothing on the devices page.             *)
LEMMA SameDevices ==
  ASSUME world'.up = world.up, plugged' = plugged
  PROVE  DevicesView(world', plugged') = DevicesView(world, plugged)
BY DEF DevicesView

LEMMA SettlesUp ==
  ASSUME NEW w \in World, NEW e
  PROVE  Settles(w, e).up = w.up
<1> DEFINE m == IF Handle(w.machine, e).moved
                   /\ Handle(w.machine, e).machine.state = "Starting"
                THEN Spawns(w, Handle(w.machine, e).machine)
                ELSE Handle(w.machine, e).machine
<1>1. Settles(w, e) = [w EXCEPT !.machine = m]
  BY DEF Settles
<1> HIDE DEF m
<1>2. QED
  BY <1>1 DEF World

LEMMA FreshStep ==
  ASSUME AssistantInv, FreshInv, [AssistantNext]_assistantVars
  PROVE  FreshInv'
<1> USE DEF worldVars, windowVars
<1>1. /\ fetch \in [Slot -> Fetch \cup {None}] /\ world \in World
      /\ PageInv /\ page \in [Page -> Window] /\ "Devices" \in Page
  BY AssistantParts DEF FetchInv, MachineInv, PageInv, Page
<1>2. MachineInv
  BY AssistantParts
<1>3. ASSUME UNCHANGED <<page, fetch>>,
             \/ "deaf" \in excuse'
             \/ UNCHANGED <<excuse, news, plugged>> /\ world'.up = world.up
      PROVE  FreshInv'
  BY <1>3, FreshFrame, SameDevices DEF FreshInv, DevicesFetch
<1>4. ASSUME UNCHANGED <<page, excuse, news, plugged>>, world'.up = world.up,
             NEW s \in Slot, NEW f, fetch' = [fetch EXCEPT ![s] = f],
             ~DevicesFetch(s), f = None \/ f.page # "Devices"
      PROVE  FreshInv'
  BY <1>1, <1>4, FreshFrame, SameDevices, OtherFetch DEF FreshInv
<1>5. ASSUME UNCHANGED <<excuse, news, plugged, world>>,
             page'["Devices"] = page["Devices"],
             NEW p \in Page \ {"Devices"}, NEW stage, Starts(p, stage)
      PROVE  FreshInv'
  BY <1>1, <1>5, FreshFrame, OtherStarts DEF FreshInv
<1>6. CASE UNCHANGED assistantVars
  BY <1>3, <1>6 DEF assistantVars
<1>7. CASE \E s \in Slot : FetchStep(s)
  <2>1. PICK s \in Slot : FetchStep(s)
    BY <1>7
  <2>2. CASE FetchDevices(s)
    BY <1>1, <1>2, <2>2, FreshRead
  <2>3. CASE DeliversDevices(s)
    BY <1>1, <2>3, FreshDelivered
  <2>4. CASE FetchHealth(s) \/ FetchChecks(s) \/ FetchStatus(s)
             \/ FetchPresets(s) \/ RunsCommand(s)
    <3>1. fetch[s] \in Fetch /\ fetch[s] # None
      BY <1>1, <2>4 DEF FetchHealth, FetchChecks, FetchStatus, FetchPresets,
         RunsCommand, At
    <3>2. ~DevicesFetch(s)
      BY <2>4 DEF FetchHealth, FetchChecks, FetchStatus, FetchPresets,
         RunsCommand, At, DevicesFetch, FreshInv, Unmixed
    <3>3. \A stage, view, failed, reason :
            LET f == fetch[s]
            IN  /\ Posts(f, view).page = f.page
                /\ [f EXCEPT !.stage = stage].page = f.page
                /\ [f EXCEPT !.stage = stage, !.failed = failed].page = f.page
                /\ [f EXCEPT !.reason = reason].page = f.page
                /\ [[f EXCEPT !.reason = reason] EXCEPT !.stage = stage].page = f.page
                /\ Posts([f EXCEPT !.reason = reason], view).page = f.page
      BY <3>1 DEF Posts, Fetch
    <3>4. fetch[s].page # "Devices"
      BY <3>1, <3>2 DEF DevicesFetch
    <3>5. UNCHANGED <<page, excuse, news, plugged>> /\ world'.up = world.up
      BY <1>1, <2>4 DEF FetchHealth, FetchChecks, FetchStatus, FetchPresets,
         RunsCommand, Activates, World
    <3>6. PICK f : fetch' = [fetch EXCEPT ![s] = f] /\ f.page = fetch[s].page
      <4>1. CASE FetchHealth(s)
        BY <4>1, <3>3, <1>1 DEF FetchHealth
      <4>2. CASE FetchChecks(s)
        <5>1. fetch' = [fetch EXCEPT ![s] =
                [fetch[s] EXCEPT !.stage = "status", !.failed = Failed(world)]]
          BY <1>1, <3>1, <4>2 DEF FetchChecks, Fetch
        <5>2. [fetch[s] EXCEPT !.stage = "status", !.failed = Failed(world)].page
                = fetch[s].page
          BY <3>1 DEF Fetch
        <5>3. QED
          BY <5>1, <5>2
      <4>3. CASE FetchStatus(s)
        <5> DEFINE reason == Degradation(world)
                   step == FirstUnsatisfied(fetch[s].failed, reason)
                   read == [fetch[s] EXCEPT !.reason = reason]
                   g == IF step = 0 THEN [read EXCEPT !.stage = "presets"]
                        ELSE Posts(read, WizardView(step, "None"))
        <5>1. fetch' = [fetch EXCEPT ![s] = g]
          BY <4>3 DEF FetchStatus
        <5> HIDE DEF reason, step
        <5>2. g.page = fetch[s].page
          BY <3>3
        <5> HIDE DEF g
        <5>3. QED
          BY <5>1, <5>2
      <4>4. CASE FetchPresets(s)
        BY <4>4, <3>3, <1>1 DEF FetchPresets
      <4>5. CASE RunsCommand(s)
        <5>1. fetch' = [fetch EXCEPT ![s] = [fetch[s] EXCEPT !.stage = "asked"]]
          BY <1>1, <3>1, <4>5 DEF RunsCommand
        <5>2. QED
          BY <5>1, <3>3
      <4>6. QED
        BY <2>4, <4>1, <4>2, <4>3, <4>4, <4>5
    <3>7. QED
      BY <1>4, <3>2, <3>4, <3>5, <3>6
  <2>5. CASE DeliversReport(s)
    <3>1. /\ fetch[s] # None /\ fetch[s].page \in Polled
          /\ page' = Render(fetch[s].page, fetch[s].view)
          /\ fetch' = [fetch EXCEPT ![s] = None]
          /\ UNCHANGED <<world, plugged, news, excuse>>
      BY <2>5 DEF DeliversReport, At
    <3>2. fetch[s].page # "Devices"
      BY <3>1, PolledPages
    <3>3. page'["Devices"] = page["Devices"]
      BY <1>1, <3>1, <3>2 DEF Render
    <3>4. \A t \in Slot : /\ DevicesFetch(t)' <=> DevicesFetch(t)
                          /\ DevicesFetch(t) => fetch'[t] = fetch[t]
      BY <1>1, <3>1, <3>2, OtherFetch DEF DevicesFetch
    <3>5. QED
      BY <3>1, <3>3, <3>4, FreshFrame DEF FreshInv
  <2>6. QED
    BY <2>1, <2>2, <2>3, <2>4, <2>5 DEF FetchStep
<1>8. ASSUME NEW p \in Page, Shows(p), UNCHANGED <<worldVars, excuse>>
      PROVE  FreshInv'
  <2>1. /\ page'["Devices"].ready = page["Devices"].ready
        /\ page'["Devices"].drawn = page["Devices"].drawn
        /\ page'["Devices"].kept = page["Devices"].kept
        /\ p # "Devices" => page'["Devices"] = page["Devices"]
    BY <1>1, <1>8 DEF Shows, Window
  <2>2. CASE p = "Devices"
    BY <1>1, <1>8, <2>1, <2>2, FreshAsked DEF Shows
  <2>3. CASE p # "Devices"
    BY <1>5, <1>8, <2>1, <2>3 DEF Shows
  <2>4. QED
    BY <2>2, <2>3
<1>9. ASSUME NEW p \in Page, PageReady(p) \/ Closes(p)
      PROVE  FreshInv'
  <2>1. UNCHANGED <<worldVars, fetch, excuse>>
    BY <1>9 DEF PageReady, Closes
  <2>2. /\ page'["Devices"].ready => page'["Devices"].drawn = page'["Devices"].kept
        /\ page'["Devices"].kept = page["Devices"].kept
        /\ page'["Devices"].visible => page["Devices"].visible
    BY <1>1, <1>9 DEF PageReady, Closes, Window, FreshInv
  <2>3. QED
    BY <2>1, <2>2, FreshFrame DEF DevicesFetch
<1>10. CASE TrayStep
  <2>1. CASE \E p \in Polled : TickFires(p)
    <3>1. PICK p \in Polled : TickFires(p)
      BY <2>1
    <3>2. CASE page[p].visible
      BY <1>5, <3>1, <3>2, PolledPages DEF TickFires
    <3>3. CASE ~page[p].visible
      BY <1>3, <3>1, <3>3 DEF TickFires
    <3>4. QED
      BY <3>2, <3>3
  <2>2. CASE HearsHotplug
    <3>1. CASE page["Devices"].visible
      BY <1>1, <2>2, <3>1, FreshAsked DEF HearsHotplug
    <3>2. CASE ~page["Devices"].visible
      BY <2>2, <3>2, FreshFrame DEF HearsHotplug, FreshInv, DevicesFetch
    <3>3. QED
      BY <3>1, <3>2
  <2>3. CASE ChecksSetup
    BY <1>3, <2>3 DEF ChecksSetup
  <2>4. CASE AutoOpenWizard
    BY <1>8, <2>4 DEF AutoOpenWizard, Page
  <2>5. QED
    BY <1>9, <1>10, <2>1, <2>2, <2>3, <2>4 DEF TrayStep
<1>11. CASE UserStep
  <2>1. ASSUME NEW p \in Page, UserOpens(p) PROVE FreshInv'
    BY <1>8, <2>1 DEF UserOpens
  <2>2. CASE RunStep
    BY <1>5, <2>2 DEF RunStep, Page
  <2>3. CASE FollowsStep
    <3>1. PICK fact : Obtains(fact)
      BY <2>3 DEF FollowsStep
    <3>2. world'.up = world.up
      BY <1>1, <3>1 DEF Obtains, World
    <3>3. QED
      BY <1>3, <3>1, <3>2 DEF Obtains
  <2>4. CASE InstallsService
    BY <1>3, <2>4 DEF InstallsService
  <2>5. QED
    BY <1>9, <1>11, <2>1, <2>2, <2>3, <2>4 DEF UserStep, ClicksMenu, OpensWizard, Page
<1>12. CASE MachineStep
  <2>1. CASE FactFlips \/ DriverDaemonRevives
    <3>1. world'.up = world.up
      BY <1>1, <2>1 DEF FactFlips, DriverDaemonRevives, World
    <3>2. QED
      BY <1>3, <2>1, <3>1 DEF FactFlips, DriverDaemonRevives, Alone, Itself
  <2>2. CASE UserCommands \/ GrantsNoticed \/ BackendNoticed
    <3>1. world'.up = world.up
      BY <1>1, <2>2, SettlesUp
      DEF UserCommands, GrantsNoticed, BackendNoticed, Notices
    <3>2. QED
      BY <1>3, <2>2, <3>1
      DEF UserCommands, GrantsNoticed, BackendNoticed, Notices, Alone, Itself
  <2>3. CASE Updates \/ DaemonStops \/ DaemonStarts
    BY <1>3, <2>3 DEF Updates, DaemonStops, DaemonStarts, Alone, Itself
  <2>4. CASE Hotplug
    <3>1. UNCHANGED <<page, fetch>>
      BY <2>4 DEF Hotplug
    <3>2. "deaf" \in excuse' \/ (excuse' = excuse /\ news' > 0)
      <4>1. news \in 0..MoveCap
        BY AssistantParts DEF MachineInv
      <4>2. QED
        BY <2>4, <4>1, AssistantAssumption DEF Hotplug
    <3>3. QED
      BY <3>1, <3>2, FreshFrame DEF FreshInv, DevicesFetch
  <2>5. QED
    BY <1>12, <2>1, <2>2, <2>3, <2>4 DEF MachineStep
<1>13. QED
  BY <1>6, <1>7, <1>10, <1>11, <1>12 DEF AssistantNext

(* A visible devices page ends up with the answer that was read last, over *)
(* any number of hotplugs and of fetches that overlap, however often it is *)
(* closed and opened: with no announcement lost since, and no older answer *)
(* come after it, that is the list of the devices.                         *)
THEOREM DevicesFreshHolds == AssistantSpec => []DevicesFresh
<1>1. AssistantInit => FreshInv
  BY DEF AssistantInit, FreshInv, Unmixed, Newest, DevicesFetch, NoWindow, Page
<1>2. FreshInv => DevicesFresh
  BY DEF FreshInv, DevicesFresh, Asked, Latest, Newest, DevicesFetch, InFlight
<1>3. QED
  BY <1>1, <1>2, FreshStep, AssistantCorrect, PTL DEF AssistantSpec

-----------------------------------------------------------------------------
(* The steps of the assistant.                                             *)

(* FirstStep finds the first step whose check is among those given.        *)
LEMMA FirstStepFinds ==
  ASSUME NEW checks
  PROVE  \/ /\ FirstStep(checks) = 0
            /\ \A j \in 1..8 : Steps[j].verifies \notin checks
         \/ /\ FirstStep(checks) \in 1..8
            /\ Steps[FirstStep(checks)].verifies \in checks
            /\ \A j \in 1..8 : Steps[j].verifies \in checks => FirstStep(checks) <= j
<1> DEFINE open == {i \in DOMAIN Steps : Steps[i].verifies \in checks}
           first == CHOOSE i \in open : \A j \in open : i <= j
<1>1. open \subseteq 1..8 /\ \A j \in 1..8 : j \in open <=> Steps[j].verifies \in checks
  BY StepsAre
<1>2. FirstStep(checks) = IF open = {} THEN 0 ELSE first
  BY DEF FirstStep
<1>3. (\E i \in open : \A j \in open : i <= j) =>
        first \in open /\ \A j \in open : first <= j
  OBVIOUS
<1> HIDE DEF open, first
<1>4. CASE open = {}
  BY <1>1, <1>2, <1>4
<1>5. CASE open # {}
  <2>1. first \in open /\ \A j \in open : first <= j
    BY <1>1, <1>3, <1>5, LeastStep
  <2>2. FirstStep(checks) = first
    BY <1>2, <1>5
  <2>3. QED
    BY <1>1, <2>1, <2>2
<1>6. QED
  BY <1>4, <1>5

(* Every setup check has a step.                                           *)
LEMMA SetupSteps ==
  \A c \in SetupCheck : \E j \in 1..8 : Steps[j].verifies = c
<1>1. /\ Steps[1].verifies = "driver present"
      /\ Steps[2].verifies = "driver version"
      /\ Steps[3].verifies = "karabiner driver"
      /\ Steps[4].verifies = "vhid daemon managed"
      /\ Steps[5].verifies = "input monitoring"
      /\ Steps[6].verifies = "accessibility"
      /\ Steps[7].verifies = "daemon"
  BY DEF Steps, StepOf
<1>2. \A j \in 1..7 : j \in 1..8
  OBVIOUS
<1>3. 1 \in 1..7 /\ 2 \in 1..7 /\ 3 \in 1..7 /\ 4 \in 1..7 /\ 5 \in 1..7 /\ 6 \in 1..7 /\ 7 \in 1..7
  OBVIOUS
<1>4. ASSUME NEW c \in SetupCheck PROVE \E j \in 1..7 : Steps[j].verifies = c
  <2>1. \/ c = "driver present" \/ c = "driver version" \/ c = "karabiner driver"
        \/ c = "vhid daemon managed" \/ c = "input monitoring"
        \/ c = "accessibility" \/ c = "daemon"
    BY DEF SetupCheck
  <2>2. QED
    BY <1>1, <1>3, <2>1
<1>5. QED
  BY <1>2, <1>4

LEMMA FailingSetup ==
  ASSUME NEW checks, NEW c \in SetupCheck, c \in checks
  PROVE  /\ FirstStep(checks) \in 1..8
         /\ Steps[FirstStep(checks)].verifies \in checks
         /\ \A j \in 1..8 : Steps[j].verifies = c => FirstStep(checks) <= j
<1>1. PICK j \in 1..8 : Steps[j].verifies = c
  BY SetupSteps
<1>2. QED
  BY <1>1, FirstStepFinds

(* The step a wizard fetch came to is the first unsatisfied one of what it *)
(* read, its three connections apart.                                      *)
PinInv ==
  \A s \in Slot :
    At(s, "done") /\ fetch[s].page = "Wizard" =>
      \/ fetch[s].view.step = 0
      \/ fetch[s].view.step = FirstUnsatisfied(fetch[s].failed, fetch[s].reason)

LEMMA PinFrame ==
  ASSUME PinInv, fetch' \in [Slot -> Fetch \cup {None}],
         \A s \in Slot :
           \/ fetch'[s] = None
           \/ fetch'[s] = fetch[s]
           \/ fetch'[s].stage # "done" \/ fetch'[s].page # "Wizard"
  PROVE  PinInv'
BY DEF PinInv, At

LEMMA PinStarts ==
  ASSUME PinInv, FetchInv, NEW p \in Page, NEW stage \in {"running", "asked"},
         Starts(p, stage)
  PROVE  PinInv'
<1> DEFINE s == CHOOSE t \in Free : TRUE
<1>1. s \in Slot /\ fetch' = [fetch EXCEPT ![s] = NewFetch(p, stage)]
  BY DEF Starts, Free
<1>2. fetch' \in [Slot -> Fetch \cup {None}]
  BY StartsFetch
<1>3. NewFetch(p, stage).stage # "done"
  BY DEF NewFetch
<1> HIDE DEF s
<1>4. \A t \in Slot : fetch'[t] = fetch[t] \/ fetch'[t].stage # "done"
  BY <1>1, <1>3 DEF FetchInv
<1>5. QED
  BY <1>2, <1>4, PinFrame

LEMMA PinStep ==
  ASSUME AssistantInv, PinInv, [AssistantNext]_assistantVars
  PROVE  PinInv'
<1> USE DEF worldVars, windowVars
<1>1. MachineInv /\ FetchInv /\ fetch \in [Slot -> Fetch \cup {None}]
  BY AssistantParts DEF FetchInv
<1>2. fetch' \in [Slot -> Fetch \cup {None}]
  <2>1. AssistantInv'
    BY AssistantStep
  <2>2. QED
    BY <2>1, AssistantPartsNext DEF FetchInv
<1>3. CASE UNCHANGED fetch
  BY <1>2, <1>3, PinFrame
<1>4. ASSUME NEW s \in Slot, FetchStep(s) PROVE PinInv'
  <2> DEFINE f == fetch[s]
  <2>1. f # None /\ f \in Fetch
    BY <1>1, <1>4 DEF FetchStep, FetchDevices, FetchHealth, FetchChecks, FetchStatus,
       FetchPresets, RunsCommand, DeliversReport, DeliversDevices, At
  <2>2. CASE FetchDevices(s)
    <3>1. fetch' =
           [t \in Slot |->
              IF t = s THEN Posts(f, DevicesView(world, plugged))
              ELSE IF fetch[t] # None /\ fetch[t].page = "Devices"
                      /\ fetch[t].stage = "done"
              THEN [fetch[t] EXCEPT !.old = TRUE] ELSE fetch[t]]
      BY <2>2 DEF FetchDevices
    <3>2. Posts(f, DevicesView(world, plugged)).page = "Devices"
      BY <2>1, <2>2 DEF FetchDevices, Posts, Fetch
    <3>3. ASSUME NEW t \in Slot
          PROVE  fetch'[t] = fetch[t] \/ fetch'[t].page # "Wizard"
      <4>1. CASE t = s
        BY <3>1, <3>2, <4>1
      <4>2. CASE t # s /\ fetch[t] # None /\ fetch[t].page = "Devices"
        BY <1>1, <3>1, <4>2 DEF Fetch
      <4>3. CASE t # s /\ ~(fetch[t] # None /\ fetch[t].page = "Devices")
        BY <3>1, <4>3
      <4>4. QED
        BY <4>1, <4>2, <4>3
    <3>4. QED
      BY <1>2, <3>3, PinFrame
  <2>3. ASSUME NEW g, fetch' = [fetch EXCEPT ![s] = g],
               g = None \/ g.stage # "done" \/ g.page # "Wizard"
        PROVE  PinInv'
    BY <1>1, <1>2, <2>3, PinFrame
  <2>4. CASE FetchHealth(s)
    <3>1. fetch' = [fetch EXCEPT ![s] = Posts(f, HealthView(world))]
      BY <2>4 DEF FetchHealth
    <3>2. Posts(f, HealthView(world)).page = "Health"
      BY <2>1, <2>4 DEF FetchHealth, Posts, Fetch
    <3>3. QED
      BY <2>3, <3>1, <3>2
  <2>5. CASE FetchChecks(s)
    <3> DEFINE g == [f EXCEPT !.stage = "status", !.failed = Failed(world)]
    <3>1. fetch' = [fetch EXCEPT ![s] = g] /\ g.stage = "status"
      BY <1>1, <2>1, <2>5 DEF FetchChecks, Fetch
    <3> HIDE DEF g
    <3>2. QED
      BY <2>3, <3>1
  <2>6. CASE RunsCommand(s)
    <3> DEFINE g == [f EXCEPT !.stage = "asked"]
    <3>1. fetch' = [fetch EXCEPT ![s] = g] /\ g.stage = "asked"
      BY <2>1, <2>6 DEF RunsCommand, Fetch
    <3> HIDE DEF g
    <3>2. QED
      BY <2>3, <3>1
  <2>7. CASE DeliversReport(s) \/ DeliversDevices(s)
    BY <2>3, <2>7 DEF DeliversReport, DeliversDevices
  <2>8. CASE FetchStatus(s)
    <3> DEFINE reason == Degradation(world)
               step == FirstUnsatisfied(f.failed, reason)
               read == [f EXCEPT !.reason = reason]
    <3>1. /\ step = 0 => fetch' = [fetch EXCEPT ![s] = [read EXCEPT !.stage = "presets"]]
          /\ step # 0 => fetch' = [fetch EXCEPT ![s] = Posts(read, WizardView(step, "None"))]
      BY <2>8 DEF FetchStatus
    <3>2. read \in Fetch /\ read.failed = f.failed /\ read.reason = reason
      BY <1>1, <2>1, ViewTypes DEF Fetch, MachineInv
    <3> HIDE DEF read
    <3>3. [read EXCEPT !.stage = "presets"].stage # "done"
      BY <3>2 DEF Fetch
    <3>4. /\ Posts(read, WizardView(step, "None")).failed = f.failed
          /\ Posts(read, WizardView(step, "None")).reason = reason
          /\ Posts(read, WizardView(step, "None")).view = WizardView(step, "None")
      BY <3>2 DEF Posts, Fetch
    <3>5. WizardView(step, "None").step = step
      BY DEF WizardView
    <3>6. CASE step = 0
      BY <2>3, <3>1, <3>3, <3>6
    <3>7. CASE step # 0
      <4> DEFINE g == Posts(read, WizardView(step, "None"))
      <4>1. g.view.step = FirstUnsatisfied(g.failed, g.reason)
        BY <3>4, <3>5
      <4>2. fetch' = [fetch EXCEPT ![s] = g]
        BY <3>1, <3>7
      <4> HIDE DEF g
      <4>3. fetch'[s] = g /\ \A t \in Slot : t # s => fetch'[t] = fetch[t]
        BY <1>1, <4>2
      <4>4. QED
        BY <4>1, <4>3 DEF PinInv, At
    <3>8. QED
      BY <3>6, <3>7
  <2>9. CASE FetchPresets(s)
    <3> DEFINE g == Posts(f, WizardView(0, Completion(world)))
    <3>1. fetch' = [fetch EXCEPT ![s] = g]
      BY <2>9 DEF FetchPresets
    <3>2. g.view.step = 0
      BY <2>1 DEF Posts, Fetch, WizardView
    <3> HIDE DEF g
    <3>3. fetch'[s] = g /\ \A t \in Slot : t # s => fetch'[t] = fetch[t]
      BY <1>1, <3>1
    <3>4. QED
      BY <3>2, <3>3 DEF PinInv, At
  <2>10. QED
    BY <1>4, <2>2, <2>4, <2>5, <2>6, <2>7, <2>8, <2>9 DEF FetchStep
<1>5. ASSUME TrayStep PROVE PinInv'
  <2>1. ASSUME NEW p \in Polled, TickFires(p) PROVE PinInv'
    BY <1>1, <1>3, <2>1, PinStarts, PolledPages DEF TickFires
  <2>2. CASE HearsHotplug
    BY <1>1, <1>3, <2>2, PinStarts DEF HearsHotplug, Page
  <2>3. CASE AutoOpenWizard
    BY <1>1, <2>3, PinStarts DEF AutoOpenWizard, Shows, Page
  <2>4. QED
    BY <1>3, <1>5, <2>1, <2>2, <2>3 DEF TrayStep, PageReady, ChecksSetup
<1>6. ASSUME UserStep PROVE PinInv'
  <2>1. ASSUME NEW p \in Page, UserOpens(p) PROVE PinInv'
    BY <1>1, <2>1, PinStarts DEF UserOpens, Shows
  <2>2. CASE RunStep
    BY <1>1, <2>2, PinStarts DEF RunStep, Page
  <2>3. QED
    BY <1>3, <1>6, <2>1, <2>2
    DEF UserStep, ClicksMenu, Closes, OpensWizard, FollowsStep, Obtains,
        InstallsService, Page
<1>7. MachineStep => UNCHANGED fetch
  BY DEF MachineStep, FactFlips, UserCommands, Updates, DaemonStops, Hotplug,
     DaemonStarts, DriverDaemonRevives, GrantsNoticed, BackendNoticed, Notices,
     Alone, Itself
<1>8. QED
  BY <1>3, <1>4, <1>5, <1>6, <1>7 DEF AssistantNext, assistantVars

(* The assistant stands at a step whose check fails, and a degradation     *)
(* names one only when no setup check fails (wizard.rs:195-223).           *)
THEOREM NeverPinsHolds == AssistantSpec => []NeverPins
<1>1. AssistantInit => PinInv
  BY DEF AssistantInit, PinInv, At
<1>2. AssistantInv /\ PinInv /\ [AssistantNext]_assistantVars => PinInv'
  BY PinStep
<1>3. PinInv => NeverPins
  <2> SUFFICES ASSUME PinInv, NEW s \in Slot, At(s, "done"), fetch[s].page = "Wizard",
                      fetch[s].view.step # 0,
                      Steps[fetch[s].view.step].verifies \notin fetch[s].failed,
                      NEW c \in fetch[s].failed \cap SetupCheck
               PROVE  FALSE
    BY DEF NeverPins
  <2>1. fetch[s].view.step = FirstUnsatisfied(fetch[s].failed, fetch[s].reason)
    BY DEF PinInv
  <2>2. FirstStep(fetch[s].failed) # 0
        /\ Steps[FirstStep(fetch[s].failed)].verifies \in fetch[s].failed
    BY FailingSetup
  <2>3. QED
    BY <2>1, <2>2 DEF FirstUnsatisfied
<1>4. QED
  BY <1>1, <1>2, <1>3, AssistantCorrect, PTL DEF AssistantSpec

(* A failing setup check on the health page has its step, and the          *)
(* assistant stands at it or before it, whatever else fails                *)
(* (healthwin.rs:87-99, wizard.rs:160-164).                                *)
THEOREM HealthDelegatesHolds == AssistantSpec => []HealthDelegates
<1>1. HealthDelegates
  <2> SUFFICES ASSUME NEW rows, NEW c \in rows \cap SetupCheck
               PROVE  Delegates(c) # 0 /\ FirstUnsatisfied(rows, None) \in 1..Delegates(c)
    BY DEF HealthDelegates
  <2>1. FirstStep({c}) \in 1..8 /\ Steps[FirstStep({c})].verifies = c
    BY FailingSetup
  <2>2. FirstStep(rows) \in 1..8 /\ FirstStep(rows) <= FirstStep({c})
    BY <2>1, FailingSetup
  <2>3. QED
    BY <2>1, <2>2 DEF Delegates, FirstUnsatisfied
<1>2. QED
  BY <1>1, PTL
=============================================================================
