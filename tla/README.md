# Kanatabar in TLA+

Kanatabar keeps one `kanata` keyboard remapper alive on macOS.  A root daemon
(`kanatad`) supervises the process, restarts it when keyboards come and go or
the machine wakes, manages presets and configs, and serves a control socket to a
command-line client (`kanatactl`) and a menu bar app (`kanatabar-tray`).  The
pure decision rules live in `kanatabar-core`.

This directory holds the specifications of that system: TLA+ modules translated
from the Rust source, TLC configurations that model-check them on small
instances, and proofs checked by TLAPS.  `PROJECT.json` maps every definition to
the source lines it stands for.

## 1. Inventory

| Component | State | Operations | Talks to |
|---|---|---|---|
| State machine (`kanatabar-core/machine.rs`, `state.rs`, `backoff.rs`) | state, failure count, Degraded reason | `handle(event)` | supervisor (calls) |
| Supervisor (`kanatad/supervisor.rs`) | machine, owned child, four one-shot timers, command channel, watch snapshot, event bus, `state.json` | the arms of its `select!`, `dispatch`, `execute`, `spawn_child`, publish, persist | all daemon tasks (commands in; snapshot and events out) |
| Kanata child (`child.rs`, `kanata.rs`) | process, exit status, sticky stderr fault, backend lines | preflight, spawn, terminate, classify exit, relay log lines | supervisor |
| Device monitor (`device/mod.rs`, `ffi/iokit.rs`, `core/device.rs`, `core/debounce.rs`) | registry, debounce deadline, IOKit contexts | arrival, removal, debounce | supervisor (Restart), control socket (`GetDevices`) |
| Power monitor and wake task (`ffi/power.rs`, `main.rs`) | wake notifications | wake | supervisor (Restart) |
| Boot and orphan sweep (`main.rs`, `health/orphan.rs`, `statefile.rs`) | `state.json`, orphan processes | load, sweep recorded pid, sweep strays, Start, shutdown | operating system, supervisor |
| Config and preset manager (`configmgr.rs`, `config.rs`) | preset list in memory and in `config.toml`, active target, last-known-good backup | apply, switch, add, remove, set list, autostart, reload, rollback, safe config | supervisor (Restart), control socket |
| Config watcher (`watch.rs`) | watched directory, debounce | file event, reload of the active config | config manager |
| Layer relay (`health/tcp.rs`, `health/mod.rs`) | connection to kanata, current layer | connect, layer change, disconnect | kanata, event bus |
| Control socket (`control/*`, `events.rs`, `core/ipc.rs`) | connections, subscriptions, three broadcasts | greet, request, subscribe, push | every component |
| Tray session (`tray/conn.rs`, `reconnect.rs`, `session.rs`, `kanatactl/lib.rs`) | connection, session (state, layer, presets) | connect, seed, subscribe, fold an event, refetch, lose | control socket |
| Doctor and driver probes (`kanatad/doctor.rs`, `health/driver.rs`, `core/doctor.rs`, `driver.rs`) | none: facts of the machine | one check each | control socket, supervisor |
| Setup wizard (`tray/wizard.rs`, `wizardwin.rs`) | none: a report in, a view out | steps, first unsatisfied step, completion | tray interface |
| Tray interface (`tray/main.rs`, `ui_shell.rs`, `pages.rs`, `healthwin.rs`, `devwin.rs`, `model.rs`) | windows, views, tick flags, tasks under way | open, close, fetch, deliver, tick, run a step, auto-open | control socket |
| `kanatactl` and installer (`kanatactl/main.rs`, `install.rs`, `core/vhidd.rs`) | files, launchd jobs | install, uninstall; one-shot requests | launchd, file system, control socket |

What makes the system hard:

* **Interleaving.**  The supervisor is one task, but it awaits inside its
  handlers (terminating a child, the preflight of a spawn, the grant probe) while
  commands queue up, processes die and clients read its snapshot.  The device
  and wake tasks read that snapshot and send a `Restart` later.
* **Ordering.**  Log lines of the child, its exit, the grace window and the next
  child; snapshot, `state.json` and event of a transition; the several HID nodes
  of a composite keyboard.
* **Failure.**  Kanata crashes, escapes by panic, or is denied a permission; a
  preflight refuses; writing `state.json` fails; the daemon itself is killed.
* **Restarts.**  The daemon is killed and comes back over its own orphans, with
  pids that may belong to someone else by then; it is replaced by an installer
  whose commands stop half way; its clients hold connections, sessions and
  windows across all of that.
* **Timers.**  Backoff, healthy window, backend grace, grant poll, debounce:
  each races the event that makes it stale.

`PROJECT.json` lists these hazards one by one, at the line where each bites, with
the properties that would catch it or the reason none does yet.

## 2. Modules

```
Machine --+-- Supervisor ---+--- Resync --- MCResync
          |    |    |       |
          | Keeper  |  DeviceMonitor --- MCDeviceMonitor
          |         +--- MCSupervisor
          |
          +-- Doctor --- SetupAssistant --- MCAssistant

ConfigManager --+-- ConfigWatch --- MCConfigWatch      PresetStore --- MCPresetStore
                +-- MCConfigManager

LayerRelay --- ControlSocket --- TraySession --- MCTrayLink

Keeper --- RevivedKeeper (instantiated by DaemonLife)

DaemonLife --- Installer --- MCLifecycle
```

The theorems about a family are in a module of their own, which no model needs:
`SupervisorProofs`, `DeviceMonitorProofs`, `ResyncProofs` (which extends those two),
`ConfigManagerProofs` (ConfigManager and ConfigWatch), `PresetStoreProofs`,
`TraySessionProofs` (LayerRelay, ControlSocket and TraySession), `InstallerProofs` (DaemonLife and Installer) and
`SetupAssistantProofs`.

**Machine.tla** is the transition table of `machine.rs` as one operator,
`Handle(m, e)`, with the arms in the source's order.  It yields the machine
afterwards, the ordered side effects, and whether there is a transition to
announce.  It has no variables.

**Supervisor.tla** is the loop of `supervisor.rs`.  `pc` says at which await (or
publicly visible point) the task is:

| `pc` | the code |
|---|---|
| `Select` | waiting in the `select!` of `Task::run` |
| `Handle` | top of the `while` of `dispatch` with an event popped |
| `Execute` | in the `for` over the actions of the outcome |
| `Terminating` | inside `child.terminate()` |
| `Spawning` | inside `spawn_child()`: driver probe, version query, vetting, `--check` |
| `Notify` | snapshot and `state.json` written, event not sent yet |
| `Next` | end of one iteration of the `while` |
| `Probing` | inside `tcc_grants_ready()` |
| `Exited` | the loop has returned |

`machine`, `child`, `timers` and `inbox` are the fields of `Task`; `victim`,
`queue`, `todo`, `change` and `cont` are the local variables of `terminate()`,
`dispatch()` and the wake handler; `snapshot`, `disk` and `heard` are what the
task publishes; `live`, `lines` and `backend` are the operating system's and
kanata's.  The `select!` is biased, so `ChildTurn` and `TimerTurn` require that
nothing earlier in the list is ready.  A kanata exit is any of the events the
handler can produce from it.  A timer is armed or not; when it fires is
nondeterministic.

**Keeper.tla** is what the supervisor promises, without states, timers and
queues: keep one process while it is wanted, never launch a second, end what is
unwanted.  Supervisor.tla instantiates it with `wanted <- Wanted, procs <- live`.
**RevivedKeeper.tla** lets the keeper crash, with or without its process, and be
followed by another that takes over when none is left.  DaemonLife.tla instantiates it
with `wanted <- (phase \in Supervised), procs <- Kanatas \ Leftover`: a supervisor runs,
and the processes are those of the default binary but for the leftovers of finding 15.
However often the daemon is killed, restarted or upgraded, the system keeps kanata as one
keeper would (`KeptAcrossRestarts`).

**DeviceMonitor.tla** is the device pipeline: plugging and unplugging produce one
event per HID node, delivered in any order between devices; `ReceiveEvent`
records and arms; `DeadlineFires` is the debounce.  A removal carries the
descriptor read on arrival, as `removal_callback` does.

**Resync.tla** composes the supervisor, the device pipeline and the wake task over
the one command channel.  The look at the snapshot (`DebounceFires`,
`WakeTaskReceives`) and the send (`DeviceTaskSends`, `WakeTaskSends`) are separate
actions, since the send awaits room in the channel.

**ConfigManager.tla** is the path of a config from a request to the kanata that runs
it.  Each connection carries out its request in steps, one for each await of
`validate` and each thing another thread can see in `commit`: check, back up,
activate (`set_active`), point (`set_last_known_good`), send the restart.  The
daemon runs on tokio's multi-threaded runtime, so the steps of two requests
interleave even where there is no await.  The supervisor is reduced to what it
does with the target: stop the child, read the target, vet and check it, spawn.
A file holds one of a few texts, and `Accepts` says which binary takes which text
with which arguments.  Writing the safe config may fail and cut the file short.  A refused
request changes nothing and is left out.

**ConfigWatch.tla** adds the watcher of `watch.rs`: every step of the config manager
and of the user may change files, a change in the watched directory joins
`changes`, and the watch task debounces, calls `reload_active` and re-arms.

**PresetStore.tla** is the preset list in memory and in `config.toml`.  A change is
one step, since the code holds the mutex from the change to the end of the write;
`reload` is two, since it parses before it locks.  The lists that the user and the clients
write may flag several presets to start at boot.  `acked` and
`chosen` are history: what clients were told is listed, and which preset starts at boot;
`diverged` says that a write failed or crossed a reload.

**DaemonLife.tla** is one `kanatad` process after another under launchd: the boot
of `main.rs`, the two sweeps of `orphan.rs`, the kanata it keeps, `state.json`,
SIGTERM and `kill -9` between any two steps.  `phase` is

| `phase` | the code |
|---|---|
| `Booting` | `state.json` not loaded yet |
| `Recorded` | the recorded pid is being swept |
| `Strays` | the pids of `pgrep` are being swept |
| `Supervising` | `Start` was sent, the control socket is not bound yet |
| `Serving` | the daemon serves and waits for a signal |
| `Stopping` | SIGTERM, or no socket: `Shutdown` waits behind the commands of the supervisor |
| `Ending` | the supervisor has come to `Shutdown` |

and a kanata may be spawned from `Supervising` to `Stopping`; when one is, is
Supervisor.tla's subject.  `exe` says what runs under each pid; a free pid can be taken
by a stranger, also between the record or the `pgrep` and the signal.  `victim` is the
process whose end `terminate()` waits for.  After the grace it is sent SIGKILL without a
second look and not waited for (`doomed`).  `pgrep` lists whatever mentions the path, or
cannot be run and lists nothing (`ScansNothing`); then `unseen` remembers the kanatas that
were there.  `Leftover` is both.

**Installer.tla** runs `kanatactl install` and `uninstall` over that daemon.  A
command is the list of its remaining steps (`todo`), of which any may fail and end
it, a copy after it has unlinked the old file and a removal half way (`"remains"`);
a failed `bootout` goes unnoticed (`kept` remembers it) and so does a failed `launchctl
list`, which reads as an empty one (`found` remembers what was there).  launchd, the daemon
and kanata go on between the steps.  Files and jobs are known by the release that wrote or
runs them.  A `pkg` puts its payload on disk before the command begins.

**LayerRelay.tla** is the task of `tcp.rs`: the snapshot and the announcement of the
supervisor are two steps (`Publish`, `Send`), transitions overwrite each other at
the capacity of the broadcast, kanata's port may change owner, and `relay` says at
which await the task is.  **ControlSocket.tla** adds the daemon's end of a client's
connection: `handle_conn` with its biased `select!`, the frame it is writing
(`outbox`), the socket's two directions and the three broadcasts.  A change of
presets or config and its announcement on the bus are two steps, with other
requests between them (`unsaid`).  **TraySession.tla** adds the client: seed,
subscribe, fold, refetch, lose, reconnect.  `missed` is history: the facets of the
session whose last change nothing under way will tell.

**Doctor.tla** has no variables.  A machine is a set of facts with the daemon's state
on it; the module says what each check of `doctor` reads, what the supervisor does
with the same facts (by `Handle` of Machine.tla), which steps the assistant has and
which one comes first, and which commands the menu offers.  **SetupAssistant.tla**
is the tray's event loop over a machine that changes: windows, the fetches under
way (each a task that reads in stages), the one-shot ticks of the pages that poll,
the three attempts at start, a user who follows the steps.  A device announcement may be
lost and the command of a step may fail.

Definitions marked as variants in the comments (for instance
`StopEndsAtSignal` next to `StopEnds`) are what a plausible bug would turn the
definition below them into.  They belong to no specification; each property is
known to fail when its variant takes the place of the original.

## 3. Model checking

| Configuration | Module | Result | What it shows |
|---|---|---|---|
| `MCSupervisor.cfg` | MCSupervisor | passes, 573 000 states | safety, action and liveness properties of the supervisor, what it reports of the output backend, refinement of the keeper |
| `DeviceMonitor.cfg` | MCDeviceMonitor | passes, 107 000 states | no lost hotplug, the registry is live, no feedback loop |
| `Resync.cfg` | MCResync | passes, 848 000 states | no running kanata misses a keyboard; re-syncs never end a pause, and reach kanata in the end, also when its output backend is lost |
| `ConfigManager.cfg` | MCConfigManager | passes, 4 442 000 states | kanata runs what counts as active; the last-known-good belongs to it |
| `KeyboardStaysUp.cfg` | MCConfigManager | passes, 1 152 000 states | two clients that switch presets, edits, chmods: kanata comes back |
| `RollbackTwice.cfg` | MCConfigManager | violated | see finding 2 |
| `ConfigWatch.cfg` | MCConfigWatch | passes, 5 350 000 states | no edit is missed while the files share a directory |
| `PresetStore.cfg` | MCPresetStore | passes, 1 284 000 states | the preset a client chose to start at boot is the one a restart picks, and acknowledged presets are kept, but for two causes (finding 9) |
| `TrayLink.cfg` | MCTrayLink | passes, 757 000 states | the menu shows the daemon but for the named gaps; no layer of a kanata that is gone |
| `Lifecycle.cfg` | MCLifecycle | passes, 2 429 000 states | but for leftovers (finding 15) one kanata across daemons, kept as by one keeper, and none that a daemon leaves unless killed; a daemon serves again; installs upgrade, uninstalls remove, the VHID job is set up alone, but for what findings 13 and 16 name |
| `Assistant.cfg` | MCAssistant | passes, 205 000 states | the assistant leads to its end and never pins a page; pages keep checking and end up true |
| `GreenWhileDegraded.cfg` | MCAssistant | violated | see finding 11 |

The modules state more properties than the configurations list; they hold on the
same instances and can be added there.  Theorems of section 4 are `DispatchShrinks`
and `NeverStuck` of the supervisor, `ResyncsAreOwed` of the device pipeline,
`HealthDelegates` of the assistant, and the type invariants of all modules
(`MonitorTypeOK`, `ResyncTypeOK`, `ConfigTypeOK`, `WatchTypeOK`, `StoreTypeOK`,
`LinkTypeOK`, `InstallTypeOK`, `AssistantTypeOK`).  `DispatchEnds`, `ReapsUnwanted` and
`HotplugSettles` are liveness.  The refuted ones are named with the findings.

**Bounds.**  Two pids let an old and a new kanata coexist; they are symmetric.  A
budget of 2 and a counter that saturates at 3 reach the last retry, the spent
budget and, by way of `Restart` from `Degraded`, which keeps the count,
saturation.  Two queued commands let one wait behind another (the code's 64 adds
only length); two unread backend lines let the child go down and up unread.  The
device run has one device of each kind the rules tell apart: a composite
keyboard, a mouse, an unclassifiable device, the virtual keyboard.  The re-sync
runs have one keyboard and a command channel of one place, so that every sender
meets a full channel, a budget of 1 so that the next failure degrades, and one backend
line, which loses or recovers the output backend while a re-sync is under way.
`PersistOutcomes` says whether writing `state.json`
succeeds: `PublishedAgree` compares it with the snapshot, so `MCSupervisor` takes
it as always written; the re-sync runs do not look at it and let it fail.
Two user files, two binaries of which each refuses the other's text, two argument
lists and a text nobody accepts are the least with which every part of a target
can be wrong.  `KeyboardStaysUp.cfg` has presets that name their binary, no
rollback and no respawn, which are findings 2, 6 and 7; what it shows is that nothing
else takes the keyboard down.  An empty file is taken to be refused by kanata.
Three preset names let an autostart flag move past a third preset; any list that flags at
most the first two by hand, or a file that does not parse, may be written.
In the tray's run every queue has one place, so that each broadcast lags and the
socket blocks all the time; `MCTrayLink` says what its three moves reach.  Two
commands over two releases are an upgrade, a reinstall, an uninstall, and a command
after one that failed; of the parts, `both` and `agent` are enough, since the daemon's
part alone leaves what `both` leaves when it fails in the agent's (but for the
completions); two pids hold a kanata and an orphan or a stranger; two attempts at `bootstrap` (ten in the code) reach both the retry and its end.  The
assistant starts from the five machines of `MCAssistant`, and a move or two of the
machine fall between any two steps of at most two fetches.

**Fairness.**  `Fairness` in Supervisor.tla is weak fairness of the task at each of
its awaits, separately for what the `select!` can wake on.  It rests on tokio
polling a ready task, on the kernel ending a process that got SIGKILL
(`terminate` escalates after the grace), and on the helper commands of the
preflight returning.  Nothing is assumed of users, of kanata's own exits or of
its log.  The `select!` is biased, so timers only fire when the commands pause:
`BackoffRetries` and `OutageSurfaces` say so with `<>[](inbox = <<>>)`.  In
Resync.tla the two sends are strongly fair because tokio's channel queues waiting
senders in order, and the debounce deadline because a timer fires however often
the task is busy.  `CaughtUp` is a timing assumption: the debounce window (half a
second) is longer than the supervisor takes between two awaits and than reading
a log line takes.  Without it a re-sync could look at the snapshot in the instant
between a successful spawn and its publication.  `LinkFairSpec` schedules the tasks
of both processes and lets launchd start the daemon again; strong fairness stands
for the relay's `select!`, which is not biased and so takes a state change even
while lines keep arriving.  `SystemFairSpec` assumes that launchd
launches and that a daemon boots and shuts down, not that a command goes on, nor that a
kanata is spawned: the supervisor may be Degraded, have no config or no grant, or have been
told to stop.  What `Revives` says is that the daemon serves again.  `AssistantFairSpec` is strong where a fetch starts, since
the bound on fetches is the model's; `GuidedSpec` adds a user who does what the
assistant says and a command that does not fail for ever, and only `GuidesToCompletion`
needs them.

**Findings.**  Findings 2 and 11 have a configuration of their own.  The others were
met with the same models; the change to a configuration that shows each is given
in brackets.

1. *A hotplug can start a stopped kanata* [`Resync.cfg` with
   `UserCommand = {"Start", "Stop"}` and `StoppedStaysStopped`].  The pipeline
   reads a snapshot that says `Running` while a `Stop` is queued or is waiting in
   `terminate()`; its `Restart` is handled after the `Stop`, and the machine
   takes `Restart` from `Stopped`.  The comment (`device/mod.rs:134`) excludes
   it.  The same race against `Pause` is harmless (`PausedStaysPaused`), because
   the machine ignores `Restart` when paused.
2. *A rollback after an apply loses the backup* (`RollbackTwice.cfg`).  The backup
   of a config applied without a preset is `applied.kbd`; rolling back commits that
   file without a preset, so `backup` copies it onto itself, and `fs::copy`
   truncates its destination.  The restart then finds an empty file.
3. *The watch stays behind* [`ConfigWatch.cfg` with `Directory <- OwnDirectories`].  It moves to the directory of the
   active config only at the end of a reload, which only a change in the old
   directory causes.  After a switch, edits in the new directory go unnoticed.
4. *A plain crash can end in Degraded*
   [`MCSupervisor.cfg` with `PlainCrashNeverDegraded`].  The comment in the
   `ChildExited` arm (`supervisor.rs:347`) justifies the extra `Event::Crash` by
   "this path settles in Backoff/Running, never Degraded".  The crash that spends
   the retry budget goes to `Degraded{RetryBudgetExhausted}` on this very path
   and is announced twice.
5. *Twin keyboards share a registry entry* [`DeviceMonitor.cfg` with
   `Device <- Twins`, `Key <- TwinKeys`, `Nodes <- TwinNodes`, `Virtual = {}`].  The
   key is name and vendor, so unplugging one of two equal keyboards removes the
   other from `GetDevices`, which the comment (`device/mod.rs:39`) calls a live view.
6. *A preset inherits the binary of the one before* [`KeyboardStaysUp.cfg` with
   `Definition <- LooseDefinitions`].  A preset without `kanata_bin` is checked with
   the default binary (and without its extra arguments), but `set_active` leaves
   the previous preset's binary in the target.  The supervisor refuses it after
   having stopped the kanata that ran.
7. *A broken edit takes the keyboard down at the next respawn*
   [`KeyboardStaysUp.cfg` with `Respawns = TRUE`].  The watcher refuses the edit and
   keeps the running kanata, as it should; the next hotplug or wake restarts it,
   and the check comes after the stop.
8. *Racing switches leave the wrong backup* [`KeyboardStaysUp.cfg` with
   `BackupOfActive`].  `set_active` and `set_last_known_good` lock separately; two
   commits can cross between them, and a rollback then goes to the other preset's
   config.
9. *Acknowledged presets can vanish* [`PresetStore.cfg` with `AckedPresetsKept`,
   and `WriteFails = FALSE` or `Reloader = {}` to see one cause at a time].  A
   preset added between the parse and the lock of a reload is dropped; a removal
   reported as failed is carried out by the next change.  `KeptUnlessDiverged`
   shows that nothing else loses one, and `StartupPickKept` that nothing else moves the
   choice of what starts at boot.
10. *A broken `config.toml` is overwritten* [`PresetStore.cfg` with
   `BrokenFileKept`].  Memory holds the defaults then, and adding a preset writes
   them over the user's file, although `configmgr.rs:535` promises that it is
   never silently discarded.
11. *The assistant is done while the supervisor is degraded* (`GreenWhileDegraded.cfg`).
   A degradation is to override a green checklist (`docs/SPEC.md:529`); the one for
   a VHID daemon that is down maps to the check `vhid daemon`, which no step
   verifies, so the completion panel is shown.
12. *An uninstall can leave the support directory* [`Lifecycle.cfg` with
   `LeavesNothing`].  `bootout` returns while the daemon still boots, and the boot
   writes the safe config after uninstall has removed its directory
   (`docs/SPEC.md:641`).
13. *An install can start a second VHID manager* [`Lifecycle.cfg` with
   `NeverSecond`].  Our own label wins over another manager's that came later, so
   the job is refreshed beside it; and when `launchctl list` fails, the empty list reads as
   Unmanaged (`install.rs:433-436`) and the job is set up beside a rival that is there.
   The module comment (`core/vhidd.rs:7-10`) rules two out.  `SetUpAlone` shows that
   there is no third way.
14. *The kanata of a preset's own binary outlives a killed daemon* [`Lifecycle.cfg`
   with a second binary and `OneKanata` over all of `Binary`].  Both sweeps know the
   default binary only (`main.rs:290-298`).
15. *The sweep can miss an orphan, or leave it dying* [`Lifecycle.cfg` with `OneKanata`
   without `Leftover`].  The module is there for the single-instance invariant
   (`orphan.rs:1-3`).  Yet a `pgrep` that cannot be run has found nothing
   (`orphan.rs:82-84`), and one whose path, read as a regular expression, does not match
   itself finds nothing either; and an orphan that ignores SIGTERM is sent SIGKILL and not
   waited for (`orphan.rs:108-110`).  In all cases the new kanata may start beside the old
   one.  The SIGKILL comes without a second look at the executable, so that after a grace
   in which the orphan died and its pid was reused it hits a stranger (`orphan.rs:95-110`).
16. *An uninstall can report success over what it left* [`Lifecycle.cfg` with
   `LeavesNothing`].  A `bootout` that fails is ignored (`install.rs:280`, `343-350`,
   `369`), so a job stays loaded without its files.  A bundle whose removal broke off after
   its `Info.plist` is not ours to the next uninstall, which leaves it and says so with OK
   (`install.rs:572-576`).  `NothingLeft` shows that nothing else stays, but for finding 12.
17. *Two presets can be flagged to start at boot* [`PresetStore.cfg` with
   `\A m, n \in Autostarted(memory) : m = n`].  `set_preset_list` (`configmgr.rs:233-244`) and
   a file edited by hand (`configmgr.rs:321-336`, `548-573`) are taken as they are; the
   first by name starts (`config.rs:119-126` expects this), and only the next choice of a
   client clears the others, as the comment at `configmgr.rs:339-341` has it.
18. *A client can stay behind* [`TrayLink.cfg` with `MenuIsCurrent` without `missed`,
   `Assistant.cfg` with `DevicesFresh` without `excuse`].  An announcement is lost between
   the seed and the subscription (`conn.rs:84-93`), while the preset list is fetched again
   (`conn.rs:104-106`: `Client::request` drops the events before the answer,
   `kanatactl/lib.rs:60-72`) and when the broadcast lags (`control/mod.rs:251-273`).  The
   announcements of two switches may cross (`configmgr.rs:462-472`), and so may two answers
   to the devices page, of which the older then stays (`kanatabar-tray/main.rs:520-584`).
   The menu and the devices page show the old until the next change.  `MenuIsCurrent` and
   `DevicesFresh` set these cases aside and show that there are no others.

Smaller ones, which the models contain and no property excludes: under launchd the
daemon runs without `--state-dir`, so only the scan for strays is left; a
`ConfigApplied` without a preset leaves the tray's mark where it was; a preset list that
could not be written is not announced; `Degraded{DriverNotActivated}` outlives the
approval until a command comes, and the wizard is pinned to it (`Outlived`).

## 4. Proofs

Every proof is checked by tlapm to the last leaf.  The theorems hold for every value
of the constants that satisfies the named `ASSUME`s of the modules, which TLC
evaluates in the runs: bounds are naturals (capacities of a broadcast positive),
absent values lie outside the types they are absent from, the retry budget fits the
counter, the built-in config is accepted by the default binary, a predicate that is a
parameter is a Boolean.  None bounds the number of pids, clients, presets, devices,
kanata binaries, releases, commands or fetches.

**SupervisorProofs.**  `TypeCorrect`, `ConsistencyCorrect`, `OwnsItsKanataHolds`,
`RefinesKeeper`, `BudgetRespectedHolds`, `TimersMatchStateHolds`, `BackendReportedHolds`,
`PublishCorrect`, `PublishedAgreeHolds`, `EventsChainHold`, `DispatchShrinksHolds`,
`NeverStuckHolds`.

None of the safety invariants is inductive.  `OwnsItsKanata` speaks of the processes
alive; that a spawn finds none alive follows from what `dispatch` still has to do: a
plan that spawns has stopped the child first, and a child still being terminated
keeps the task in `Terminating`.  `Consistent` says this for each place of the task
(`PlaceInv`: which events may wait, which actions may be left, and which states and
children go with them), for the way out (`ExitInv`: after Shutdown, once the `Stop`
is handled the state is `Stopped`), and for the processes (`ProcessInv`: whoever is
alive is the owned child or the one being terminated, and there is one of the latter
only in `Terminating`).  The proof goes action by action; lemmas state what `Handle`
returns for the events each place can hold.  The other invariants stand on
`Consistent`.  `TimersInv` says where the retry of `Backoff` is between the decision
and the timer: an action to execute, an armed timer, or an event to handle
(`RetryPending`).  `PublishInv` says of each place whether the publications are right
already (`Agreed`) or a transition is on its way to be announced (`Announces`), and
that it starts where the last event ended; both `PublishedAgree` and the action
property `EventsChain` follow.  `BackendInv` follows an outage through the lines not yet
read: the last of them, or with none left the belief of the task (timer armed or
Degraded), is what the child printed last, in every place that owns a child.

That a dispatch ends is liveness, but its measure is not.  `StepsLeft` adds up what the
plan, the queued event and the announcements still cost, 14 at most; `DispatchShrinks` is
the action property that every step the task takes in a dispatch lowers it, and
`NeverStuck` that a place with steps left holds what its next
step acts on.

**DeviceMonitorProofs.**  `MonitorTypeCorrect` and `NoLostHotplugHolds`: the
invariant is inductive with the types, because each step hands a pending event on
from IOKit to the channel and from there to the deadline.  `RegistryIsLiveHolds`
assumes `DistinctKeys`, false of finding 5's twins.  `LiveInv` says of each node that
the registry has it, or an event of it is on its way with no outdated one of its device
behind it: an old event may undo the entry while later ones are sure to restore it.
`ResyncsAreOwedHolds` is the safety half of `NoFeedbackLoop`.  `Debt` counts the pending
events with IOKit and in the channel and the armed deadline; a re-sync lowers it, and
only a hotplug of interest raises it, so that between two of these there are finitely
many re-syncs.

**ResyncProofs.**  `ResyncIsSupervisor`: the composition implements the specification
of the supervisor, the two tasks being clients of its channel.  `ResyncOwnsItsKanata`
and `ResyncPublishes` carry the theorems above over; `ResyncTypeCorrect` gives the types.
`PausedStaysPausedHolds`
needs no invariant: the machine moves where an event is handled and nowhere else,
and in `Paused` the table has rows for three events.

`NoKeyboardMissedHolds` is the safety half of `ResyncReachesKanata`: while a running
kanata does not know the last keyboard change, the change is in the pipeline, or a
`Restart` is being sent, queued or handled.  It is not inductive, because the pipeline
drops the change when the snapshot does not say Running, and a queued `Restart` may meet
a machine that ignores it.  `MissedInv` adds what makes this right: then the machine is not Running,
nothing it has before it reports a spawn or a recovery that is older than the change
(`EnumeratesFirst`), and the only ways back to Running are a spawn and the recovery of the
output backend, which enumerate.  That the debounce does not fall between a spawn and its
publication is `CaughtUp`, the timing assumption of section 3.

**ConfigManagerProofs.**  `ConfigTypeCorrect`, `RunsWhatIsActiveHolds`,
`BackupOfActiveHolds`.  `RunsWhatIsActive` speaks of settled states only; the
inductive invariant is `Following`: what runs and what is being spawned is the
active target, *or a restart is pending*, that is queued or about to be sent by
a request that has changed the target.  A spawn that read its target too early is
covered because the request that overtook it has its restart still ahead.
`BackupOfActiveHolds` assumes `OneClient`, without which it is false (finding 8):
`BackupInv` says that between the two locks of a commit the request on its way
carries the active preset.  `WatchTypeCorrect` and `EditsAreLoadedHolds` are about
the watcher: kanata has the text of the active config in memory (or would be
refused), or a change is pending, at the watcher or as a restart (`WatchInv`).
`SharedDirectory`, that every file lies in the directory watched, is assumed,
and false of finding 3.  `WatchedRunsWhatIsActive` and `WatchedBackupOfActive`: the promises to the clients
survive the watcher, because all it does to what they share is to queue a restart
(`WatcherOnlyRestarts`).  `KeyboardStaysUp` is not among them: an edit that crosses the
watcher's own check stops kanata like any other that crosses one, and `raced` does not
count it.  `KeyboardStaysUpHolds` is about clients that switch between
presets (`SwitchesOnly`: no other requests, no respawn for another reason, every preset
names its binary and has no arguments, which is what is left when findings 2, 6
and 7 are set aside): whatever the supervisor is to spawn next has passed its check,
and what passed still does unless an edit crossed it (`UpInv`).

**PresetStoreProofs.**  `StoreTypeCorrect`, `StartupPickKeptHolds`,
`KeptUnlessDivergedHolds`, for any lists the user and the clients write.  The last two are
strengthened by the memory and by the lists that wait inside `reload()`: until a write
fails or crosses them, they flag the chosen preset alone (`PickKept`) and hold every
acknowledged preset (`NothingLost`).

**TraySessionProofs.**  `RelayCorrect` for the relay alone, and for relay, connection
and tray with a daemon that dies: `LinkCorrect`, `LinkTypeCorrect`,
`LayerIsConnectedHolds`, `NothingStaleHolds`.  The strengthening of the capacities is
small (`LinkInv`); the work is that a death of the daemon resets its half of the
state under a tray that has not noticed yet.

`MenuIsCurrentHolds` follows every message to its end, for any capacity of the
broadcasts and the socket.  `MenuInv` says where the news is while the stream is not
quiet.  `PhaseInv`: the place the tray has reached says which request and which frames
can be in the socket (`Sent`: written or being written), so that an answer is the only
one of its kind there.  `FactInv`: unless `missed` names it, the last event about the
state, or the layer, of its broadcast, else of the socket, has the daemon's value; with
no such event on its way the session has it.  `ListInv` and `ActiveInv`: the session,
or an answer to the refetch, is the *basis* of the presets, and what follows the basis
(a `PresetsChanged` that will fetch again, the last name applied) makes up the
difference.  Each conjunct has one lemma per way a message moves: pushed (at capacity
the oldest goes), delivered from a broadcast to the end of the socket, written, read.
In a quiet link nothing is on its way and the conjuncts say that the session is right
(`QuietShows`).  `AbsenceAssumption` only keeps the model value `None` apart from
frames and subscriptions.

**InstallerProofs.**  `LifeCorrect`: a daemon reaches `Supervising` with every kanata of
the default binary dead or a leftover; while it still scans, any other is a candidate or
the one being terminated (`LifeInv`).  `SystemCorrect`, `InstallTypeCorrect`,
`OneKanataHolds` and `LeavesNoKanataHolds` carry this through the installer, which
replaces the daemon at any time.  Nothing is assumed of root: a daemon that does not
scan has leftovers.  `ProgressCorrect` is about the
commands: what is left to do is a suffix of the command's steps (`StepsInv`), so the
number of steps passed says what has been placed (`Placed`) or removed (`Removed`: a job
passed is out, or in `kept`); `UpgradedHolds` and `NothingLeftHolds` are its last line.
`VhiddCorrect` ties what an install saw to the steps between its look and the start of
our VHID job (`VhiddInv`: a rival only where the job is ours or the list failed);
`SetUpAloneHolds` follows.
`LifeRevives` and `KeptAcrossRestartsHolds` are the refinement of RevivedKeeper.tla.
`OneKanata` is about daemons with a supervisor; a refinement needs more, that there is one
kanata at most besides leftovers at every moment (`Alone`), so that a death leaves none, a
daemon that takes over finds none, and one that is killed leaves one or none behind.  A
kanata that becomes a leftover is a death to the keeper.

**SetupAssistantProofs.**  `AssistantCorrect`, `AssistantTypeCorrect`,
`PollsOnceHolds`, `OpensOnlyUnsetHolds`, `DevicesFreshHolds`, `NeverPinsHolds`,
`HealthDelegatesHolds`.  The halves of `PollsOnce` need each other:
there is one tick at most only because a fetch under way has its tick spent, and the
next check is on its way only because the tick that is dropped leaves a fetch.  A
fetch is only on its way to a window that was built (`FetchesMade`).  For the devices
page `FreshInv` follows the answer that was read last (`Newest`): a visible page has
news ahead, a fetch that has not read yet, or the newest answer on its way or already
on the page, unless an announcement was lost or an older answer was drawn over it.  `NeverPins` rests on
`PinInv`: the step that a finished fetch of the wizard shows is the first unsatisfied one
of the facts it read at three different times (`FirstStepFinds`).  `HealthDelegates`
compares two tables case by case.

*Only model-checked.*  Liveness, since fairness and ENABLED are out of the prover's
reach: `ShutdownCompletes`, `RetriesEnd`, `OutageSurfaces`, `NoFeedbackLoop`,
`ResyncReachesKanata`, `RelayFollows`, `Settles`, `Revives`,
`ShowsTheTruth`, `GuidesToCompletion`, the second half of `OpensItself`.  Of these
`DispatchShrinks`, `NoKeyboardMissed` and `ResyncsAreOwed` are the safety halves that
could be proved; the step from a measure that falls to an end is an induction, and the
one from a step that is enabled to a step that is taken is fairness.  Every safety
property of the runs is a theorem.

## 5. What is not modelled, and what is next

* *Delay and time.*  A timer is armed or not; the exponential backoff delay of
  `backoff.rs`, the windows and the poll intervals are not numbers here.
* *Kanata child.*  Log relaying is I/O.  A fault found in the output is a choice of
  `ChildExited`; that it stays for the rest of the child's life is contained in that
  choice.
* *Control socket.*  Framing (`frame.rs`; what a dropped `next_line` loses is a
  hazard without a property), peer credentials, followed logs, and the requests of
  `kanatactl` that are one question and one answer.
* *Log ring and log parsing* (`logring.rs`, `logbuf.rs`, `kanata.rs`): a bounded queue
  of text with nothing that depends on it.
* *Preset store.*  The `[defaults]` section, written from memory with every change,
  and the load status that the doctor shows.
* *Doctor.*  A probe that cannot be run reads as a missing fact (`driver.rs:48-51`,
  `110-113`); the two differ in the wording of a check only.
* *Lifecycle.*  The socket file is not followed: a stale one is bound over, and whether
  binding fails is a choice (`BindFails`).
* *Tray.*  Drawing of menus and icons, AppKit, the login item, the instance lock, and
  the wording and rate of notifications (`notify.rs`).
* *Device monitor.*  Registration with IOKit; an interest notification that cannot be
  armed loses the removal of that device.  That a change of permissions is reported
  as an event is how the `notify` crate classifies it.
* *Helper commands* of the preflight and the probes are taken to return, although
  `query_version` has no timeout.  Under launchd a daemon that hangs there is not
  restarted either.

Next would come: a reader of frames with its cancellation, and the backoff delay and the
log ring as pure functions against reference definitions.
