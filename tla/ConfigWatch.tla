----------------------------- MODULE ConfigWatch -----------------------------
(***************************************************************************)
(* The file watch of kanatad (watch.rs) on top of the config manager: file *)
(* events of one directory on an unbounded channel, a debounce, and        *)
(* reload_active(), which restarts kanata if the active config still       *)
(* passes its checks.  Watching the directory rather than the file catches *)
(* editors that replace the file.                                          *)
(***************************************************************************)
EXTENDS ConfigManager

CONSTANTS
  Directory    \* Directory[path]: the directory the file is in

ASSUME WatchAssumption == DOMAIN Directory = Path

VARIABLES
  watched,     \* the directory watched
  changes,     \* the channel: files reported as changed, in no order
  watcher,     \* the watch task: where it is, and the target it reloads
  loaded       \* ghost: what the config of the running kanata held

watch == <<watched, changes, watcher, loaded>>
watching == <<config, watch>>

WatchTypeOK ==
  /\ ConfigTypeOK
  /\ watched \in {Directory[path] : path \in Path}
  /\ changes \in SUBSET Path
  /\ watcher \in [at : {"Idle", "Debouncing", "Checking", "Refused",
                         "Sending"},
                  target : Target]
  /\ loaded \in Text

WatchInit ==
  /\ ConfigInit
  /\ watched = Directory[active.target.cfg]
  /\ changes = {}
  /\ watcher = [at |-> "Idle", target |-> active.target]
  /\ loaded = SafeText

-----------------------------------------------------------------------------
(* Whatever the user or the manager writes in the watched directory is     *)
(* reported, a change of permissions too: it is a kind of Modify.  kanata  *)
(* reads its config when it is spawned.                                    *)
Touched(path) == text'[path] # text[path] \/ (path \in loose') # (path \in loose)

Reported == {path \in Path : Touched(path) /\ Directory[path] = watched}

ManagerStep ==
  /\ ConfigNext
  /\ changes' = changes \cup Reported
  /\ loaded' = IF spawner.at = "Spawning" /\ spawner'.at = "Idle" /\ running' # None
               THEN text[spawner.target.cfg] ELSE loaded
  /\ UNCHANGED <<watched, watcher>>

WatcherAt(place) == watcher.at = place

WatcherGoes(place) == watcher' = [watcher EXCEPT !.at = place]

(* Files of another name are ignored.                                      *)
IgnoreChange ==
  /\ WatcherAt("Idle")
  /\ \E path \in changes \ {active.target.cfg} : changes' = changes \ {path}
  /\ UNCHANGED <<config, watched, watcher, loaded>>

NoticeChange ==
  /\ WatcherAt("Idle")
  /\ active.target.cfg \in changes
  /\ changes' = changes \ {active.target.cfg}
  /\ WatcherGoes("Debouncing")
  /\ UNCHANGED <<config, watched, loaded>>

(* More events restart the debounce and are swallowed by it.               *)
SwallowChanges ==
  /\ WatcherAt("Debouncing")
  /\ changes # {}
  /\ changes' = {}
  /\ UNCHANGED <<config, watched, watcher, loaded>>

(* The directory is quiet: reload_active() reads the target and vets it.   *)
Rearm == watched' = Directory[active.target.cfg]

Fit(target) == target.vetted => Vetted(target.cfg)

ReloadBegins ==
  /\ WatcherAt("Debouncing")
  /\ changes = {}
  /\ \/ /\ Fit(active.target)
        /\ watcher' = [at |-> "Checking", target |-> active.target]
        /\ UNCHANGED watched
     \/ /\ ~Fit(active.target)
        /\ WatcherGoes("Idle")
        /\ Rearm
  /\ UNCHANGED <<config, changes, loaded>>

Passes(target) == Checked(target.bin, target.args, target.cfg)

ReloadPasses ==
  /\ WatcherAt("Checking")
  /\ Passes(watcher.target)
  /\ WatcherGoes("Sending")
  /\ UNCHANGED <<config, watched, changes, loaded>>

ReloadRefused ==
  /\ WatcherAt("Checking")
  /\ ~Passes(watcher.target)
  /\ WatcherGoes("Refused")
  /\ UNCHANGED <<config, watched, changes, loaded>>

ReloadEndsSwept ==
  /\ WatcherAt("Refused")
  /\ WatcherGoes("Idle")
  /\ Rearm
  /\ changes' = {}
  /\ UNCHANGED <<config, loaded>>

(* A refused edit is left alone.  (The variant takes whatever was reported *)
(* during the check for seen.)                                             *)
ReloadEnds ==
  /\ WatcherAt("Refused")
  /\ WatcherGoes("Idle")
  /\ Rearm
  /\ UNCHANGED <<config, changes, loaded>>

ReloadSends ==
  /\ WatcherAt("Sending")
  /\ restarts < RestartCap
  /\ restarts' = restarts + 1
  /\ WatcherGoes("Idle")
  /\ Rearm
  /\ UNCHANGED <<text, loose, active, client, spawner, running, raced, changes,
                 loaded>>

WatchNext ==
  \/ ManagerStep
  \/ IgnoreChange \/ NoticeChange \/ SwallowChanges
  \/ ReloadBegins \/ ReloadPasses \/ ReloadRefused
  \/ ReloadEnds \/ ReloadSends

WatchSpec == WatchInit /\ [][WatchNext]_watching
-----------------------------------------------------------------------------
(* No edit is missed: once nothing is under way any more, kanata runs what *)
(* the active config holds now, or that would be refused.  An edit during  *)
(* the debounce, during the check, or while another request switches the   *)
(* active config is seen by a later check or by the spawn.                 *)
EditsAreLoaded ==
  (Settled /\ WatcherAt("Idle") /\ changes = {} /\ running # None) =>
    \/ loaded = text[active.target.cfg]
    \/ ~Fit(active.target)
    \/ ~Passes(active.target)
=============================================================================
