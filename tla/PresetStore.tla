----------------------------- MODULE PresetStore -----------------------------
(***************************************************************************)
(* The preset list of kanatad: in memory behind a mutex, and in the        *)
(* presets of config.toml (configmgr.rs, kanatabar-core's config.rs).      *)
(* Every change is made in memory and then written out, both under the     *)
(* mutex, so it is one step here.  reload() parses the file before it      *)
(* takes the mutex.  The user may edit the file by hand, and the daemon    *)
(* may be restarted.                                                       *)
(***************************************************************************)
CONSTANTS
  None,         \* no active preset
  Name,         \* names of presets
  Invalid,      \* a config.toml that does not parse
  Lists,        \* preset lists that clients and the user's editor write
  Reloader,     \* connections that may be inside reload()
  WriteFails    \* whether writing config.toml may fail

(* A preset is listed or not, and at most started by the daemon.           *)
Presets == [Name -> {"absent", "manual", "autostart"}]

NoPresets == [n \in Name |-> "absent"]

Autostarted(presets) == {n \in Name : presets[n] = "autostart"}

ASSUME PresetAssumption ==
  /\ None \notin Name
  /\ Invalid \notin Presets
  /\ Lists \subseteq Presets \cup {Invalid}
  /\ WriteFails \in BOOLEAN

VARIABLES
  memory,     \* ConfigManager.file: the presets in memory
  disk,       \* config.toml
  parsed,     \* reload(): what each connection has parsed, or None
  active,     \* the active preset, or None
  acked,      \* ghost: presets that clients were told are listed
  chosen,     \* ghost: the preset a client was told starts at boot, or None
  diverged    \* ghost: a write failed, or crossed a reload

store == <<memory, disk, parsed, active, acked, chosen, diverged>>

StoreTypeOK ==
  /\ memory \in Presets
  /\ disk \in Presets \cup {Invalid}
  /\ parsed \in [Reloader -> Presets \cup {Invalid, None}]
  /\ active \in Name \cup {None}
  /\ acked \in SUBSET Name
  /\ chosen \in Name \cup {None}
  /\ diverged \in BOOLEAN

Listed(presets) == {n \in Name : presets[n] # "absent"}

-----------------------------------------------------------------------------
(* Startup: a file that does not parse counts as empty, and the autostart  *)
(* preset becomes active: the first one by name, if there are several.     *)
Loaded(file) == IF file = Invalid THEN NoPresets ELSE file

Picked(presets) ==
  IF Autostarted(presets) = {} THEN None
  ELSE CHOOSE n \in Autostarted(presets) : TRUE

StoreInit ==
  /\ disk \in Lists
  /\ memory = Loaded(disk)
  /\ parsed = [c \in Reloader |-> None]
  /\ active = Picked(memory)
  /\ acked = {}
  /\ chosen = None
  /\ diverged = FALSE

Boot ==
  /\ memory' = Loaded(disk)
  /\ parsed' = [c \in Reloader |-> None]
  /\ active' = Picked(memory')
  /\ UNCHANGED <<disk, acked, chosen, diverged>>

-----------------------------------------------------------------------------
(* A change is in memory before it is written; if that fails the client is *)
(* told so, and memory keeps it.                                           *)
Change(presets, promised, pick) ==
  /\ memory' = presets
  /\ \/ /\ disk' = presets
        /\ acked' = promised
        /\ chosen' = pick
        /\ diverged' = (diverged \/ \E c \in Reloader : parsed[c] # None)
     \/ /\ WriteFails
        /\ diverged' = TRUE
        /\ UNCHANGED <<disk, acked, chosen>>
  /\ UNCHANGED <<parsed, active>>

OnlyAutostart(presets, name) ==
  [n \in Name |-> IF n = name THEN "autostart"
                  ELSE IF presets[n] = "autostart" THEN "manual" ELSE presets[n]]

(* Without its flag, a preset is no longer the one chosen to start.        *)
ChosenBut(name) == IF chosen = name THEN None ELSE chosen

AddWithoutClearing(name) ==
  \/ Change([memory EXCEPT ![name] = "manual"], acked \cup {name}, ChosenBut(name))
  \/ Change([memory EXCEPT ![name] = "autostart"], acked \cup {name}, name)

AddAlone(name) ==
  Change([NoPresets EXCEPT ![name] = "manual"], acked \cup {name}, ChosenBut(name))

(* Adding updates; an autostart preset takes the flag from the others.     *)
(* (The variants leave it to them, or drop the others.)                    *)
AddPreset(name) ==
  \/ Change([memory EXCEPT ![name] = "manual"], acked \cup {name}, ChosenBut(name))
  \/ Change(OnlyAutostart(memory, name), acked \cup {name}, name)

RemovePreset(name) ==
  /\ memory[name] # "absent"
  /\ Change([memory EXCEPT ![name] = "absent"], acked \ {name}, ChosenBut(name))

(* Any list is accepted, one with two autostart presets too.               *)
SetPresetList ==
  \E presets \in Lists \ {Invalid} : Change(presets, Listed(presets), None)

(* Only of the active preset, if it is still listed.                       *)
SetAutostart ==
  /\ active # None
  /\ memory[active] # "absent"
  /\ \/ Change(OnlyAutostart(memory, active), acked, active)
     \/ Change([memory EXCEPT ![active] = "manual"], acked, ChosenBut(active))

(* The rest of a switch is in ConfigManager.tla.                           *)
SwitchPreset(name) ==
  /\ memory[name] # "absent"
  /\ active' = name
  /\ UNCHANGED <<memory, disk, parsed, acked, chosen, diverged>>

(* reload(): the file is parsed first; if it is valid its presets replace  *)
(* those in memory once the mutex is free.                                 *)
ReloadParses(c) ==
  /\ parsed[c] = None
  /\ parsed' = [parsed EXCEPT ![c] = disk]
  /\ UNCHANGED <<memory, disk, active, acked, chosen, diverged>>

ReloadApplies(c) ==
  /\ parsed[c] # None
  /\ memory' = IF parsed[c] = Invalid THEN memory ELSE parsed[c]
  /\ parsed' = [parsed EXCEPT ![c] = None]
  /\ UNCHANGED <<disk, active, acked, chosen, diverged>>

(* The user's editor writes any list, or breaks the file.                  *)
HandEdit ==
  /\ disk' \in Lists
  /\ acked' = acked \cap Listed(Loaded(disk'))
  /\ chosen' = IF Autostarted(Loaded(disk')) = {chosen} THEN chosen ELSE None
  /\ UNCHANGED <<memory, parsed, active, diverged>>

StoreNext ==
  \/ \E n \in Name : AddPreset(n) \/ RemovePreset(n) \/ SwitchPreset(n)
  \/ SetPresetList \/ SetAutostart
  \/ \E c \in Reloader : ReloadParses(c) \/ ReloadApplies(c)
  \/ HandEdit \/ Boot

StoreSpec == StoreInit /\ [][StoreNext]_store
-----------------------------------------------------------------------------
(* Whatever list it is set in, the preset a client chose to start at boot  *)
(* is the only one config.toml flags, and so what a restart picks, until   *)
(* its flag is taken back: the lists that the user or a client writes may  *)
(* flag several, and memory, file and reload() may be of different ages.   *)
(* (Again but for the two ways in which memory and file drift apart.)      *)
StartupPickKept ==
  \/ chosen = None
  \/ Autostarted(Loaded(disk)) = {chosen}
  \/ diverged

(* A preset a client was told is listed stays in config.toml until someone *)
(* removes it: adding preserves every other preset.  (Refuted by the two   *)
(* ways in which memory and file drift apart.)                             *)
AckedPresetsKept == acked \subseteq Listed(Loaded(disk))

(* There are no others: hand edits, broken files, reloads and restarts of  *)
(* the daemon lose no acknowledged preset.                                 *)
KeptUnlessDiverged == AckedPresetsKept \/ diverged

(* A present-but-broken config.toml is never discarded: only the user's    *)
(* editor replaces it.  (Refuted, see README.)                             *)
BrokenFileKept ==
  [][disk = Invalid /\ disk' # Invalid => HandEdit]_store
=============================================================================
