-------------------------- MODULE PresetStoreProofs --------------------------
(***************************************************************************)
(* Theorems about PresetStore.tla, for every set of names, every set of    *)
(* lists that clients and the user may write, and any number of reloads.   *)
(***************************************************************************)
EXTENDS PresetStore, TLAPS

LEMMA LoadedType ==
  ASSUME NEW file \in Presets \cup {Invalid}
  PROVE  Loaded(file) \in Presets
BY DEF Loaded, NoPresets, Presets

LEMMA PickedType ==
  ASSUME NEW presets \in Presets
  PROVE  Picked(presets) \in Name \cup {None}
BY DEF Picked, Autostarted

LEMMA OnlyAutostartType ==
  ASSUME NEW presets \in Presets, NEW name \in Name
  PROVE  OnlyAutostart(presets, name) \in Presets
BY DEF OnlyAutostart, Presets

LEMMA ChosenButType ==
  ASSUME StoreTypeOK, NEW name
  PROVE  ChosenBut(name) \in Name \cup {None}
BY DEF ChosenBut, StoreTypeOK

(* What every change of the list writes has its type, whatever it is.      *)
LEMMA ChangeType ==
  ASSUME StoreTypeOK, NEW presets \in Presets, NEW promised \in SUBSET Name,
         NEW pick \in Name \cup {None}, Change(presets, promised, pick)
  PROVE  StoreTypeOK'
BY PresetAssumption DEF StoreTypeOK, Change

(* The preset list, the file and the parsed files are of their types.      *)
THEOREM StoreTypeCorrect == StoreSpec => []StoreTypeOK
<1>1. StoreInit => StoreTypeOK
  BY PresetAssumption, LoadedType, PickedType DEF StoreInit, StoreTypeOK
<1>2. ASSUME StoreTypeOK, [StoreNext]_store
      PROVE  StoreTypeOK'
  <2> USE <1>2
  <2>1. ASSUME NEW n \in Name, AddPreset(n)
        PROVE  StoreTypeOK'
    <3>1. /\ [memory EXCEPT ![n] = "manual"] \in Presets
          /\ acked \cup {n} \in SUBSET Name
      BY DEF StoreTypeOK, Presets
    <3>2. OnlyAutostart(memory, n) \in Presets
      BY OnlyAutostartType DEF StoreTypeOK
    <3>3. QED
      BY <2>1, <3>1, <3>2, ChosenButType, ChangeType DEF AddPreset
  <2>2. ASSUME NEW n \in Name, RemovePreset(n)
        PROVE  StoreTypeOK'
    <3>1. /\ [memory EXCEPT ![n] = "absent"] \in Presets
          /\ acked \ {n} \in SUBSET Name
      BY DEF StoreTypeOK, Presets
    <3>2. QED
      BY <2>2, <3>1, ChosenButType, ChangeType DEF RemovePreset
  <2>3. ASSUME NEW n \in Name, SwitchPreset(n)
        PROVE  StoreTypeOK'
    BY <2>3 DEF SwitchPreset, StoreTypeOK
  <2>4. CASE SetPresetList
    <3>1. PICK presets \in Lists \ {Invalid} :
            Change(presets, Listed(presets), None)
      BY <2>4 DEF SetPresetList
    <3>2. presets \in Presets /\ Listed(presets) \in SUBSET Name
      BY PresetAssumption DEF Listed
    <3>3. QED
      BY <3>1, <3>2, ChangeType
  <2>5. CASE SetAutostart
    <3>1. active \in Name /\ acked \in SUBSET Name
      BY <2>5 DEF SetAutostart, StoreTypeOK
    <3>2. /\ OnlyAutostart(memory, active) \in Presets
          /\ [memory EXCEPT ![active] = "manual"] \in Presets
      BY <3>1, OnlyAutostartType DEF StoreTypeOK, Presets
    <3>3. QED
      BY <2>5, <3>1, <3>2, ChosenButType, ChangeType DEF SetAutostart
  <2>6. ASSUME NEW c \in Reloader, ReloadParses(c)
        PROVE  StoreTypeOK'
    BY <2>6 DEF ReloadParses, StoreTypeOK
  <2>7. ASSUME NEW c \in Reloader, ReloadApplies(c)
        PROVE  StoreTypeOK'
    BY <2>7 DEF ReloadApplies, StoreTypeOK
  <2>8. CASE HandEdit
    BY <2>8, PresetAssumption DEF HandEdit, StoreTypeOK
  <2>9. CASE Boot
    <3>1. memory' \in Presets
      BY <2>9, LoadedType DEF Boot, StoreTypeOK
    <3>2. active' \in Name \cup {None}
      BY <2>9, <3>1, PickedType DEF Boot
    <3>3. QED
      BY <2>9, <3>1, <3>2 DEF Boot, StoreTypeOK
  <2>10. CASE UNCHANGED store
    BY <2>10 DEF store, StoreTypeOK
  <2>11. QED
    BY <1>2, <2>1, <2>2, <2>3, <2>4, <2>5, <2>6, <2>7, <2>8, <2>9, <2>10
       DEF StoreNext
<1>3. QED
  BY <1>1, <1>2, PTL DEF StoreSpec

-----------------------------------------------------------------------------
(* The flag of the chosen preset is the only one wherever the next list    *)
(* comes from: memory, the file, and the lists that wait in reload().      *)
Flagged(file) == Autostarted(Loaded(file)) = {chosen}

PickKept ==
  /\ Autostarted(memory) = {chosen}
  /\ Flagged(disk)
  /\ \A c \in Reloader : parsed[c] # None => Flagged(parsed[c])

PickKeptOrNot == chosen = None \/ diverged \/ PickKept

LEMMA OnlyAutostartFlags ==
  ASSUME NEW presets \in Presets, NEW name \in Name
  PROVE  Autostarted(OnlyAutostart(presets, name)) = {name}
BY DEF Autostarted, OnlyAutostart, Presets

(* Taking a flag back leaves the chosen preset's, unless it is that one.   *)
LEMMA ClearedFlags ==
  ASSUME NEW presets \in Presets, NEW name \in Name,
         NEW flag \in {"absent", "manual"}
  PROVE  Autostarted([presets EXCEPT ![name] = flag]) = Autostarted(presets) \ {name}
BY DEF Autostarted, Presets

(* A change keeps the pick if its own list flags nothing else.             *)
LEMMA ChangeKeepsPick ==
  ASSUME PickKeptOrNot, NEW presets \in Presets, NEW promised, NEW pick,
         Change(presets, promised, pick),
         ~diverged /\ pick # None => Autostarted(presets) = {pick}
  PROVE  PickKeptOrNot'
<1>1. CASE diverged' \/ chosen' = None
  BY <1>1 DEF PickKeptOrNot
<1>2. CASE ~diverged' /\ chosen' # None
  <2>1. /\ memory' = presets /\ disk' = presets /\ chosen' = pick
        /\ parsed' = parsed /\ \A c \in Reloader : parsed[c] = None
        /\ ~diverged
    BY <1>2 DEF Change
  <2>2. Loaded(presets) = presets
    BY PresetAssumption DEF Loaded
  <2>3. Autostarted(presets) = {pick}
    BY <1>2, <2>1
  <2>4. PickKept'
    BY <2>1, <2>2, <2>3 DEF PickKept, Flagged, Autostarted, Loaded
  <2>5. QED
    BY <2>4 DEF PickKeptOrNot
<1>3. QED
  BY <1>1, <1>2

(* The same for a change that takes the flag of one preset back.           *)
LEMMA ClearingKeepsPick ==
  ASSUME StoreTypeOK, PickKeptOrNot, NEW name \in Name, NEW promised,
         NEW flag \in {"absent", "manual"},
         Change([memory EXCEPT ![name] = flag], promised, ChosenBut(name))
  PROVE  PickKeptOrNot'
<1> DEFINE cleared == [memory EXCEPT ![name] = flag]
<1>1. memory \in Presets /\ cleared \in Presets
  BY DEF StoreTypeOK, Presets
<1>2. Autostarted(cleared) = Autostarted(memory) \ {name}
  BY <1>1, ClearedFlags
<1>3. ASSUME ~diverged, ChosenBut(name) # None
      PROVE  Autostarted(cleared) = {ChosenBut(name)}
  <2>1. chosen # name /\ ChosenBut(name) = chosen /\ chosen # None
    BY <1>3 DEF ChosenBut
  <2>2. Autostarted(memory) = {chosen}
    BY <1>3, <2>1 DEF PickKeptOrNot, PickKept
  <2>3. QED
    BY <1>2, <2>1, <2>2
<1>4. Change(cleared, promised, ChosenBut(name))
  OBVIOUS
<1> HIDE DEF cleared
<1>5. QED
  BY <1>1, <1>3, <1>4, ChangeKeepsPick

(* A restart picks the preset a client chose last, whichever lists the     *)
(* user and the clients write, until its flag is taken back.               *)
THEOREM StartupPickKeptHolds == StoreSpec => []StartupPickKept
<1>1. StoreInit => PickKeptOrNot
  BY DEF StoreInit, PickKeptOrNot
<1>2. ASSUME StoreTypeOK, PickKeptOrNot, [StoreNext]_store
      PROVE  PickKeptOrNot'
  <2> USE <1>2
  <2>1. memory \in Presets
    BY DEF StoreTypeOK
  <2>2. ASSUME NEW n \in Name, AddPreset(n)
        PROVE  PickKeptOrNot'
    <3>1. OnlyAutostart(memory, n) \in Presets
      BY <2>1, OnlyAutostartType
    <3>2. Autostarted(OnlyAutostart(memory, n)) = {n}
      BY <2>1, OnlyAutostartFlags
    <3>3. CASE Change(OnlyAutostart(memory, n), acked \cup {n}, n)
      BY <3>1, <3>2, <3>3, ChangeKeepsPick
    <3>4. CASE Change([memory EXCEPT ![n] = "manual"], acked \cup {n}, ChosenBut(n))
      BY <3>4, ClearingKeepsPick
    <3>5. QED
      BY <2>2, <3>3, <3>4 DEF AddPreset
  <2>3. ASSUME NEW n \in Name, RemovePreset(n)
        PROVE  PickKeptOrNot'
    BY <2>3, ClearingKeepsPick DEF RemovePreset
  <2>4. ASSUME NEW n \in Name, SwitchPreset(n)
        PROVE  PickKeptOrNot'
    BY <2>4 DEF SwitchPreset, PickKeptOrNot, PickKept, Flagged, Autostarted, Loaded
  <2>5. CASE SetPresetList
    <3>1. PICK presets \in Lists \ {Invalid} :
            Change(presets, Listed(presets), None)
      BY <2>5 DEF SetPresetList
    <3>2. presets \in Presets
      BY PresetAssumption
    <3>3. QED
      BY <3>1, <3>2, ChangeKeepsPick
  <2>6. CASE SetAutostart
    <3>1. active \in Name
      BY <2>6 DEF SetAutostart, StoreTypeOK
    <3>2. /\ OnlyAutostart(memory, active) \in Presets
          /\ Autostarted(OnlyAutostart(memory, active)) = {active}
      BY <2>1, <3>1, OnlyAutostartType, OnlyAutostartFlags
    <3>3. CASE Change(OnlyAutostart(memory, active), acked, active)
      BY <3>2, <3>3, ChangeKeepsPick
    <3>4. CASE Change([memory EXCEPT ![active] = "manual"], acked, ChosenBut(active))
      BY <3>1, <3>4, ClearingKeepsPick
    <3>5. QED
      BY <2>6, <3>3, <3>4 DEF SetAutostart
  <2>7. ASSUME NEW c \in Reloader, ReloadParses(c)
        PROVE  PickKeptOrNot'
    <3>1. /\ \A d \in Reloader : parsed'[d] \in {parsed[d], disk}
          /\ UNCHANGED <<memory, disk, chosen, diverged>>
      BY <2>7 DEF ReloadParses, StoreTypeOK
    <3>2. QED
      BY <3>1 DEF PickKeptOrNot, PickKept, Flagged, Autostarted, Loaded
  <2>8. ASSUME NEW c \in Reloader, ReloadApplies(c)
        PROVE  PickKeptOrNot'
    <3>1. /\ \A d \in Reloader : parsed'[d] \in {parsed[d], None}
          /\ UNCHANGED <<disk, chosen, diverged>>
      BY <2>8 DEF ReloadApplies, StoreTypeOK
    <3>2. PickKept => Autostarted(memory') = {chosen}
      BY <2>8 DEF ReloadApplies, PickKept, Flagged, Loaded
    <3>3. QED
      BY <3>1, <3>2 DEF PickKeptOrNot, PickKept, Flagged, Autostarted, Loaded
  <2>9. CASE HandEdit
    <3>1. /\ chosen' \in {chosen, None}
          /\ chosen' = chosen /\ chosen # None => Autostarted(Loaded(disk')) = {chosen}
          /\ UNCHANGED <<memory, parsed, diverged>>
      BY <2>9 DEF HandEdit
    <3>2. QED
      BY <3>1 DEF PickKeptOrNot, PickKept, Flagged, Autostarted, Loaded
  <2>10. CASE Boot
    <3>1. /\ memory' = Loaded(disk)
          /\ \A c \in Reloader : parsed'[c] = None
          /\ UNCHANGED <<disk, chosen, diverged>>
      BY <2>10 DEF Boot
    <3>2. QED
      BY <3>1 DEF PickKeptOrNot, PickKept, Flagged, Autostarted, Loaded
  <2>11. CASE UNCHANGED store
    BY <2>11 DEF store, PickKeptOrNot, PickKept, Flagged, Autostarted, Loaded
  <2>12. QED
    BY <1>2, <2>2, <2>3, <2>4, <2>5, <2>6, <2>7, <2>8, <2>9, <2>10, <2>11
       DEF StoreNext
<1>3. PickKeptOrNot => StartupPickKept
  BY DEF PickKeptOrNot, PickKept, Flagged, StartupPickKept
<1>4. QED
  BY <1>1, <1>2, <1>3, StoreTypeCorrect, PTL DEF StoreSpec

-----------------------------------------------------------------------------
(* Until memory and file drift apart, the acknowledged presets are in both *)
(* and in every list that waits in reload().                               *)
NothingLost ==
  /\ acked \subseteq Listed(memory)
  /\ acked \subseteq Listed(Loaded(disk))
  /\ \A c \in Reloader : parsed[c] \notin {None, Invalid} => acked \subseteq Listed(parsed[c])

KeptOrDiverged == NothingLost \/ diverged

(* A change keeps what it promises if it keeps it in its own list.         *)
LEMMA ChangeKeeps ==
  ASSUME StoreTypeOK, KeptOrDiverged, NEW presets \in Presets, NEW promised,
         NEW pick, Change(presets, promised, pick),
         NothingLost => promised \subseteq Listed(presets)
  PROVE  KeptOrDiverged'
<1>1. CASE diverged'
  BY <1>1 DEF KeptOrDiverged
<1>2. CASE ~diverged'
  <2>1. /\ NothingLost
        /\ memory' = presets /\ disk' = presets /\ acked' = promised
        /\ parsed' = parsed /\ \A c \in Reloader : parsed[c] = None
    BY <1>2 DEF Change, KeptOrDiverged
  <2>2. Loaded(presets) = presets
    BY PresetAssumption DEF Loaded
  <2>3. NothingLost'
    BY <2>1, <2>2 DEF NothingLost, Listed, Loaded
  <2>4. QED
    BY <2>3 DEF KeptOrDiverged
<1>3. QED
  BY <1>1, <1>2

LEMMA OnlyAutostartListed ==
  ASSUME NEW presets \in Presets, NEW name \in Name
  PROVE  Listed(OnlyAutostart(presets, name)) = Listed(presets) \cup {name}
BY DEF Listed, OnlyAutostart, Presets

LEMMA ManualListed ==
  ASSUME NEW presets \in Presets, NEW name \in Name
  PROVE  Listed([presets EXCEPT ![name] = "manual"]) = Listed(presets) \cup {name}
BY DEF Listed, Presets

(* No acknowledged preset is lost in any other way than by a failed write  *)
(* or a write that crosses a reload.                                       *)
THEOREM KeptUnlessDivergedHolds == StoreSpec => []KeptUnlessDiverged
<1>1. StoreInit => KeptOrDiverged
  BY DEF StoreInit, KeptOrDiverged, NothingLost
<1>2. ASSUME StoreTypeOK, KeptOrDiverged, [StoreNext]_store
      PROVE  KeptOrDiverged'
  <2> USE <1>2
  <2>1. memory \in Presets
    BY DEF StoreTypeOK
  <2>2. ASSUME NEW n \in Name, AddPreset(n)
        PROVE  KeptOrDiverged'
    <3>1. /\ [memory EXCEPT ![n] = "manual"] \in Presets
          /\ OnlyAutostart(memory, n) \in Presets
      BY <2>1, OnlyAutostartType DEF Presets
    <3>2. NothingLost =>
            /\ acked \cup {n} \subseteq Listed([memory EXCEPT ![n] = "manual"])
            /\ acked \cup {n} \subseteq Listed(OnlyAutostart(memory, n))
      BY <2>1, ManualListed, OnlyAutostartListed DEF NothingLost
    <3>3. QED
      BY <2>2, <3>1, <3>2, ChangeKeeps DEF AddPreset
  <2>3. ASSUME NEW n \in Name, RemovePreset(n)
        PROVE  KeptOrDiverged'
    <3>1. /\ [memory EXCEPT ![n] = "absent"] \in Presets
          /\ Listed([memory EXCEPT ![n] = "absent"]) = Listed(memory) \ {n}
      BY <2>1 DEF Presets, Listed
    <3>2. NothingLost => acked \ {n} \subseteq Listed([memory EXCEPT ![n] = "absent"])
      BY <3>1 DEF NothingLost
    <3>3. QED
      BY <2>3, <3>1, <3>2, ChangeKeeps DEF RemovePreset
  <2>4. ASSUME NEW n \in Name, SwitchPreset(n)
        PROVE  KeptOrDiverged'
    BY <2>4 DEF SwitchPreset, KeptOrDiverged, NothingLost, Listed, Loaded
  <2>5. CASE SetPresetList
    <3>1. PICK presets \in Lists \ {Invalid} :
            Change(presets, Listed(presets), None)
      BY <2>5 DEF SetPresetList
    <3>2. QED
      BY <3>1, PresetAssumption, ChangeKeeps
  <2>6. CASE SetAutostart
    <3>1. active \in Name /\ memory[active] # "absent"
      BY <2>6 DEF SetAutostart, StoreTypeOK
    <3>2. /\ [memory EXCEPT ![active] = "manual"] \in Presets
          /\ OnlyAutostart(memory, active) \in Presets
      BY <2>1, <3>1, OnlyAutostartType DEF Presets
    <3>3. NothingLost =>
            /\ acked \subseteq Listed([memory EXCEPT ![active] = "manual"])
            /\ acked \subseteq Listed(OnlyAutostart(memory, active))
      BY <2>1, <3>1, ManualListed, OnlyAutostartListed DEF NothingLost
    <3>4. QED
      BY <2>6, <3>2, <3>3, ChangeKeeps DEF SetAutostart
  <2>7. ASSUME NEW c \in Reloader, ReloadParses(c)
        PROVE  KeptOrDiverged'
    <3>1. /\ \A d \in Reloader : parsed'[d] \in {parsed[d], disk}
          /\ UNCHANGED <<memory, disk, acked, diverged>>
      BY <2>7 DEF ReloadParses, StoreTypeOK
    <3>2. NothingLost => (disk # Invalid => acked \subseteq Listed(disk))
      BY DEF NothingLost, Loaded
    <3>3. QED
      BY <3>1, <3>2 DEF KeptOrDiverged, NothingLost, Listed, Loaded
  <2>8. ASSUME NEW c \in Reloader, ReloadApplies(c)
        PROVE  KeptOrDiverged'
    <3>1. /\ \A d \in Reloader : parsed'[d] \in {parsed[d], None}
          /\ UNCHANGED <<disk, acked, diverged>>
      BY <2>8 DEF ReloadApplies, StoreTypeOK
    <3>2. NothingLost => acked \subseteq Listed(memory')
      BY <2>8 DEF ReloadApplies, NothingLost
    <3>3. QED
      BY <3>1, <3>2 DEF KeptOrDiverged, NothingLost, Listed, Loaded
  <2>9. CASE HandEdit
    <3>1. /\ acked' \subseteq acked /\ acked' \subseteq Listed(Loaded(disk'))
          /\ UNCHANGED <<memory, parsed, diverged>>
      BY <2>9 DEF HandEdit
    <3>2. QED
      BY <3>1 DEF KeptOrDiverged, NothingLost, Listed, Loaded
  <2>10. CASE Boot
    <3>1. /\ memory' = Loaded(disk)
          /\ \A c \in Reloader : parsed'[c] = None
          /\ UNCHANGED <<disk, acked, diverged>>
      BY <2>10 DEF Boot
    <3>2. QED
      BY <3>1 DEF KeptOrDiverged, NothingLost, Listed, Loaded
  <2>11. CASE UNCHANGED store
    BY <2>11 DEF store, KeptOrDiverged, NothingLost, Listed, Loaded
  <2>12. QED
    BY <1>2, <2>2, <2>3, <2>4, <2>5, <2>6, <2>7, <2>8, <2>9, <2>10, <2>11
       DEF StoreNext
<1>3. KeptOrDiverged => KeptUnlessDiverged
  BY DEF KeptOrDiverged, NothingLost, KeptUnlessDiverged, AckedPresetsKept
<1>4. QED
  BY <1>1, <1>2, <1>3, StoreTypeCorrect, PTL DEF StoreSpec
=============================================================================
