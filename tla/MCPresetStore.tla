---------------------------- MODULE MCPresetStore ----------------------------
(***************************************************************************)
(* Model checking of PresetStore.tla with three presets.  The lists that   *)
(* the user and the clients write have none, one or two autostart presets, *)
(* or the file is broken; the third preset is flagged by commands only.    *)
(***************************************************************************)
EXTENDS PresetStore

CONSTANT c

UpToTwo == {presets \in Presets : presets[c] # "autostart"} \cup {Invalid}
=============================================================================
