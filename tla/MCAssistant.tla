------------------------------ MODULE MCAssistant ------------------------------
(* Instances of SetupAssistant.tla: a machine with nothing on it but       *)
(* kanata, one with everything, one that lacks a grant, and one with       *)
(* Karabiner-Elements.                                                     *)
EXTENDS SetupAssistant

Sound == {"probe", "binary", "config", "file", "socket"}

Fresh == Sound
Complete ==
  Sound \cup Grant \cup
    {"package", "requested", "approved", "ours", "vhidd", "service", "presets"}
Elements == Sound \cup {"package", "requested", "other", "vhidd", "service", "kbds"}

NoAccess == Complete \ {"accessibility"}

Scene(facts, running, used, pages) ==
  [facts |-> facts, up |-> running, moves |-> used, opens |-> pages]

MCScenes ==
  {Scene(Fresh, FALSE, 1, {"Wizard"}),
   Scene(NoAccess, TRUE, 1, {"Health", "Wizard"}),
   Scene(Complete, FALSE, 0, {"Wizard"}),
   Scene(Complete, TRUE, 0, {"Devices"}),
   Scene(Elements, TRUE, 0, {"Wizard"})}

BareScenes == {Scene(Complete, FALSE, 0, {"Wizard"})}
MCFlips == {"vhidd"}
MCSlot == 1..2
=============================================================================
