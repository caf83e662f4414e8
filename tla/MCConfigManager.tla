--------------------------- MODULE MCConfigManager ---------------------------
(***************************************************************************)
(* Model checking of ConfigManager.tla: two user files, and a preset for   *)
(* each.  A file holds a text for the stock kanata, one for a custom build *)
(* with an argument of its own, or one that no kanata accepts.             *)
(***************************************************************************)
EXTENDS ConfigManager, FiniteSets

CONSTANTS f, g, p, q, r, stock, custom, none, extra, plain, fancy, broken, empty

Files == {f, g}

Presets == {p, q}

Texts == {plain, fancy, broken, empty}

(* Presets that name their binary, of one kind each.                       *)
OwnDefinitions ==
  [x \in Presets |->
     IF x = p THEN [config |-> f, bin |-> stock, args |-> none]
              ELSE [config |-> g, bin |-> custom, args |-> none]]

(* A preset that leaves the binary to the default, and one with a binary   *)
(* and an argument of its own.                                             *)
LooseDefinitions ==
  [x \in Presets |->
     IF x = p THEN [config |-> f, bin |-> None, args |-> none]
              ELSE [config |-> g, bin |-> custom, args |-> extra]]

(* One more that names its binary as "".                                   *)
MorePresets == {p, q, r}

MoreDefinitions ==
  [x \in MorePresets |->
     IF x = r THEN [config |-> f, bin |-> NoBinary, args |-> none]
              ELSE LooseDefinitions[x]]

StockAccepts == {<<stock, none, plain>>}

(* The custom build takes any arguments.                                   *)
CustomAccepts == {<<custom, a, fancy>> : a \in {none, extra}}

OwnAccepts == StockAccepts \cup CustomAccepts
=============================================================================
