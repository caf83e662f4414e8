---------------------------- MODULE MCConfigWatch ----------------------------
(***************************************************************************)
(* Model checking of ConfigWatch.tla: one user file and its preset, and    *)
(* the safe config; all files in one directory, or the user's, the safe    *)
(* config and the backups in one each.                                     *)
(***************************************************************************)
EXTENDS ConfigWatch

CONSTANTS f, p, stock, none, plain, fancy, broken, empty

Files == {f}

Presets == {p}

Texts == {plain, fancy, broken, empty}

Definitions ==
  [x \in Presets |-> [config |-> f, bin |-> None, args |-> none]]

AcceptsBoth == {<<stock, none, plain>>, <<stock, none, fancy>>}

OneDirectory == [path \in Path |-> "here"]

OwnDirectories == [path \in Path |-> path[1]]
=============================================================================
