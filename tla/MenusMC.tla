------------------------------ MODULE MenusMC ------------------------------
(* A box of two characters under lines of up to four, with every line      *)
(* accepted (AlwaysValid) or only those with a certain end (validURL).     *)
EXTENDS Menus, SequencesExt
CONSTANTS a, z

MCLines  == BoundedSeq({a, z}, MaxTyped)
MCChecks == {MCLines, {s \in MCLines : s # <<>> /\ Last(s) = z}}
=============================================================================
