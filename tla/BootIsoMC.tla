------------------------------ MODULE BootIsoMC ------------------------------
(* One ISO whose two configs share a kernel, one that is parsed and has a  *)
(* config of its own with the same path for kernel and initrd, one that is *)
(* only parsed, and one with nothing.                                      *)
EXTENDS BootIso
CONSTANTS live, both, grub, empty, p, q, r

MCIsos   == {live, both, grub, empty}
MCCount  == [x \in MCIsos |-> IF x = live THEN 2 ELSE IF x = both THEN 1 ELSE 0]
MCKernel == [x \in MCIsos |-> [i \in 1..MCCount[x] |-> p]]
MCInitrd == [x \in MCIsos |->
                [i \in 1..MCCount[x] |-> IF x = both THEN p ELSE IF i = 1 THEN q ELSE r]]
=============================================================================
