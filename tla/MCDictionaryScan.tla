--------------------------- MODULE MCDictionaryScan ---------------------------
(* A chain for the runs of DictionaryScan: slots 3, 6 and 7 are skipped.      *)
EXTENDS DictionaryScan, FiniteSetsExt

MCSlots == {1, 2, 4, 5, 8, 9}
MCParentSlot == [ s \in MCSlots |-> Max({0} \cup { t \in MCSlots : t < s }) ]
===============================================================================
