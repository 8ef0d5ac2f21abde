------------------------ MODULE MCUnfinalizedBlocks ------------------------
(***************************************************************************)
(* Small block trees for model checking UnfinalizedBlocks.  A block is     *)
(* named after its branch and its slot.                                    *)
(***************************************************************************)
EXTENDS UnfinalizedBlocks

SlotOf == [g1 |-> 1, a2 |-> 2, a3 |-> 3, a4 |-> 4,
           b3 |-> 3, b4 |-> 4, b5 |-> 5, b6 |-> 6,
           c3 |-> 3, c4 |-> 4, c5 |-> 5, c6 |-> 6, d5 |-> 5]

\* The branches of a tree with parent function up.
Branches(up) ==
  LET anc[b \in DOMAIN up] == IF up[b] = None THEN {b} ELSE {b} \cup anc[up[b]]
  IN  anc

SlotsOf(up) == [b \in DOMAIN up |-> SlotOf[b]]

\* Two branches that part after slot 2: a3 a4, and b3 b5 with slot 4 skipped.
ForkParent == [g1 |-> None, a2 |-> "g1", a3 |-> "a2", a4 |-> "a3",
               b3 |-> "a2", b5 |-> "b3"]
ForkBlocks == DOMAIN ForkParent
ForkSlot   == SlotsOf(ForkParent)
ForkAnc    == Branches(ForkParent)

\* Three branches that part after slot 2.  Every slot of one has a block on the
\* others; slot 5 is skipped.
WideParent == [g1 |-> None, a2 |-> "g1", a3 |-> "a2", a4 |-> "a3",
               b3 |-> "a2", b4 |-> "b3", b6 |-> "b4",
               c3 |-> "a2", c4 |-> "c3", c6 |-> "c4"]
WideBlocks == DOMAIN WideParent
WideSlot   == SlotsOf(WideParent)
WideAnc    == Branches(WideParent)

\* a3 has two children, a4 and d5; b3 b6 is the branch that becomes final.
TwinParent == [g1 |-> None, a2 |-> "g1", a3 |-> "a2", a4 |-> "a3", d5 |-> "a3",
               b3 |-> "a2", b6 |-> "b3"]
TwinBlocks == DOMAIN TwinParent
TwinSlot   == SlotsOf(TwinParent)
TwinAnc    == Branches(TwinParent)

\* The branch that becomes final has no block in slot 3.
SkipParent == [g1 |-> None, a2 |-> "g1", a3 |-> "a2",
               c4 |-> "a2", c5 |-> "c4", c6 |-> "c5"]
SkipBlocks == DOMAIN SkipParent
SkipSlot   == SlotsOf(SkipParent)
SkipAnc    == Branches(SkipParent)
==============================================================================
