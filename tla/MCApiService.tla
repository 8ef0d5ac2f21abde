---------------------------- MODULE MCApiService ----------------------------
(***************************************************************************)
(* Two branches from slot 1 on, behind two nodes; a block is named after   *)
(* its branch and its slot.                                                *)
(***************************************************************************)
EXTENDS ApiService

\* Both branches have a block in slot 3, after a skipped slot; one of them skips
\* slot 4.
ForkParent == [s1 |-> None, a3 |-> "s1", a5 |-> "a3", b3 |-> "s1", b4 |-> "b3"]
ForkSlot   == [s1 |-> 1, a3 |-> 3, a5 |-> 5, b3 |-> 3, b4 |-> 4]
ForkAnc    == [s1 |-> {"s1"}, a3 |-> {"s1", "a3"}, a5 |-> {"s1", "a3", "a5"},
               b3 |-> {"s1", "b3"}, b4 |-> {"s1", "b3", "b4"}]
ForkBlocks == DOMAIN ForkParent

\* Two endpoints of the project's chain and one of another.
EndpointSet == {"e1", "e2", "e3"}
Genesis     == [e1 |-> "g1", e2 |-> "g1", e3 |-> "g2"]

\* With a slot that one branch skips, and one that the nodes no longer keep.
BatchSet == {<<3, 5>>, <<4, 3>>, <<5, 1>>}

\* Two nodes behind one endpoint.
OneEndpoint == {"e1"}
==============================================================================
