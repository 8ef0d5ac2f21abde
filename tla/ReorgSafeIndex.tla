--------------------------- MODULE ReorgSafeIndex ---------------------------
(***************************************************************************)
(* What an indexer of a chain that may reorganise promises, whatever it    *)
(* records to keep the promise: data is only ever added for a block that   *)
(* builds on everything in the store, and removed only by going back to a  *)
(* final block of which everything that is left is an ancestor.            *)
(***************************************************************************)
EXTENDS SolanaChain

VARIABLE store  \* the blocks whose data is in the store

indexVars == <<chainVars, store>>

IndexInit == ChainInit /\ store = {}

\* The data of one more block is added on top of the branch in the store.
Index ==
  \E b \in Blocks \ store :
    /\ store \subseteq Anc[b]
    /\ store' = store \cup {b}
    /\ UNCHANGED chainVars

\* The data above a final block is removed; what is left is its branch.
RewindToFinal ==
  \E t \in Anc[root] :
    /\ store' = {b \in store : Slot[b] <= Slot[t]}
    /\ store' \subseteq Anc[t]
    /\ UNCHANGED chainVars

IndexNext == Index \/ RewindToFinal \/ (ChainStep /\ UNCHANGED store)

Spec == IndexInit /\ [][IndexNext]_indexVars

\* The store never holds data of two branches.
OneBranch == \A b, c \in store : Slot[b] <= Slot[c] => b \in Anc[c]
==============================================================================
