----------------------------- MODULE SolanaChain -----------------------------
(***************************************************************************)
(* The chain as an indexer sees it through its RPC endpoint, and the two   *)
(* calls the indexer makes to read headers from it.                        *)
(*                                                                         *)
(* All blocks that are ever produced, on every fork, form a tree that is   *)
(* fixed by the constants.  A header is identified with its block: the     *)
(* Header fields blockHeight and parentHash (block.solana.ts) are Slot[b]  *)
(* and Parent[b], and two headers have the same blockHash exactly when     *)
(* they are the same block.  A slot with no block on a branch is a skipped *)
(* slot of that branch.                                                    *)
(***************************************************************************)
EXTENDS Integers

CONSTANTS
  Blocks,        \* every block of every fork
  Slot,          \* Slot[b]: the slot the block was produced in
  Parent,        \* Parent[b]: the block it builds on, None for the oldest one
  Anc,           \* Anc[b]: the branch that ends in b, b included
  None,          \* "no header", not a block
  Unavailable,   \* the call ended in a BlockUnavailableError
  Failed,        \* the call ended in any other error
  LongTermSlots, \* slots answered LONG_TERM_STORAGE_SLOT_SKIPPED
  TreatLongTermStorageSkipAsSkipped  \* the network-level option of that name

ASSUME ConstantsDistinct ==
  /\ None \notin Blocks
  /\ Unavailable \notin Blocks
  /\ Failed \notin Blocks
  /\ Unavailable # Failed
  /\ LongTermSlots \subseteq Nat
  /\ TreatLongTermStorageSkipAsSkipped \in BOOLEAN

ASSUME TreeTypes ==
  /\ Slot \in [Blocks -> Nat \ {0}]
  /\ Parent \in [Blocks -> Blocks \cup {None}]
  /\ Anc \in [Blocks -> SUBSET Blocks]

ASSUME TreeShape ==
  \A b \in Blocks :
    /\ Anc[b] = IF Parent[b] = None THEN {b} ELSE {b} \cup Anc[Parent[b]]
    /\ Parent[b] # None => Slot[Parent[b]] < Slot[b]
    /\ \A c \in Anc[b] : Slot[c] <= Slot[b] /\ Anc[c] \subseteq Anc[b]

\* Along one branch the slots order the blocks.
ASSUME BranchesLinear ==
  \A b \in Blocks : \A c, d \in Anc[b] : Slot[c] <= Slot[d] => c \in Anc[d]

VARIABLES
  head,  \* tip of the branch that has commitment "confirmed"
  root   \* newest block that has commitment "finalized"

chainVars == <<head, root>>

ChainTypeOK == head \in Blocks /\ root \in Anc[head]

ChainInit == head \in Blocks /\ root \in Anc[head]

\* The confirmed tip moves to a later block: along its branch, or to another
\* branch that contains everything finalized.
NewHead ==
  \E b \in Blocks :
    /\ Slot[b] > Slot[head]
    /\ root \in Anc[b]
    /\ head' = b
    /\ UNCHANGED root

\* A later block of the confirmed branch becomes final.
Finalize ==
  \E b \in Anc[head] :
    /\ root \in Anc[b]
    /\ b # root
    /\ root' = b
    /\ UNCHANGED head

ChainStep == NewHead \/ Finalize

------------------------------------------------------------------------------
\* Faulty variant: the slot is asked for with commitment "confirmed".
ConfirmedHeaders == Anc[head]

\* getFinalizedBlockHeader: the header of a finalized slot.  The slot is read
\* first and may be an old one when the header arrives, or the endpoint lags.
FinalizedHeaders == Anc[root]

\* Does the confirmed branch have a block at slot h?
Produced(h) == \E b \in Anc[head] : Slot[b] = h

\* The error with which getBlock answers a slot it returns no block for.
RpcError(h) ==
  CASE h \in LongTermSlots -> "LONG_TERM_STORAGE_SLOT_SKIPPED"
    [] h < 0               -> "INVALID_PARAMS"
    [] h > Slot[head] /\ h \notin LongTermSlots -> "BLOCK_NOT_AVAILABLE"
    [] OTHER               -> "SLOT_SKIPPED"

\* Faulty variant: only the long-term storage error counts as a skip.
IsLongTermSkipOnly(e) ==
  TreatLongTermStorageSkipAsSkipped /\ e = "LONG_TERM_STORAGE_SLOT_SKIPPED"

IsSkippedSlotError(e) ==
  \/ e = "SLOT_SKIPPED"
  \/ TreatLongTermStorageSkipAsSkipped /\ e = "LONG_TERM_STORAGE_SLOT_SKIPPED"

\* getHeaderByHeight: the header at slot h of the confirmed branch, or the
\* error the call ends in.  It never answers with a block of another slot.
GetHeaderForHeight(h) ==
  IF Produced(h) /\ h \notin LongTermSlots
    THEN CHOOSE b \in Anc[head] : Slot[b] = h
    ELSE IF IsSkippedSlotError(RpcError(h)) THEN Unavailable ELSE Failed
==============================================================================
