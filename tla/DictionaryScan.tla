---------------------------- MODULE DictionaryScan ----------------------------
(***************************************************************************)
(* How finalized blocks reach the handlers when a dictionary is configured. *)
(* The fetch loop keeps the next height to ask for.  It asks the dictionary *)
(* for the blocks of a range that the project's filters select and goes on  *)
(* behind the last height of the answer; when the dictionary is of no use   *)
(* it asks the RPC endpoint for a batch of heights instead.                 *)
(*                                                                         *)
(* A block of the (finalized, so only) branch is identified with its slot.  *)
(* The loop awaits every answer before it goes on and the range asked for   *)
(* is immutable, so a request and its answer are one step.                  *)
(***************************************************************************)
EXTENDS Integers, FiniteSets

CONSTANTS
  Slots,       \* the slots that have a block
  ParentSlot,  \* ParentSlot[s]: the slot of the block's parent
  None,        \* argument not given
  StartBlock,  \* first height the project wants
  MaxSlot,     \* bound: the chain does not grow past this slot
  Limit,       \* blocks per answer of the dictionary (MIN_FETCH_LIMIT)
  QuerySize,   \* heights per request to the dictionary
  BatchSize    \* heights per batch without dictionary

ASSUME ScanConstants ==
  /\ StartBlock \in Nat \ {0}
  /\ MaxSlot \in Nat
  /\ Limit \in Nat \ {0}
  /\ QuerySize \in Nat
  /\ BatchSize \in Nat \ {0}
  /\ None \notin Nat

ASSUME ScanChain ==
  /\ Slots \subseteq 1..MaxSlot
  /\ ParentSlot \in [Slots -> Nat]
  /\ \A s \in Slots : ParentSlot[s] < s
  /\ \A s, t \in Slots : t < s => t <= ParentSlot[s]

VARIABLES
  latest,    \* last finalized slot the dictionary and the endpoint know
  workers,   \* are blocks handled by worker threads?  does not change
  matching,  \* blocks the dictionary query selects; does not change
  start,     \* next height the fetch loop asks for
  handed     \* what the handlers were given: a block, and the height it bore

vars == <<latest, workers, matching, start, handed>>

Handed == [slot : Slots, height : Nat]

-------------------------------------------------------------------------------
(* Headers *)

\* solanaBlockToHeader(block, slot).blockHeight: a block does not carry its own
\* slot, so without the argument it is guessed.
SolanaBlockToHeader(s, slot) == IF slot # None THEN slot ELSE ParentSlot[s] + 1

\* formatBlockUtil(block, slot)
FormatBlockUtil(s, slot) == [slot |-> s, height |-> SolanaBlockToHeader(s, slot)]

-------------------------------------------------------------------------------
(* RPC endpoint *)

\* Faulty variant: an empty answer is taken for a block.
FetchUnchecked(h) == { [slot |-> h, height |-> h] }

\* fetchBlock(h): the block of slot h.  For a skipped slot the call ends in a
\* BlockUnavailableError, on which node-core goes on to the next height.
FetchBlock(h) == { FormatBlockUtil(s, h) : s \in {h} \cap Slots }

\* fetchBlockWorker, fetchChainBlock: a worker is told a height and fetches that.
FetchBlockWorker(h) == FetchBlock(h)

\* What the handlers get for a block that the dictionary delivered.
ProcessBlock(b) == IF workers THEN FetchBlockWorker(b.height) ELSE {b}

-------------------------------------------------------------------------------
(* Dictionary *)

\* Range of a request made at height start.
QueryEnd == IF start + QuerySize < latest THEN start + QuerySize ELSE latest

\* The blocks of that range that the query selects.
Selected == { s \in matching : start <= s /\ s <= QueryEnd }

\* The answers of the server: the first Limit of them.
Answers ==
  { P \in SUBSET Selected :
      /\ \A s \in P, t \in Selected \ P : s < t
      /\ P = Selected \/ Cardinality(P) = Limit }

\* Faulty variant: an answer is taken to cover the whole range.
ConvertWholeRange(P, last) ==
  [ batchBlocks        |-> { FormatBlockUtil(s, None) : s \in P },
    lastBufferedHeight |-> QueryEnd ]

\* Faulty variant: the last block is asked for again.
ConvertExclusive(P, last) ==
  [ batchBlocks        |-> { FormatBlockUtil(s, None) : s \in P },
    lastBufferedHeight |-> FormatBlockUtil(last, None).height - 1 ]

\* convertResponseBlocks of an answer whose last block is last.
ConvertResponseBlocks(P, last) ==
  [ batchBlocks        |-> { FormatBlockUtil(s, None) : s \in P },
    lastBufferedHeight |-> FormatBlockUtil(last, None).height ]

\* The loop continues behind lastBufferedHeight.
Buffered(blocks, lastBufferedHeight) ==
  /\ handed' = handed \cup blocks
  /\ start' = lastBufferedHeight + 1
  /\ UNCHANGED <<latest, workers, matching>>

\* getData, with blocks in the answer.
GetData ==
  /\ start <= latest
  /\ \E P \in Answers : \E last \in P :
       /\ \A s \in P : s <= last
       /\ LET res == ConvertResponseBlocks(P, last)
          IN  Buffered(UNION { ProcessBlock(b) : b \in res.batchBlocks },
                       res.lastBufferedHeight)

\* Faulty variant: without blocks the height reached is not set.
GetDataStays ==
  /\ start <= latest
  /\ Selected = {}
  /\ Buffered({}, start - 1)

\* getData, without: the base class sets lastBufferedHeight to the request's end.
GetDataEmpty ==
  /\ start <= latest
  /\ Selected = {}
  /\ Buffered({}, QueryEnd)

\* No dictionary covers the height, or it failed: a batch of heights is fetched.
FetchBatch ==
  /\ start <= latest
  /\ \E end \in start..latest :
       /\ end < start + BatchSize
       /\ Buffered(UNION { FetchBlock(h) : h \in start..end }, end)

\* More slots become final.
Grow ==
  /\ latest' \in (latest + 1)..MaxSlot
  /\ UNCHANGED <<workers, matching, start, handed>>

Init ==
  /\ latest \in 0..MaxSlot
  /\ workers \in BOOLEAN
  /\ matching \in SUBSET Slots
  /\ start = StartBlock
  /\ handed = {}

Next == GetData \/ GetDataEmpty \/ FetchBatch \/ Grow

Spec == Init /\ [][Next]_vars

\* The fetch loop runs on.  Nothing is assumed about the chain, nor that the
\* dictionary ever fails.
FairSpec == Spec /\ WF_vars(GetData \/ GetDataEmpty)

-------------------------------------------------------------------------------
(* Properties *)

\* The cursor may fall behind StartBlock but stays a height.
TypeOK ==
  /\ latest \in 0..MaxSlot
  /\ workers \in BOOLEAN
  /\ matching \in SUBSET Slots
  /\ start \in Nat \ {0}
  /\ handed \in SUBSET Handed

\* The slot before s has a block, so that s is guessed right.
Exact(s) == ParentSlot[s] = s - 1

\* Have the handlers seen the block of slot s?
Seen(s) == \E b \in handed : b.slot = s

\* No block that the project's filters select is passed over: once the cursor
\* is behind such a block, its handlers have seen it, whatever mixture of
\* dictionary answers and batches moved the cursor there (getData,
\* convertResponseBlocks).  With workers this is claimed only of blocks whose
\* slot is guessed right.
NoneLost ==
  \A s \in matching :
    StartBlock <= s /\ s < start /\ (workers => Exact(s)) => Seen(s)

\* A block whose slot is guessed right is delivered once: it lies behind the
\* cursor from then on, also when a later answer sets the cursor back
\* (lastBufferedHeight of convertResponseBlocks).
NoneRepeated == \A b \in handed : Exact(b.slot) => b.slot < start

\* If all selected blocks are guessed right the scan gets past every slot that
\* becomes final.
MovesOn ==
  \A n \in 1..MaxSlot :
    (latest >= n /\ \A s \in matching : Exact(s)) ~> start > n

\* The scan gets past every slot that becomes final, whatever was skipped.
Advances == \A n \in 1..MaxSlot : latest >= n ~> start > n
===============================================================================
