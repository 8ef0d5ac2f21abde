-------------------------- MODULE UnfinalizedBlocks --------------------------
(***************************************************************************)
(* UnfinalizedBlocksService: it remembers the headers of the blocks that   *)
(* were indexed before they were final, compares them with the finalized   *)
(* chain whenever a block is processed, and names the header to rewind to  *)
(* when they disagree.                                                     *)
(*                                                                         *)
(* JavaScript runs a handler without interruption up to its next await, so *)
(* one action is the code between two awaits, and pc names the await the   *)
(* call is suspended at.  The chain moves and the process may die at every *)
(* await.                                                                  *)
(*                                                                         *)
(* The array unfinalizedBlocks is always in ascending slot order without   *)
(* repetition (exitWithError guards it), so it is kept as a set; IsLast    *)
(* plays lodash's last.                                                    *)
(***************************************************************************)
EXTENDS SolanaChain, FiniteSets

CONSTANTS
  Threshold,      \* UNFINALIZED_THRESHOLD
  AsyncFinality,  \* may registerFinalizedBlock run while a call is suspended?
  MaxQueue,       \* blocks fetched ahead; 0: a block is fetched when processed
  Kills,          \* may the process die at any time?
  Supervised,     \* is an indexer that exited started again?
  Undefined,      \* JavaScript's undefined, metadata never written
  Null            \* JavaScript's null, metadata reset

ASSUME EnvironmentTypes ==
  /\ Threshold \in Nat
  /\ MaxQueue \in Nat
  /\ AsyncFinality \in BOOLEAN
  /\ Kills \in BOOLEAN
  /\ Supervised \in BOOLEAN
  /\ Undefined \notin Nat
  /\ Null \notin Nat
  /\ Undefined # Null

VARIABLES
  unfinalizedBlocks,  \* _unfinalizedBlocks
  finalizedHeader,    \* _finalizedHeader
  lastChecked,        \* lastCheckedBlockHeight
  savedBlocks,        \* METADATA_UNFINALIZED_BLOCKS_KEY
  savedHeight,        \* METADATA_LAST_FINALIZED_PROCESSED_KEY
  pc,                 \* where the running call is suspended
  header,             \* the block being processed, None for the call from init
  cursor,             \* the slot the next getHeaderForHeight asks for
  verifiable,         \* lastVerifiableBlock of hasForked
  checking,           \* forkedHeader, then checkingHeader; None: no fork found
  best,               \* the bestVerifiableBlocks still to be looked at
  rewindTo,           \* the header the call returns
  indexed,            \* blocks whose data is in the store
  processed,          \* last processed height
  queue               \* blocks fetched and not yet processed

saved    == <<savedBlocks, savedHeight>>
memory   == <<unfinalizedBlocks, finalizedHeader, lastChecked>>
locals   == <<cursor, verifiable, checking, best, rewindTo>>
index    == <<indexed, processed>>
vars     == <<chainVars, saved, memory, locals, index, pc, header, queue>>

Heights  == Nat \cup {Undefined, Null}
Headers  == Blocks \cup {None}

\* Suspension points inside processUnfinalizedBlockHeader.
CallPoints == {"backfill", "hasForked", "lookup", "walk", "correct", "parent",
               "fallback", "delete", "saveList", "checked", "done", "rewind"}
Points     == CallPoints \cup {"boot", "idle", "resetHeight", "down"}

\* init has not returned: the fetch service is not running yet.
Starting == \/ pc \in {"boot", "down", "resetHeight"}
            \/ pc \in CallPoints /\ header = None

Init ==
  /\ ChainInit
  /\ unfinalizedBlocks = {} /\ finalizedHeader = root /\ lastChecked = Undefined
  /\ savedBlocks = {} /\ savedHeight = Undefined
  /\ pc = "boot" /\ header = None
  /\ cursor = 0 /\ verifiable = None /\ checking = None
  /\ best = {} /\ rewindTo = None
  /\ indexed = {} /\ processed = 0 /\ queue = {}

------------------------------------------------------------------------------
IsLast(b, S)  == b \in S /\ \A c \in S : Slot[c] <= Slot[b]
IsFirst(b, S) == b \in S /\ \A c \in S : Slot[b] <= Slot[c]
UpTo(h, S)    == {b \in S : Slot[b] <= h}
FinalizedNumber == Slot[finalizedHeader]

\* A relational comparison reads null as 0.
AsNumber(h)   == IF h = Null THEN 0 ELSE h
IsTruthy(h)   == h \notin {Undefined, Null, 0}

\* Control moves to the next await; "down": an uncaught error, or
\* exitWithError, ends the process.
Goto(point) == pc' = point

\* A call has returned: its local variables are gone.
EndCall ==
  /\ header' = None /\ checking' = None /\ verifiable' = None /\ rewindTo' = None
  /\ best' = {} /\ cursor' = 0

\* A header that contradicts the recorded blocks was found.
ForkFound(h) == checking' = h /\ Goto("correct")

------------------------------------------------------------------------------
(* init *)

\* init up to its first await that matters: the metadata and the finalized
\* header are read; without saved blocks there is nothing to validate.
Start ==
  /\ pc = "boot" \/ (pc = "down" /\ Supervised)
  /\ unfinalizedBlocks' = savedBlocks
  /\ lastChecked' = savedHeight
  /\ \E b \in FinalizedHeaders : finalizedHeader' = b
  /\ EndCall /\ queue' = {}
  /\ Goto(IF savedBlocks = {} THEN "idle" ELSE "hasForked")
  /\ UNCHANGED <<saved, index, chainVars>>

\* init, no fork: resetUnfinalizedBlocks.
ResetUnfinalizedBlocks ==
  /\ pc = "done" /\ header = None
  /\ savedBlocks' = {} /\ unfinalizedBlocks' = {}
  /\ Goto("resetHeight")
  /\ UNCHANGED <<chainVars, savedHeight, finalizedHeader, lastChecked, locals,
                 index, header, queue>>

\* init, no fork: resetLastFinalizedVerifiedHeight leaves the field alone.
ResetLastFinalizedVerifiedHeight ==
  /\ pc = "resetHeight"
  /\ savedHeight' = Null
  /\ EndCall
  /\ Goto("idle")
  /\ UNCHANGED <<chainVars, savedBlocks, memory, index, queue>>

------------------------------------------------------------------------------
(* registerUnfinalizedBlock and backfillSkippedSlots *)

\* Push the header and save the list.
Push(b) ==
  /\ unfinalizedBlocks' = unfinalizedBlocks \cup {b}
  /\ savedBlocks' = unfinalizedBlocks \cup {b}
  /\ Goto("hasForked")
  /\ UNCHANGED <<checking, cursor>>

\* Faulty variant: the parent hash is not compared.
ConnectUnlinked(b, latest) == Push(b)

\* The header must build on the last recorded block.
Connect(b, latest) ==
  IF Parent[b] # latest
    THEN ForkFound(b) /\ UNCHANGED <<unfinalizedBlocks, savedBlocks, cursor>>
    ELSE Push(b)

RegisterUnfinalizedBlock(b) ==
  /\ header' = b
  /\ \/ /\ Slot[b] <= FinalizedNumber
        /\ Goto("hasForked")
        /\ UNCHANGED <<unfinalizedBlocks, savedBlocks, checking, cursor>>
     \/ /\ Slot[b] > FinalizedNumber
        /\ unfinalizedBlocks = {}
        /\ Push(b)
     \/ /\ Slot[b] > FinalizedNumber
        /\ \E latest \in unfinalizedBlocks :
             /\ IsLast(latest, unfinalizedBlocks)
             /\ IF Slot[latest] >= Slot[b]
                  THEN /\ Goto("down")
                       /\ UNCHANGED <<unfinalizedBlocks, savedBlocks, checking, cursor>>
                ELSE IF Slot[latest] + 1 # Slot[b]
                  THEN /\ Goto("backfill")
                       /\ cursor' = Slot[latest] + 1
                       /\ UNCHANGED <<unfinalizedBlocks, savedBlocks, checking>>
                  ELSE Connect(b, latest)
  /\ UNCHANGED <<chainVars, savedHeight, finalizedHeader, lastChecked, verifiable,
                 best, rewindTo, index>>

\* The next block is taken off the queue, or fetched, and processed.
ProcessBlock ==
  /\ pc = "idle"
  /\ \/ /\ MaxQueue = 0
        /\ \E b \in Anc[head] :
             /\ Slot[b] > processed
             /\ GetHeaderForHeight(Slot[b]) = b
             /\ RegisterUnfinalizedBlock(b)
        /\ UNCHANGED queue
     \/ \E b \in queue :
          /\ IsFirst(b, queue)
          /\ RegisterUnfinalizedBlock(b)
          /\ queue' = queue \ {b}

\* One round of the loop over the slots between the last recorded block and
\* the header: a missing block is recorded, but not saved.
BackfillSkippedSlot ==
  /\ pc = "backfill" /\ cursor < Slot[header]
  /\ LET reply == GetHeaderForHeight(cursor) IN
       \/ /\ reply = Unavailable
          /\ cursor' = cursor + 1
          /\ UNCHANGED <<unfinalizedBlocks, checking, pc>>
       \/ /\ reply = Failed
          /\ Goto("down")
          /\ UNCHANGED <<unfinalizedBlocks, checking, cursor>>
       \/ /\ reply \in Blocks
          /\ \E previous \in unfinalizedBlocks :
               /\ IsLast(previous, unfinalizedBlocks)
               /\ IF Parent[reply] # previous
                    THEN ForkFound(reply) /\ UNCHANGED <<unfinalizedBlocks, cursor>>
                    ELSE /\ unfinalizedBlocks' = unfinalizedBlocks \cup {reply}
                         /\ cursor' = cursor + 1
                         /\ UNCHANGED <<checking, pc>>
  /\ UNCHANGED <<chainVars, saved, finalizedHeader, lastChecked, verifiable,
                 best, rewindTo, index, header, queue>>

\* After the loop the header itself is connected.
ConnectAfterBackfill ==
  /\ pc = "backfill" /\ cursor = Slot[header]
  /\ \E latest \in unfinalizedBlocks :
       IsLast(latest, unfinalizedBlocks) /\ Connect(header, latest)
  /\ UNCHANGED <<chainVars, savedHeight, finalizedHeader, lastChecked, verifiable,
                 best, rewindTo, index, header, queue>>

------------------------------------------------------------------------------
(* hasForked *)

HasForked ==
  /\ pc = "hasForked"
  /\ \/ /\ UpTo(FinalizedNumber, unfinalizedBlocks) = {}
        /\ Goto("delete")
        /\ UNCHANGED <<verifiable, cursor, checking>>
     \/ \E v \in unfinalizedBlocks :
          /\ IsLast(v, UpTo(FinalizedNumber, unfinalizedBlocks))
          /\ verifiable' = v
          /\ \/ /\ Slot[v] = FinalizedNumber
                /\ IF v # finalizedHeader
                     THEN ForkFound(finalizedHeader)
                     ELSE Goto("delete") /\ UNCHANGED checking
                /\ UNCHANGED cursor
             \/ /\ Slot[v] < FinalizedNumber
                /\ IF FinalizedNumber - Slot[v] > Threshold
                     THEN Goto("lookup") /\ cursor' = Slot[v]
                     ELSE Goto("walk") /\ cursor' = FinalizedNumber - 1
                /\ UNCHANGED checking
  /\ UNCHANGED <<chainVars, saved, memory, best, rewindTo, index, header, queue>>

\* Faulty variant: the heights are compared instead of the hashes.
CompareHeights(reply) ==
  IF Slot[reply] # Slot[verifiable] THEN ForkFound(reply)
                                    ELSE Goto("delete") /\ UNCHANGED checking

\* Compare the header found at the height of lastVerifiableBlock with it.
Compare(reply) ==
  IF reply # verifiable THEN ForkFound(reply) ELSE Goto("delete") /\ UNCHANGED checking

\* Faulty variant: the error of the call is taken for its answer.
LookupUnchecked ==
  /\ pc = "lookup"
  /\ Compare(GetHeaderForHeight(cursor))
  /\ UNCHANGED <<chainVars, saved, memory, cursor, verifiable, best, rewindTo,
                 index, header, queue>>

\* Far behind: the header is asked for directly, a skipped slot is an error.
LookupHeader ==
  /\ pc = "lookup"
  /\ LET reply == GetHeaderForHeight(cursor) IN
       IF reply \in Blocks THEN Compare(reply) ELSE Goto("down") /\ UNCHANGED checking
  /\ UNCHANGED <<chainVars, saved, memory, cursor, verifiable, best, rewindTo,
                 index, header, queue>>

\* One getHeaderForHeight of the walk down to the height of
\* lastVerifiableBlock.
WalkBack ==
  /\ pc = "walk"
  /\ LET reply == GetHeaderForHeight(cursor) IN
       \/ /\ reply = Failed
          /\ Goto("down") /\ UNCHANGED <<checking, cursor>>
       \/ /\ reply \in Blocks /\ Slot[reply] = Slot[verifiable]
          /\ Compare(reply) /\ UNCHANGED cursor
       \/ /\ reply = Unavailable \/ (reply \in Blocks /\ Slot[reply] # Slot[verifiable])
          /\ cursor' = cursor - 1
          /\ UNCHANGED <<checking, pc>>
  /\ UNCHANGED <<chainVars, saved, memory, verifiable, best, rewindTo,
                 index, header, queue>>

------------------------------------------------------------------------------
(* getLastCorrectFinalizedBlock *)

\* Faulty variant: any recorded header below the checked one will do.
MatchesBelow(b, checked) == Slot[b] <= Slot[checked]

\* The recorded header is the one checked against, or its parent.
Matches(b, checked) == b = checked \/ b = Parent[checked]

\* The loop over the recorded blocks from bestHeaders down, against checked:
\* a match is returned, otherwise the next parent is asked for; when they
\* are used up the call falls back to the last checked height.
Search(bestHeaders, checked) ==
  IF bestHeaders = {}
    THEN /\ Goto(IF IsTruthy(lastChecked) THEN "fallback" ELSE "done")
         /\ best' = {} /\ UNCHANGED <<cursor, rewindTo>>
    ELSE \E b \in bestHeaders :
           /\ IsLast(b, bestHeaders)
           /\ IF Matches(b, checked)
                THEN /\ rewindTo' = b /\ Goto("rewind")
                     /\ UNCHANGED <<best, cursor>>
                ELSE /\ best' = bestHeaders \ {b}
                     /\ cursor' = Slot[checked] - 1
                     /\ Goto("parent") /\ UNCHANGED rewindTo

GetLastCorrectFinalizedBlock ==
  /\ pc = "correct"
  /\ Search(UpTo(FinalizedNumber, unfinalizedBlocks), checking)
  /\ UNCHANGED <<chainVars, saved, memory, verifiable, checking, index, header, queue>>

\* getParentHeaderByHeight steps down over skipped slots.
GetParentHeaderByHeight ==
  /\ pc = "parent"
  /\ LET reply == GetHeaderForHeight(cursor) IN
       \/ /\ reply = Unavailable
          /\ cursor' = cursor - 1
          /\ UNCHANGED <<checking, pc, best, rewindTo>>
       \/ /\ reply = Failed
          /\ Goto("down") /\ UNCHANGED <<checking, cursor, best, rewindTo>>
       \/ /\ reply \in Blocks
          /\ checking' = reply
          /\ Search(best, reply)
  /\ UNCHANGED <<chainVars, saved, memory, verifiable, index, header, queue>>

\* Faulty variant: the finalized height, which the recorded blocks may be below.
FinalizedInstead == FinalizedNumber

\* The height that is known to agree with the finalized chain.
VerifiedHeight == lastChecked

FallBackToLastChecked ==
  /\ pc = "fallback"
  /\ LET reply == GetHeaderForHeight(VerifiedHeight) IN
       IF reply \in Blocks
         THEN rewindTo' = reply /\ Goto("rewind")
         ELSE Goto("down") /\ UNCHANGED rewindTo
  /\ UNCHANGED <<chainVars, saved, memory, cursor, verifiable, checking, best,
                 index, header, queue>>

\* Faulty variant: the field keeps the blocks whose data is removed.
ResetMetadataOnly ==
  savedBlocks' = {} /\ savedHeight' = Null /\ UNCHANGED unfinalizedBlocks

\* What reindex calls in its transaction: resetUnfinalizedBlocks, which also
\* empties the field, and resetLastFinalizedVerifiedHeight, which does not.
ResetMetadata ==
  savedBlocks' = {} /\ unfinalizedBlocks' = {} /\ savedHeight' = Null

\* reindex: in one database transaction the data above the target is removed
\* and the metadata reset; fetching starts over behind the target.
Rewind ==
  /\ pc = "rewind"
  /\ indexed' = UpTo(Slot[rewindTo], indexed)
  /\ processed' = IF processed < Slot[rewindTo] THEN processed ELSE Slot[rewindTo]
  /\ ResetMetadata /\ EndCall
  /\ queue' = {}
  /\ Goto("idle")
  /\ UNCHANGED <<chainVars, finalizedHeader, lastChecked>>

------------------------------------------------------------------------------
(* deleteFinalizedBlock *)

\* Faulty variant: off by one.
RemoveOneMore(h) == unfinalizedBlocks' = {b \in unfinalizedBlocks : Slot[b] > h + 1}

RemoveFinalized(h) == unfinalizedBlocks' = {b \in unfinalizedBlocks : Slot[b] > h}

\* Faulty variant: the first check leaves no height behind.
DeleteWithoutHeight ==
  /\ pc = "delete"
  /\ RemoveFinalized(FinalizedNumber)
  /\ Goto("done")
  /\ UNCHANGED <<chainVars, saved, finalizedHeader, lastChecked, locals, index,
                 header, queue>>

DeleteFinalizedBlock ==
  /\ pc = "delete"
  /\ IF lastChecked # Undefined /\ AsNumber(lastChecked) < FinalizedNumber
       THEN /\ RemoveFinalized(FinalizedNumber)
            /\ savedHeight' = FinalizedNumber
            /\ Goto("saveList")
            /\ UNCHANGED lastChecked
       ELSE /\ lastChecked' = FinalizedNumber
            /\ Goto("done")
            /\ UNCHANGED <<unfinalizedBlocks, savedHeight>>
  /\ UNCHANGED <<chainVars, savedBlocks, finalizedHeader, locals, index, header, queue>>

SaveUnfinalizedBlocks ==
  /\ pc = "saveList"
  /\ savedBlocks' = unfinalizedBlocks
  /\ Goto("checked")
  /\ UNCHANGED <<chainVars, savedHeight, memory, locals, index, header, queue>>

\* The finalized height is read again after the two awaits.
SetLastChecked ==
  /\ pc = "checked"
  /\ lastChecked' = FinalizedNumber
  /\ Goto("done")
  /\ UNCHANGED <<chainVars, saved, unfinalizedBlocks, finalizedHeader, locals,
                 index, header, queue>>

\* The call returned no header: the block is indexed.
IndexBlock ==
  /\ pc = "done" /\ header # None
  /\ indexed' = indexed \cup {header}
  /\ processed' = Slot[header]
  /\ EndCall
  /\ Goto("idle")
  /\ UNCHANGED <<chainVars, saved, memory, queue>>

------------------------------------------------------------------------------
(* What runs beside the call *)

\* Faulty variant: an older answer replaces a newer one.
OtherHeader(b) == b # finalizedHeader

NewerHeader(b) == ~(FinalizedNumber >= Slot[b])

\* The finality poll of the fetch service; the answer may be an old one.
RegisterFinalizedBlock ==
  /\ ~Starting
  /\ AsyncFinality \/ pc = "idle"
  /\ \E b \in FinalizedHeaders :
       /\ NewerHeader(b)
       /\ finalizedHeader' = b
  /\ UNCHANGED <<chainVars, saved, unfinalizedBlocks, lastChecked, locals, index,
                 pc, header, queue>>

\* A block behind everything fetched so far is fetched ahead.
FetchBlock ==
  /\ ~Starting
  /\ Cardinality(queue) < MaxQueue
  /\ \E b \in Anc[head] :
       /\ GetHeaderForHeight(Slot[b]) = b
       /\ Slot[b] > processed
       /\ header # None => Slot[b] > Slot[header]
       /\ \A c \in queue : Slot[b] > Slot[c]
       /\ queue' = queue \cup {b}
  /\ UNCHANGED <<chainVars, saved, memory, locals, index, pc, header>>

\* The process dies: a signal, a lost database, an RPC call that throws.
Kill ==
  /\ Kills /\ pc \notin {"boot", "down"}
  /\ Goto("down")
  /\ UNCHANGED <<chainVars, saved, memory, locals, index, header, queue>>

MoveChain == ChainStep /\ UNCHANGED <<saved, memory, locals, index, pc, header, queue>>

Register == ProcessBlock \/ BackfillSkippedSlot \/ ConnectAfterBackfill
Verify   == HasForked \/ LookupHeader \/ WalkBack
Correct  == GetLastCorrectFinalizedBlock \/ GetParentHeaderByHeight
            \/ FallBackToLastChecked \/ Rewind
Finish   == DeleteFinalizedBlock \/ SaveUnfinalizedBlocks \/ SetLastChecked
            \/ IndexBlock
Boot     == Start \/ ResetUnfinalizedBlocks \/ ResetLastFinalizedVerifiedHeight

Service == Register \/ Verify \/ Correct \/ Finish \/ Boot

Next == Service \/ RegisterFinalizedBlock \/ FetchBlock \/ Kill \/ MoveChain

Spec == Init /\ [][Next]_vars

\* The event loop resumes every suspended call, the fetch loop and the finality
\* poll run on timers, and a supervisor restarts the process.
FairSpec == Spec /\ WF_vars(Service) /\ WF_vars(RegisterFinalizedBlock)
                 /\ WF_vars(FetchBlock)

------------------------------------------------------------------------------
(***************************************************************************)
(* The steps that do harm.  Each is a window the code leaves open, and the *)
(* promises below fail when it is used; they hold, with finality moving at *)
(* any await, blocks fetched ahead and restarts, as long as it is not.     *)
(***************************************************************************)

OnOneBranch(b, c) == b \in Anc[c] \/ c \in Anc[b]

\* After hasForked has read the finalized height, and before deleteFinalizedBlock
\* has read it for the last time, finality passes over a record it orphans.
Overtaken ==
  /\ RegisterFinalizedBlock
  /\ pc \in {"lookup", "walk", "delete", "saveList", "checked"}
  /\ \E b \in unfinalizedBlocks :
       /\ FinalizedNumber < Slot[b] /\ Slot[b] <= Slot[finalizedHeader']
       /\ b \notin Anc[finalizedHeader']

\* A block fetched ahead is processed although the finalized header is on
\* another branch.
StaleBlock == ProcessBlock /\ ~OnOneBranch(header', finalizedHeader)

\* The records are searched against a header of an abandoned branch.
StaleFork == GetLastCorrectFinalizedBlock /\ ~OnOneBranch(checking, finalizedHeader)

\* init erases the record of an indexed block that finality has not reached.
ErasedUnchecked ==
  ResetUnfinalizedBlocks /\ \E b \in unfinalizedBlocks \cap indexed : Slot[b] > FinalizedNumber

\* A fork was found, but no height was ever checked to go back to.
NoTarget == Correct /\ pc' = "done"

Harm == Overtaken \/ StaleBlock \/ StaleFork \/ ErasedUnchecked \/ NoTarget

HarmlessSpec == Init /\ [][Next /\ ~Harm]_vars

FreshForkSpec == Init /\ [][Next /\ ~StaleFork]_vars

------------------------------------------------------------------------------
(* Properties *)

TypeOK ==
  /\ ChainTypeOK
  /\ unfinalizedBlocks \subseteq Blocks /\ savedBlocks \subseteq Blocks
  /\ finalizedHeader \in Blocks
  /\ lastChecked \in Heights /\ savedHeight \in Heights
  /\ pc \in Points /\ header \in Headers
  /\ cursor \in Int /\ verifiable \in Headers /\ checking \in Headers
  /\ best \subseteq Blocks /\ rewindTo \in Headers
  /\ indexed \subseteq Blocks /\ processed \in Nat /\ queue \subseteq Blocks

\* The blocks of S lie on one branch.
Chained(S) == \A b, c \in S : Slot[b] <= Slot[c] => b \in Anc[c]

\* The recorded headers are always pieces of one branch: comparing one of them
\* with the finalized chain (hasForked) vouches for all below it.
ListChained == Chained(unfinalizedBlocks) /\ Chained(savedBlocks)

\* Between calls no recorded header is ahead of the last processed height, so
\* the "not sequential" exit of registerUnfinalizedBlock is never taken.
Sequential == pc = "idle" => \A b \in unfinalizedBlocks : Slot[b] <= processed

\* The last checked height, in memory and saved, is the slot of a final block:
\* what getLastCorrectFinalizedBlock falls back to exists on the final chain.
LastCheckedFinal ==
  \A h \in {lastChecked, savedHeight} :
    h \in {Undefined, Null} \/ \E b \in Anc[root] : Slot[b] = h

\* The header getLastCorrectFinalizedBlock returns is final.
TargetFinal == pc = "rewind" => rewindTo \in Anc[root]

\* Everything a rewind leaves in the store is on the branch of its target.
RewindSafe ==
  pc = "rewind" => UpTo(Slot[rewindTo], indexed) \subseteq Anc[rewindTo]

\* An indexed block is final or still recorded, so that a fork that orphans it
\* will be noticed.
Tracked == indexed \subseteq Anc[root] \cup unfinalizedBlocks

\* deleteFinalizedBlock and init forget a recorded block only when it is final
\* ("Remove blocks that are now confirmed finalized") or its data is gone.
DroppedAreFinal ==
  [][\A b \in unfinalizedBlocks \ unfinalizedBlocks' :
       b \in Anc[root] \/ b \notin indexed']_vars

\* A call that found a fork returns a header to rewind to.
ForkYieldsRewind == pc = "done" => checking = None

\* The final branch has no block that can be read in slot h.
Missing(h) == h \in LongTermSlots \/ \A b \in Anc[root] : Slot[b] # h

\* A handler of the service ends the process only when the endpoint has lost the
\* slot asked for, when the final branch skipped the slot of the record hasForked
\* verifies, or when getParentHeaderByHeight has passed the oldest slot: never
\* for a block out of order, in a backfill or in the fallback.
OnlyKnownExits ==
  [][Service /\ pc' = "down" =>
       \/ (IF pc = "fallback" THEN lastChecked ELSE cursor) \in LongTermSlots
       \/ pc \in {"lookup", "walk"} /\ Missing(Slot[verifiable])
       \/ pc = "parent" /\ cursor < 0]_vars

\* Without faults of the RPC no handler ends in an uncaught error: a fork is
\* handled, whatever slots it skips.
NoExit == pc # "down"

\* An indexed block that finality has passed by is eventually removed.
ForkResolved ==
  \A b \in Blocks :
    (b \in indexed /\ b \notin Anc[root] /\ Slot[b] <= Slot[root])
      ~> b \notin indexed

\* Rewinding does not go on forever: when the chain comes to rest the indexer
\* reaches its tip and stays there.
CatchesUp == <>[](pc = "idle" /\ processed = Slot[head])

Abstract == INSTANCE ReorgSafeIndex WITH store <- indexed

\* The service implements the index of ReorgSafeIndex: whatever forks it meets
\* half-way through a call, what IndexBlock adds builds on everything in the
\* store, and what reindex leaves is the branch of a final block.
ImplementsReorgSafeIndex == Abstract!Spec
==============================================================================
