----------------------- MODULE UnfinalizedBlocksProofs -----------------------
(***************************************************************************)
(* Proofs about UnfinalizedBlocks, for every block tree and every value of *)
(* the other constants.                                                    *)
(***************************************************************************)
EXTENDS UnfinalizedBlocks, FiniteSetTheorems, TLAPS

------------------------------------------------------------------------------
(* The chain *)

\* The ancestors of a block are blocks, and the block is one of them.
LEMMA AncType ==
  ASSUME NEW b \in Blocks
  PROVE  b \in Anc[b] /\ Anc[b] \subseteq Blocks
BY TreeTypes, TreeShape

\* A block's branch contains that of its parent, which is in an earlier slot.
LEMMA ParentFacts ==
  ASSUME NEW b \in Blocks, Parent[b] \in Blocks
  PROVE  Slot[Parent[b]] < Slot[b] /\ Parent[b] \in Anc[b] /\ Anc[Parent[b]] \subseteq Anc[b]
<1>1. Parent[b] # None
  BY ConstantsDistinct
<1>2. Anc[b] = {b} \cup Anc[Parent[b]] /\ Slot[Parent[b]] < Slot[b]
  BY <1>1, TreeShape
<1>. QED BY <1>2, AncType

\* The tip and the root are blocks; everything final is confirmed.
LEMMA ChainFacts ==
  ASSUME ChainTypeOK
  PROVE  /\ head \in Blocks /\ root \in Blocks
         /\ Anc[head] \subseteq Blocks /\ Anc[root] \subseteq Blocks
         /\ Anc[root] \subseteq Anc[head]
BY AncType, TreeShape DEF ChainTypeOK

\* What getHeaderByHeight answers: an error, or the block that the confirmed
\* branch has at the slot asked for.
LEMMA ReplyFacts ==
  ASSUME ChainTypeOK, NEW h
  PROVE  /\ GetHeaderForHeight(h) \in Blocks \cup {Unavailable, Failed}
         /\ GetHeaderForHeight(h) \in Blocks =>
              GetHeaderForHeight(h) \in Anc[head] /\ Slot[GetHeaderForHeight(h)] = h
<1>1. CASE Produced(h) /\ h \notin LongTermSlots
  <2>1. PICK b \in Anc[head] : Slot[b] = h
    BY <1>1 DEF Produced
  <2>2. GetHeaderForHeight(h) = CHOOSE c \in Anc[head] : Slot[c] = h
    BY <1>1 DEF GetHeaderForHeight
  <2>3. (CHOOSE c \in Anc[head] : Slot[c] = h) \in Anc[head]
        /\ Slot[CHOOSE c \in Anc[head] : Slot[c] = h] = h
    BY <2>1
  <2>. QED BY <2>2, <2>3, ChainFacts
<1>2. CASE ~(Produced(h) /\ h \notin LongTermSlots)
  <2>1. GetHeaderForHeight(h) \in {Unavailable, Failed}
    BY <1>2 DEF GetHeaderForHeight
  <2>. QED BY <2>1, ConstantsDistinct
<1>. QED BY <1>1, <1>2

\* The confirmed branch keeps everything that is final.
LEMMA ChainStepFacts ==
  ASSUME ChainTypeOK, ChainStep
  PROVE  ChainTypeOK' /\ root \in Anc[root'] /\ Anc[root] \subseteq Anc[root']
<1>1. CASE NewHead
  BY <1>1, ChainFacts, AncType DEF NewHead, ChainTypeOK
<1>2. CASE Finalize
  BY <1>2, ChainFacts, AncType, TreeShape DEF Finalize, ChainTypeOK
<1>. QED BY <1>1, <1>2 DEF ChainStep

------------------------------------------------------------------------------
(* Type correctness *)

\* Which local variables hold a block at which suspension point.
Control ==
  /\ pc \in {"correct", "parent"} => checking \in Blocks
  /\ pc = "backfill" => header \in Blocks
  /\ pc \in {"lookup", "walk"} => verifiable \in Blocks
  /\ pc = "rewind" => rewindTo \in Blocks
  /\ pc \in {"boot", "idle"} => header = None /\ checking = None

TypeInv == TypeOK /\ Control

LEMMA TypeInit == Init => TypeInv
<1>. SUFFICES ASSUME Init PROVE TypeInv
  OBVIOUS
<1>1. ChainTypeOK /\ root \in Blocks
  BY ChainFacts DEF Init, ChainInit, ChainTypeOK
<1>. QED
  BY <1>1, ConstantsDistinct
     DEF Init, TypeInv, TypeOK, Control, Headers, Heights, Points, CallPoints

LEMMA SearchType ==
  ASSUME TypeOK, NEW S \in SUBSET Blocks, NEW c \in Blocks, Search(S, c)
  PROVE  /\ best' \subseteq Blocks /\ cursor' \in Int /\ rewindTo' \in Headers
         /\ pc' \in {"fallback", "done", "rewind", "parent"}
         /\ pc' = "rewind" => rewindTo' \in S /\ Matches(rewindTo', c)
         /\ pc' \in {"fallback", "done"} => S = {} \/ ~IsTruthy(lastChecked)
         /\ pc' = "done" => ~IsTruthy(lastChecked)
         /\ pc' = "fallback" => IsTruthy(lastChecked)
BY TreeTypes DEF Search, TypeOK, IsLast, Headers, Goto

LEMMA TypeNext == TypeInv /\ [Next]_vars => TypeInv'
<1>. SUFFICES ASSUME TypeInv, [Next]_vars PROVE TypeInv'
  OBVIOUS
<1>. USE DEF TypeInv, TypeOK, Control, Headers, Heights, Points, CallPoints
<1>a. ChainTypeOK /\ Slot \in [Blocks -> Nat] /\ Parent \in [Blocks -> Blocks \cup {None}]
  BY TreeTypes
<1>b. Anc[root] \subseteq Blocks /\ Anc[head] \subseteq Blocks
  BY ChainFacts
<1>c. (UNCHANGED chainVars) => ChainTypeOK'
  BY DEF chainVars, ChainTypeOK
<1>d. FinalizedNumber \in Nat
  BY TreeTypes DEF FinalizedNumber
<1>1. CASE ProcessBlock
  <2>1. PICK b \in Blocks : RegisterUnfinalizedBlock(b) /\ queue' \subseteq Blocks
    BY <1>1, <1>b DEF ProcessBlock
  <2>. QED BY <2>1, <1>a, <1>c DEF RegisterUnfinalizedBlock, Push, Connect, ForkFound, Goto, index
<1>2. CASE BackfillSkippedSlot
  BY <1>2, <1>a, <1>c DEF BackfillSkippedSlot, ForkFound, Goto, index, saved
<1>3. CASE ConnectAfterBackfill
  BY <1>3, <1>a, <1>c DEF ConnectAfterBackfill, Connect, Push, ForkFound, Goto, index
<1>4. CASE HasForked
  BY <1>4, <1>a, <1>c, <1>d DEF HasForked, ForkFound, Goto, index, saved, memory
<1>5. CASE LookupHeader
  BY <1>5, <1>a, <1>c DEF LookupHeader, Compare, ForkFound, Goto, index, saved, memory
<1>6. CASE WalkBack
  BY <1>6, <1>a, <1>c DEF WalkBack, Compare, ForkFound, Goto, index, saved, memory
<1>7. CASE GetLastCorrectFinalizedBlock
  <2>1. checking \in Blocks /\ UpTo(FinalizedNumber, unfinalizedBlocks) \in SUBSET Blocks
    BY <1>7 DEF GetLastCorrectFinalizedBlock, UpTo
  <2>2. Search(UpTo(FinalizedNumber, unfinalizedBlocks), checking)
    BY <1>7 DEF GetLastCorrectFinalizedBlock
  <2>3. /\ best' \subseteq Blocks /\ cursor' \in Int /\ rewindTo' \in Headers
        /\ pc' \in {"fallback", "done", "rewind", "parent"}
        /\ pc' = "rewind" => rewindTo' \in Blocks
    BY <2>1, <2>2, SearchType
  <2>. QED BY <1>7, <2>1, <2>3, <1>c DEF GetLastCorrectFinalizedBlock, index, saved, memory
<1>8. CASE GetParentHeaderByHeight
  <2>. DEFINE reply == GetHeaderForHeight(cursor)
  <2>1. CASE reply \in Blocks /\ checking' = reply /\ Search(best, reply)
    <3>1. /\ best' \subseteq Blocks /\ cursor' \in Int /\ rewindTo' \in Headers
          /\ pc' \in {"fallback", "done", "rewind", "parent"}
          /\ pc' = "rewind" => rewindTo' \in Blocks
      BY <2>1, SearchType
    <3>. QED BY <1>8, <2>1, <3>1, <1>c DEF GetParentHeaderByHeight, index, saved, memory
  <2>2. CASE ~(reply \in Blocks /\ checking' = reply /\ Search(best, reply))
    BY <1>8, <2>2, <1>c DEF GetParentHeaderByHeight, index, saved, memory, Goto
  <2>. QED BY <2>1, <2>2
<1>9. CASE FallBackToLastChecked
  BY <1>9, <1>c DEF FallBackToLastChecked, Goto, index, saved, memory
<1>10. CASE Rewind
  BY <1>10, <1>a, <1>c DEF Rewind, ResetMetadata, EndCall, Goto, UpTo
<1>11. CASE DeleteFinalizedBlock
  BY <1>11, <1>c, <1>d DEF DeleteFinalizedBlock, RemoveFinalized, Goto, index, locals
<1>12. CASE SaveUnfinalizedBlocks
  BY <1>12, <1>c DEF SaveUnfinalizedBlocks, Goto, index, locals, memory
<1>13. CASE SetLastChecked
  BY <1>13, <1>c, <1>d DEF SetLastChecked, Goto, index, locals, saved
<1>14. CASE IndexBlock
  BY <1>14, <1>a, <1>c DEF IndexBlock, EndCall, Goto, memory, saved
<1>15. CASE Start
  BY <1>15, <1>b, <1>c DEF Start, EndCall, FinalizedHeaders, Goto, index, saved
<1>16. CASE ResetUnfinalizedBlocks
  BY <1>16, <1>c DEF ResetUnfinalizedBlocks, Goto, index, locals
<1>17. CASE ResetLastFinalizedVerifiedHeight
  BY <1>17, <1>c DEF ResetLastFinalizedVerifiedHeight, EndCall, Goto, index, memory
<1>18. CASE RegisterFinalizedBlock
  BY <1>18, <1>b, <1>c DEF RegisterFinalizedBlock, FinalizedHeaders, index, locals, saved
<1>19. CASE FetchBlock
  BY <1>19, <1>b, <1>c DEF FetchBlock, index, locals, saved, memory
<1>20. CASE Kill
  BY <1>20, <1>c DEF Kill, Goto, index, locals, saved, memory
<1>21. CASE MoveChain
  BY <1>21, ChainStepFacts DEF MoveChain, index, locals, saved, memory
<1>22. CASE UNCHANGED vars
  BY <1>22, <1>c DEF vars, index, locals, saved, memory
<1>. QED
  BY <1>1, <1>2, <1>3, <1>4, <1>5, <1>6, <1>7, <1>8, <1>9, <1>10, <1>11, <1>12,
     <1>13, <1>14, <1>15, <1>16, <1>17, <1>18, <1>19, <1>20, <1>21, <1>22
     DEF Next, Service, Register, Verify, Correct, Finish, Boot

\* Every variable keeps its type in every environment.
THEOREM TypeCorrect == Spec => []TypeOK
<1>1. TypeInv => TypeOK
  BY DEF TypeInv
<1>. QED BY <1>1, TypeInit, TypeNext, PTL DEF Spec

------------------------------------------------------------------------------
(* The recorded headers form one branch *)

\* A header linked to the last recorded one extends the branch.
LEMMA ChainedPush ==
  ASSUME NEW S \in SUBSET Blocks, Chained(S), NEW b \in Blocks, NEW l \in S,
         IsLast(l, S), Parent[b] = l
  PROVE  Chained(S \cup {b})
<1>. SUFFICES ASSUME NEW x \in S \cup {b}, NEW y \in S \cup {b}, Slot[x] <= Slot[y]
              PROVE  x \in Anc[y]
  BY DEF Chained
<1>1. Slot[l] < Slot[b] /\ Anc[l] \subseteq Anc[b] /\ b \in Anc[b]
  BY ParentFacts, AncType
<1>2. \A z \in S : Slot[z] <= Slot[l] /\ z \in Anc[l] /\ Slot[z] \in Nat /\ Slot[l] \in Nat
  BY TreeTypes DEF IsLast, Chained
<1>3. Slot[b] \in Nat
  BY TreeTypes
<1>. QED BY <1>1, <1>2, <1>3 DEF Chained

\* So does the first one, and a part of a branch is one.
LEMMA ChainedSmall ==
  /\ Chained({})
  /\ \A b \in Blocks : Chained({b})
  /\ \A S, T : Chained(S) /\ T \subseteq S => Chained(T)
BY AncType DEF Chained

LEMMA ListChainedNext == TypeInv /\ ListChained /\ [Next]_vars => ListChained'
<1>. SUFFICES ASSUME TypeInv, ListChained, [Next]_vars PROVE ListChained'
  OBVIOUS
<1>. USE DEF ListChained
<1>a. unfinalizedBlocks \in SUBSET Blocks
  BY DEF TypeInv, TypeOK
<1>b. ASSUME NEW b \in Blocks, NEW l \in unfinalizedBlocks,
             IsLast(l, unfinalizedBlocks), Connect(b, l)
      PROVE  Chained(unfinalizedBlocks') /\ Chained(savedBlocks')
  BY <1>a, <1>b, ChainedPush DEF Connect, Push
<1>1. CASE ProcessBlock
  <2>1. PICK b \in Blocks : RegisterUnfinalizedBlock(b)
    BY <1>1, ChainFacts DEF ProcessBlock, TypeInv, TypeOK
  <2>. QED BY <2>1, <1>b, ChainedSmall DEF RegisterUnfinalizedBlock, Push
<1>2. CASE BackfillSkippedSlot
  BY <1>2, <1>a, ChainedPush DEF BackfillSkippedSlot, saved
<1>3. CASE ConnectAfterBackfill
  BY <1>3, <1>b DEF ConnectAfterBackfill, TypeInv, Control
<1>4. CASE Rewind
  BY <1>4, ChainedSmall DEF Rewind, ResetMetadata
<1>5. CASE DeleteFinalizedBlock
  <2>1. unfinalizedBlocks' \subseteq unfinalizedBlocks /\ savedBlocks' = savedBlocks
    BY <1>5 DEF DeleteFinalizedBlock, RemoveFinalized
  <2>. QED BY <2>1, ChainedSmall
<1>6. CASE SaveUnfinalizedBlocks
  BY <1>6 DEF SaveUnfinalizedBlocks, memory
<1>7. CASE Start
  BY <1>7 DEF Start, saved
<1>8. CASE ResetUnfinalizedBlocks
  BY <1>8, ChainedSmall DEF ResetUnfinalizedBlocks
<1>9. CASE UNCHANGED <<unfinalizedBlocks, savedBlocks>>
  BY <1>9
<1>10. CASE Verify
  BY <1>10, <1>9 DEF Verify, HasForked, LookupHeader, WalkBack, saved, memory
<1>11. CASE GetLastCorrectFinalizedBlock \/ GetParentHeaderByHeight \/ FallBackToLastChecked
  BY <1>11, <1>9 DEF GetLastCorrectFinalizedBlock, GetParentHeaderByHeight,
     FallBackToLastChecked, saved, memory
<1>12. CASE SetLastChecked \/ IndexBlock \/ ResetLastFinalizedVerifiedHeight
  BY <1>12, <1>9 DEF SetLastChecked, IndexBlock, ResetLastFinalizedVerifiedHeight,
     saved, memory
<1>13. CASE RegisterFinalizedBlock \/ FetchBlock \/ Kill \/ MoveChain \/ UNCHANGED vars
  BY <1>13, <1>9 DEF RegisterFinalizedBlock, FetchBlock, Kill, MoveChain, vars,
     saved, memory
<1>. QED
  BY <1>1, <1>2, <1>3, <1>4, <1>5, <1>6, <1>7, <1>8, <1>10, <1>11, <1>12, <1>13
     DEF Next, Service, Register, Correct, Finish, Boot

\* In every environment the recorded headers form one branch.
THEOREM RecordsAreOneBranch == Spec => []ListChained
<1>1. Init => ListChained
  BY ChainedSmall DEF Init, ListChained
<1>. QED BY <1>1, TypeInit, TypeNext, ListChainedNext, PTL DEF Spec

------------------------------------------------------------------------------
(* The finalized header and the last checked height *)

\* The finalized header in use is final; so is the last checked height.
FinalInv == finalizedHeader \in Anc[root] /\ LastCheckedFinal

LEMMA FinalNext == TypeInv /\ FinalInv /\ [Next]_vars => FinalInv'
<1>. SUFFICES ASSUME TypeInv, FinalInv, [Next]_vars PROVE FinalInv'
  OBVIOUS
<1>. USE DEF FinalInv, LastCheckedFinal
<1>a. ChainTypeOK
  BY DEF TypeInv, TypeOK
<1>1. CASE DeleteFinalizedBlock
  BY <1>1 DEF DeleteFinalizedBlock, FinalizedNumber, chainVars
<1>2. CASE SetLastChecked
  BY <1>2 DEF SetLastChecked, FinalizedNumber, chainVars, saved
<1>3. CASE Start
  BY <1>3 DEF Start, FinalizedHeaders, chainVars, saved
<1>4. CASE RegisterFinalizedBlock
  BY <1>4 DEF RegisterFinalizedBlock, FinalizedHeaders, chainVars, saved
<1>5. CASE Rewind \/ ResetLastFinalizedVerifiedHeight
  BY <1>5 DEF Rewind, ResetMetadata, ResetLastFinalizedVerifiedHeight, memory, chainVars
<1>6. CASE MoveChain
  BY <1>6, <1>a, ChainStepFacts DEF MoveChain, saved, memory
<1>7. CASE UNCHANGED <<root, finalizedHeader, lastChecked, savedHeight>>
  BY <1>7
<1>8. CASE Register
  BY <1>8, <1>7 DEF Register, ProcessBlock, RegisterUnfinalizedBlock,
     BackfillSkippedSlot, ConnectAfterBackfill, chainVars, saved
<1>9. CASE Verify
  BY <1>9, <1>7 DEF Verify, HasForked, LookupHeader, WalkBack, chainVars, saved, memory
<1>10. CASE GetLastCorrectFinalizedBlock \/ GetParentHeaderByHeight \/ FallBackToLastChecked
  BY <1>10, <1>7 DEF GetLastCorrectFinalizedBlock, GetParentHeaderByHeight,
     FallBackToLastChecked, chainVars, saved, memory
<1>11. CASE SaveUnfinalizedBlocks \/ IndexBlock \/ ResetUnfinalizedBlocks
  BY <1>11, <1>7 DEF SaveUnfinalizedBlocks, IndexBlock, ResetUnfinalizedBlocks,
     chainVars, saved, memory
<1>12. CASE FetchBlock \/ Kill \/ UNCHANGED vars
  BY <1>12, <1>7 DEF FetchBlock, Kill, vars, chainVars, saved, memory
<1>. QED
  BY <1>1, <1>2, <1>3, <1>4, <1>5, <1>6, <1>8, <1>9, <1>10, <1>11, <1>12
     DEF Next, Service, Correct, Finish, Boot

LEMMA FinalInit == Init => FinalInv
<1>. SUFFICES ASSUME Init PROVE FinalInv
  OBVIOUS
<1>1. root \in Blocks
  BY ChainFacts DEF Init, ChainInit, ChainTypeOK
<1>. QED BY <1>1, AncType DEF Init, FinalInv, LastCheckedFinal

\* In every environment the height the service falls back to is final.
THEOREM CheckedHeightIsFinal == Spec => []LastCheckedFinal
<1>1. FinalInv => LastCheckedFinal
  BY DEF FinalInv
<1>. QED BY <1>1, FinalInit, TypeInit, TypeNext, FinalNext, PTL DEF Spec

------------------------------------------------------------------------------
(* Blocks are recorded in order *)

\* The call from init, or the time before it.
Booting == pc \in {"boot", "resetHeight"} \/ (pc \in CallPoints /\ header = None)

OrderInv ==
  /\ Sequential
  /\ pc = "resetHeight" => unfinalizedBlocks = {}
  /\ pc \in CallPoints /\ header # None =>
       /\ processed < Slot[header]
       /\ \A b \in unfinalizedBlocks : Slot[b] <= Slot[header]
  /\ pc = "backfill" =>
       cursor <= Slot[header] /\ \A b \in unfinalizedBlocks : Slot[b] < cursor
  /\ Booting \/ MaxQueue = 0 => queue = {}
  /\ \A c \in queue : pc # "down" => Slot[c] > processed /\ (header # None => Slot[c] > Slot[header])
  /\ \A c, d \in queue : Slot[c] = Slot[d] => c = d

LEMMA OrderNext == TypeInv /\ OrderInv /\ [Next]_vars => OrderInv'
<1>. SUFFICES ASSUME TypeInv, OrderInv, [Next]_vars PROVE OrderInv'
  OBVIOUS
<1>. USE DEF OrderInv, Sequential, Booting, CallPoints
<1>a. /\ Slot \in [Blocks -> Nat] /\ None \notin Blocks
      /\ unfinalizedBlocks \subseteq Blocks /\ queue \subseteq Blocks
      /\ header \in Blocks \cup {None} /\ processed \in Nat /\ cursor \in Int
      /\ finalizedHeader \in Blocks
  BY TreeTypes, ConstantsDistinct DEF TypeInv, TypeOK, Headers
<1>b. pc \in {"boot", "idle"} => header = None
  BY DEF TypeInv, Control
<1>c. pc = "backfill" => header \in Blocks
  BY DEF TypeInv, Control
<1>1. CASE ProcessBlock
  <2>1. PICK b \in Blocks :
          /\ RegisterUnfinalizedBlock(b) /\ Slot[b] > processed
          /\ \A c \in queue' : Slot[c] > Slot[b]
          /\ queue' \subseteq queue
    <3>1. CASE \E b \in Anc[head] : /\ Slot[b] > processed
                                    /\ RegisterUnfinalizedBlock(b)
                                    /\ UNCHANGED queue /\ MaxQueue = 0
      BY <3>1, <1>a, ChainFacts DEF TypeInv, TypeOK
    <3>2. CASE \E b \in queue : /\ IsFirst(b, queue)
                                /\ RegisterUnfinalizedBlock(b)
                                /\ queue' = queue \ {b}
      BY <3>2, <1>1, <1>a DEF IsFirst, ProcessBlock
    <3>. QED BY <1>1, <3>1, <3>2 DEF ProcessBlock
  <2>. QED BY <1>1, <2>1, <1>a DEF ProcessBlock, RegisterUnfinalizedBlock, Push, Connect, ForkFound, Goto, index, IsLast
<1>2. CASE BackfillSkippedSlot
  <2>1. GetHeaderForHeight(cursor) \in Blocks => Slot[GetHeaderForHeight(cursor)] = cursor
    BY ReplyFacts DEF TypeInv, TypeOK
  <2>. QED BY <1>2, <2>1, <1>a, <1>c DEF BackfillSkippedSlot, ForkFound, Goto, index
<1>3. CASE ConnectAfterBackfill
  BY <1>3, <1>a, <1>c DEF ConnectAfterBackfill, Connect, Push, ForkFound, Goto, index
<1>4. CASE Rewind
  BY <1>4, <1>a DEF Rewind, ResetMetadata, EndCall, Goto
<1>5. CASE DeleteFinalizedBlock
  BY <1>5, <1>a DEF DeleteFinalizedBlock, RemoveFinalized, Goto, index, locals
<1>6. CASE IndexBlock
  BY <1>6, <1>a DEF IndexBlock, EndCall, Goto, memory
<1>7. CASE Start
  BY <1>7, <1>a DEF Start, EndCall, Goto, index
<1>8. CASE ResetUnfinalizedBlocks
  BY <1>8, <1>a DEF ResetUnfinalizedBlocks, Goto, index, locals
<1>9. CASE ResetLastFinalizedVerifiedHeight
  BY <1>9, <1>a DEF ResetLastFinalizedVerifiedHeight, EndCall, Goto, index, memory
<1>10. CASE FetchBlock
  <2>1. MaxQueue # 0
    BY <1>10, FS_EmptySet DEF FetchBlock
  <2>. QED
    BY <1>10, <2>1, <1>a, ChainFacts
       DEF FetchBlock, Starting, index, locals, memory, TypeInv, TypeOK
<1>11. CASE HasForked \/ LookupHeader \/ WalkBack
  BY <1>11, <1>a DEF HasForked, LookupHeader, WalkBack, Compare, ForkFound, Goto, index, memory
<1>12. CASE GetLastCorrectFinalizedBlock \/ GetParentHeaderByHeight \/ FallBackToLastChecked
  BY <1>12, <1>a DEF GetLastCorrectFinalizedBlock, GetParentHeaderByHeight, Search,
     FallBackToLastChecked, Goto, index, memory
<1>13. CASE SaveUnfinalizedBlocks \/ SetLastChecked
  BY <1>13, <1>a DEF SaveUnfinalizedBlocks, SetLastChecked, Goto, index, memory, locals
<1>14. CASE RegisterFinalizedBlock \/ MoveChain \/ UNCHANGED vars
  BY <1>14, <1>a DEF RegisterFinalizedBlock, MoveChain, vars, index, memory, locals
<1>15. CASE Kill
  BY <1>15, <1>a DEF Kill, Goto, index, memory, locals
<1>. QED
  BY <1>1, <1>2, <1>3, <1>4, <1>5, <1>6, <1>7, <1>8, <1>9, <1>10, <1>11, <1>12,
     <1>13, <1>14, <1>15 DEF Next, Service, Register, Verify, Correct, Finish, Boot

\* In every environment the recorded headers stay behind the next block, so
\* that registerUnfinalizedBlock never exits for a block out of order.
THEOREM RecordedInOrder == Spec => []Sequential
<1>1. Init => OrderInv
  BY DEF Init, OrderInv, Sequential, Booting, CallPoints
<1>2. OrderInv => Sequential
  BY DEF OrderInv
<1>. QED BY <1>1, <1>2, TypeInit, TypeNext, OrderNext, PTL DEF Spec

------------------------------------------------------------------------------
(***************************************************************************)
(* Reorganisations are handled safely: finality may move at any await, any *)
(* number of blocks may be fetched ahead and the process may die and start *)
(* again at any time; only the steps of Harm are left out.                 *)
(***************************************************************************)

\* The records that can be compared with the finalized header.
Verifiable == UpTo(FinalizedNumber, unfinalizedBlocks)

CheckedHeights == {lastChecked, savedHeight} \cap Nat

\* An indexed block that is not final is recorded, in memory and in the
\* metadata, so that it is found again after a restart.
Recorded ==
  /\ Tracked
  /\ indexed \subseteq Anc[root] \cup savedBlocks
  /\ pc \notin {"saveList", "down"} => savedBlocks \subseteq unfinalizedBlocks

\* A record that is not above a checked height is final.
CheckedFinal ==
  \A h \in CheckedHeights : \A b \in unfinalizedBlocks \cup savedBlocks :
    Slot[b] <= h => b \in Anc[root]

\* After a restart the endpoint may answer with an older finalized header than
\* the one checked last; what is then recorded below that height is final too.
NotBehind ==
  /\ \A h \in CheckedHeights : \A b \in queue :
       FinalizedNumber < Slot[b] /\ Slot[b] <= h => b \in Anc[root]
  /\ pc = "backfill" => \A h \in CheckedHeights : Slot[header] <= h => header \in Anc[root]

\* Suspension points of a call that has found no fork.
NoForkPoints == {"hasForked", "lookup", "walk", "delete", "saveList", "checked", "done"}

\* While no fork is found, the block being processed is final or recorded.
HeaderTracked ==
  pc \in NoForkPoints /\ header # None =>
    header \in Anc[finalizedHeader] \cup (unfinalizedBlocks \cap savedBlocks)

\* What the comparison of hasForked stands for while it is under way, and what
\* it has shown until deleteFinalizedBlock is done.
Verifying ==
  /\ pc \in {"lookup", "walk"} =>
       /\ verifiable \in Verifiable
       /\ \A b \in Verifiable : Slot[b] <= Slot[verifiable] \/ b \in Anc[finalizedHeader]
  /\ pc \in {"delete", "saveList", "checked"} \/ (pc = "done" /\ header = None) =>
       Verifiable \subseteq Anc[finalizedHeader]

\* getLastCorrectFinalizedBlock searches records that finality has reached.
Searching == pc = "parent" => best \subseteq Verifiable

\* The target of a rewind is final and everything below it is on its branch.
GoodTarget ==
  pc = "rewind" =>
    /\ rewindTo \in Anc[root]
    /\ UpTo(Slot[rewindTo], indexed \cup unfinalizedBlocks) \subseteq Anc[rewindTo]

SafeInv == /\ Recorded /\ CheckedFinal /\ NotBehind
           /\ HeaderTracked /\ Verifying /\ Searching /\ GoodTarget

\* What holds in every environment.
BaseInv == TypeInv /\ ListChained /\ FinalInv /\ OrderInv

------------------------------------------------------------------------------
(* Branches *)

\* Two blocks of one branch: the one in the earlier slot is an ancestor.
LEMMA Linear ==
  ASSUME NEW z \in Blocks, NEW x \in Anc[z], NEW y \in Anc[z], Slot[x] <= Slot[y]
  PROVE  x \in Anc[y]
BY BranchesLinear

LEMMA BaseFacts ==
  ASSUME BaseInv
  PROVE  /\ Slot \in [Blocks -> Nat] /\ \A b \in Blocks : Slot[b] > 0
         /\ None \notin Blocks /\ unfinalizedBlocks \subseteq Blocks
         /\ savedBlocks \subseteq Blocks /\ queue \subseteq Blocks
         /\ indexed \subseteq Blocks /\ header \in Blocks \cup {None}
         /\ finalizedHeader \in Blocks /\ finalizedHeader \in Anc[head]
         /\ root \in Blocks /\ head \in Blocks
         /\ Anc[finalizedHeader] \subseteq Anc[root]
         /\ Anc[root] \subseteq Anc[head] /\ Anc[head] \subseteq Blocks
         /\ FinalizedNumber = Slot[finalizedHeader] /\ FinalizedNumber \in Nat \ {0}
<1>1. ChainTypeOK /\ finalizedHeader \in Anc[root]
  BY DEF BaseInv, TypeInv, TypeOK, FinalInv
<1>2. /\ root \in Blocks /\ head \in Blocks /\ Anc[root] \subseteq Anc[head]
      /\ Anc[head] \subseteq Blocks
  BY <1>1, ChainFacts
<1>3. Anc[finalizedHeader] \subseteq Anc[root]
  BY <1>1, <1>2, TreeShape
<1>. QED
  BY <1>1, <1>2, <1>3, TreeTypes, ConstantsDistinct
     DEF BaseInv, TypeInv, TypeOK, Headers, FinalizedNumber

\* A block on one branch with the finalized header and not above it is final.
LEMMA NotAboveIsFinal ==
  ASSUME BaseInv, NEW x \in Blocks, Slot[x] <= FinalizedNumber,
         x \in Anc[finalizedHeader] \/ finalizedHeader \in Anc[x]
  PROVE  x \in Anc[finalizedHeader]
BY BaseFacts, Linear, AncType

\* A confirmed block is on one branch with the finalized header.
LEMMA ConfirmedComparable ==
  ASSUME BaseInv, NEW x \in Anc[head]
  PROVE  x \in Anc[finalizedHeader] \/ finalizedHeader \in Anc[x]
BY BaseFacts, Linear

\* What the answer of getHeaderByHeight tells about the finalized branch.
LEMMA ReplyComparable ==
  ASSUME BaseInv, NEW h, GetHeaderForHeight(h) \in Blocks
  PROVE  LET r == GetHeaderForHeight(h) IN
         /\ Slot[r] = h /\ r \in Anc[head]
         /\ r \in Anc[finalizedHeader] \/ finalizedHeader \in Anc[r]
BY ReplyFacts, ConfirmedComparable DEF BaseInv, TypeInv, TypeOK

\* If the last verifiable record is final, so are the ones below it.
LEMMA LastVouches ==
  ASSUME BaseInv, NEW v, IsLast(v, Verifiable), v \in Anc[finalizedHeader]
  PROVE  Verifiable \subseteq Anc[finalizedHeader]
<1>1. \A b \in Verifiable : b \in Anc[v]
  BY DEF IsLast, Verifiable, UpTo, BaseInv, ListChained, Chained
<1>2. Anc[v] \subseteq Anc[finalizedHeader]
  BY BaseFacts, TreeShape
<1>. QED BY <1>1, <1>2
\* A confirmed block that is not above a checked height is final.
LEMMA ConfirmedChecked ==
  ASSUME BaseInv, NEW h \in CheckedHeights, NEW x \in Anc[head], Slot[x] <= h
  PROVE  x \in Anc[root]
<1>1. PICK c \in Anc[root] : Slot[c] = h
  BY EnvironmentTypes DEF BaseInv, FinalInv, LastCheckedFinal, CheckedHeights
<1>2. x \in Anc[c] /\ c \in Blocks
  BY <1>1, BaseFacts, Linear
<1>. QED BY <1>1, <1>2, BaseFacts, TreeShape

\* A record that is final, or a checked height, is a good target.
LEMMA FinalTarget ==
  ASSUME BaseInv, Tracked, NEW t \in Anc[root],
         t \in unfinalizedBlocks
           \/ \A b \in unfinalizedBlocks : Slot[b] <= Slot[t] => b \in Anc[root]
  PROVE  UpTo(Slot[t], indexed \cup unfinalizedBlocks) \subseteq Anc[t]
<1>. SUFFICES ASSUME NEW b \in indexed \cup unfinalizedBlocks, Slot[b] <= Slot[t]
              PROVE  b \in Anc[t]
  BY DEF UpTo
<1>1. b \in Blocks /\ t \in Blocks
  BY BaseFacts
<1>2. CASE b \in Anc[root]
  BY <1>2, BaseFacts, Linear
<1>3. CASE b \in unfinalizedBlocks /\ b \notin Anc[root]
  BY <1>3, <1>1 DEF BaseInv, ListChained, Chained
<1>. QED BY <1>2, <1>3 DEF Tracked

\* A record not above the finalized header that matches a block on one branch
\* with it is final.
LEMMA MatchIsFinal ==
  ASSUME BaseInv, NEW t \in Verifiable, NEW c \in Blocks, Matches(t, c),
         OnOneBranch(c, finalizedHeader)
  PROVE  t \in Anc[root]
<1>. USE BaseFacts
<1>1. t \in Blocks /\ Slot[t] <= Slot[finalizedHeader]
  BY DEF Verifiable, UpTo
<1>2. t \in Anc[c]
  BY <1>1, ParentFacts, AncType DEF Matches
<1>3. CASE c \in Anc[finalizedHeader]
  BY <1>2, <1>3, TreeShape
<1>4. CASE finalizedHeader \in Anc[c]
  BY <1>1, <1>2, <1>4, Linear
<1>. QED BY <1>3, <1>4 DEF OnOneBranch

\* The search for a target goes on with fewer records, or ends in a match.
LEMMA SearchFacts ==
  ASSUME BaseInv, NEW S \in SUBSET Verifiable, NEW c \in Blocks, Search(S, c),
         OnOneBranch(c, finalizedHeader)
  PROVE  /\ pc' \in {"fallback", "done", "rewind", "parent"}
         /\ pc' = "parent" => best' \subseteq S
         /\ pc' = "rewind" => rewindTo' \in S /\ rewindTo' \in Anc[root]
<1>1. S \in SUBSET Blocks
  BY BaseFacts DEF Verifiable, UpTo
<1>2. pc' \in {"fallback", "done", "rewind", "parent"}
      /\ (pc' = "parent" => best' \subseteq S)
  BY <1>1 DEF Search, Goto
<1>3. pc' = "rewind" => rewindTo' \in S /\ Matches(rewindTo', c)
  BY <1>1 DEF Search, Goto
<1>. QED BY <1>2, <1>3, MatchIsFinal

\* The header the service falls back to is final.
LEMMA FallbackIsFinal ==
  ASSUME BaseInv, GetHeaderForHeight(VerifiedHeight) \in Blocks
  PROVE  /\ GetHeaderForHeight(VerifiedHeight) \in Anc[root]
         /\ Slot[GetHeaderForHeight(VerifiedHeight)] = lastChecked
         /\ lastChecked \in CheckedHeights
<1>. DEFINE t == GetHeaderForHeight(VerifiedHeight)
<1>1. Slot[t] = lastChecked /\ t \in Anc[head]
  BY ReplyComparable DEF VerifiedHeight
<1>2. lastChecked \in CheckedHeights
  BY <1>1, BaseFacts DEF CheckedHeights
<1>. QED BY <1>1, <1>2, BaseFacts, ConfirmedChecked

------------------------------------------------------------------------------
(* The target of a rewind *)

TargetInv == Searching /\ TargetFinal

LEMMA TargetNext ==
  ASSUME BaseInv, BaseInv', TargetInv, [Next /\ ~StaleFork]_vars
  PROVE  TargetInv'
<1>. USE BaseFacts DEF TargetInv, Searching, TargetFinal, Verifiable, UpTo, Goto,
       chainVars, index, memory, saved, locals, FinalizedNumber
<1>1. CASE Register
  BY <1>1 DEF Register, ProcessBlock, RegisterUnfinalizedBlock, BackfillSkippedSlot,
     ConnectAfterBackfill, Push, Connect, ForkFound
<1>2. CASE Verify
  BY <1>2 DEF Verify, HasForked, LookupHeader, WalkBack, Compare, ForkFound
<1>3. CASE GetLastCorrectFinalizedBlock /\ ~StaleFork
  <2>1. checking \in Blocks /\ OnOneBranch(checking, finalizedHeader)
    BY <1>3 DEF StaleFork, GetLastCorrectFinalizedBlock, BaseInv, TypeInv, Control
  <2>2. /\ pc' \in {"fallback", "done", "rewind", "parent"}
        /\ pc' = "parent" => best' \subseteq Verifiable
        /\ pc' = "rewind" => rewindTo' \in Anc[root]
    BY <1>3, <2>1, SearchFacts DEF GetLastCorrectFinalizedBlock
  <2>. QED BY <1>3, <2>2 DEF GetLastCorrectFinalizedBlock
<1>4. CASE GetParentHeaderByHeight
  <2>. DEFINE r == GetHeaderForHeight(cursor)
  <2>1. CASE r \in Blocks /\ checking' = r /\ Search(best, r)
    <3>1. OnOneBranch(r, finalizedHeader)
      BY <2>1, ReplyComparable DEF OnOneBranch
    <3>2. best \subseteq Verifiable
      BY <1>4 DEF GetParentHeaderByHeight
    <3>3. /\ pc' \in {"fallback", "done", "rewind", "parent"}
          /\ pc' = "parent" => best' \subseteq best
          /\ pc' = "rewind" => rewindTo' \in Anc[root]
      BY <2>1, <3>1, <3>2, SearchFacts
    <3>. QED BY <1>4, <3>2, <3>3 DEF GetParentHeaderByHeight
  <2>2. CASE ~(r \in Blocks /\ checking' = r /\ Search(best, r))
    BY <1>4, <2>2 DEF GetParentHeaderByHeight
  <2>. QED BY <2>1, <2>2
<1>5. CASE FallBackToLastChecked
  BY <1>5, FallbackIsFinal DEF FallBackToLastChecked
<1>6. CASE Rewind
  BY <1>6 DEF Rewind
<1>7. CASE Finish
  BY <1>7 DEF Finish, DeleteFinalizedBlock, SaveUnfinalizedBlocks, SetLastChecked, IndexBlock
<1>8. CASE Boot
  BY <1>8 DEF Boot, Start, ResetUnfinalizedBlocks, ResetLastFinalizedVerifiedHeight
<1>9. CASE RegisterFinalizedBlock
  <2>1. PICK b \in Anc[root] : finalizedHeader' = b /\ ~(Slot[finalizedHeader] >= Slot[b])
    BY <1>9 DEF RegisterFinalizedBlock, NewerHeader, FinalizedHeaders
  <2>. QED BY <1>9, <2>1 DEF RegisterFinalizedBlock
<1>10. CASE FetchBlock \/ Kill
  BY <1>10 DEF FetchBlock, Kill
<1>11. CASE MoveChain
  <2>1. Anc[root] \subseteq Anc[root']
    BY <1>11, ChainStepFacts DEF MoveChain, BaseInv, TypeInv, TypeOK
  <2>. QED BY <1>11, <2>1 DEF MoveChain
<1>12. CASE UNCHANGED vars
  BY <1>12 DEF vars
<1>. QED
  BY <1>1, <1>2, <1>3, <1>4, <1>5, <1>6, <1>7, <1>8, <1>9, <1>10, <1>11, <1>12
     DEF Next, Service, Correct

LEMMA BaseInvariant == Spec => []BaseInv
<1>1. Init => OrderInv
  BY DEF Init, OrderInv, Sequential, Booting, CallPoints
<1>2. Init => ListChained
  BY ChainedSmall DEF Init, ListChained
<1>. QED
  BY <1>1, <1>2, TypeInit, TypeNext, FinalInit, FinalNext, ListChainedNext, OrderNext,
     PTL DEF Spec, BaseInv

\* In every environment, restarts, finality during calls and stale blocks
\* included, a rewind goes to a final block, unless the search is started from
\* a header of an abandoned branch.
THEOREM TargetIsFinal == FreshForkSpec => []TargetFinal
<1>1. Init => TargetInv
  BY DEF Init, TargetInv, Searching, TargetFinal
<1>2. BaseInv /\ BaseInv' /\ TargetInv /\ [Next /\ ~StaleFork]_vars => TargetInv'
  BY TargetNext
<1>3. TargetInv => TargetFinal
  BY DEF TargetInv
<1>4. [Next /\ ~StaleFork]_vars => [Next]_vars
  OBVIOUS
<1>5. FreshForkSpec => Spec
  BY <1>4, PTL DEF FreshForkSpec, Spec
<1>. QED BY <1>1, <1>2, <1>3, <1>5, BaseInvariant, PTL DEF FreshForkSpec

------------------------------------------------------------------------------
(* Every harmless step keeps the invariant *)

\* A header that is pushed is recorded twice, and final if not above a height
\* checked before.
LEMMA SafePush ==
  ASSUME BaseInv, SafeInv, NEW b \in Blocks, Push(b), header' = b,
         pc \notin {"saveList", "down"},
         \A h \in CheckedHeights : Slot[b] <= h => b \in Anc[root],
         \A c \in queue' : c \in queue,
         UNCHANGED <<root, savedHeight, finalizedHeader, lastChecked, indexed>>
  PROVE  SafeInv'
<1>. USE DEF Push, Goto, CheckedHeights
<1>1. Recorded'
  BY DEF SafeInv, Recorded, Tracked
<1>2. CheckedFinal'
  BY DEF SafeInv, Recorded, CheckedFinal
<1>3. NotBehind'
  BY DEF SafeInv, NotBehind, FinalizedNumber
<1>4. HeaderTracked' /\ Verifying' /\ Searching' /\ GoodTarget'
  BY DEF HeaderTracked, Verifying, Searching, GoodTarget
<1>. QED BY <1>1, <1>2, <1>3, <1>4 DEF SafeInv

LEMMA SafeRegister ==
  ASSUME BaseInv, SafeInv, Register, ~Harm
  PROVE  SafeInv'
<1>. USE BaseFacts DEF Goto, ForkFound, chainVars, index, saved
<1>1. CASE ProcessBlock
  <2>1. pc = "idle"
    BY <1>1 DEF ProcessBlock
  <2>2. PICK b \in Blocks :
          /\ RegisterUnfinalizedBlock(b)
          /\ b \in Anc[head] \/ b \in queue
          /\ queue' \subseteq queue
    BY <1>1 DEF ProcessBlock, BaseInv, TypeInv, TypeOK
  <2>3. OnOneBranch(b, finalizedHeader) /\ b # None
    <3>1. header' = b
      BY <2>2 DEF RegisterUnfinalizedBlock
    <3>. QED BY <3>1, <1>1 DEF Harm, StaleBlock
  <2>4. ASSUME NEW h \in CheckedHeights, Slot[b] <= h, Slot[b] > FinalizedNumber
        PROVE  b \in Anc[root]
    BY <2>2, <2>4, ConfirmedChecked DEF SafeInv, NotBehind
  <2>5. /\ header' = b
        /\ UNCHANGED <<head, root, savedHeight, finalizedHeader, lastChecked, indexed>>
    BY <2>2 DEF RegisterUnfinalizedBlock
  <2>6. CASE Push(b) /\ Slot[b] > FinalizedNumber
    BY <2>1, <2>2, <2>4, <2>5, <2>6, SafePush
  <2>7. CASE /\ UNCHANGED <<unfinalizedBlocks, savedBlocks>>
             /\ pc' \in {"hasForked", "down", "backfill", "correct"}
             /\ pc' = "hasForked" => b \in Anc[finalizedHeader]
             /\ pc' = "backfill" => Slot[b] > FinalizedNumber
    <3>1. Recorded' /\ CheckedFinal'
      BY <2>1, <2>5, <2>7 DEF SafeInv, Recorded, Tracked, CheckedFinal, CheckedHeights
    <3>2. NotBehind'
      BY <2>2, <2>4, <2>5, <2>7 DEF SafeInv, NotBehind, CheckedHeights, FinalizedNumber
    <3>3. HeaderTracked' /\ Verifying' /\ Searching' /\ GoodTarget'
      BY <2>5, <2>7 DEF HeaderTracked, Verifying, Searching, GoodTarget, NoForkPoints
    <3>. QED BY <3>1, <3>2, <3>3 DEF SafeInv
  <2>8. Slot[b] <= FinalizedNumber => b \in Anc[finalizedHeader]
    BY <2>3, NotAboveIsFinal DEF OnOneBranch
  <2>. QED BY <2>2, <2>6, <2>7, <2>8 DEF RegisterUnfinalizedBlock, Connect
<1>2. CASE BackfillSkippedSlot
  <2>1. GetHeaderForHeight(cursor) \in Blocks => GetHeaderForHeight(cursor) \in Anc[head]
    BY ReplyComparable
  <2>2. /\ pc = "backfill" /\ pc' \in {"backfill", "correct", "down"}
        /\ UNCHANGED <<root, savedBlocks, savedHeight, finalizedHeader, lastChecked,
                       indexed, header, queue>>
        /\ unfinalizedBlocks \subseteq unfinalizedBlocks'
        /\ unfinalizedBlocks' \subseteq unfinalizedBlocks \cup Anc[head]
    BY <1>2, <2>1 DEF BackfillSkippedSlot
  <2>3. Recorded'
    BY <2>2 DEF SafeInv, Recorded, Tracked
  <2>4. CheckedFinal'
    BY <2>2, ConfirmedChecked DEF SafeInv, CheckedFinal, CheckedHeights
  <2>5. NotBehind'
    BY <2>2 DEF SafeInv, NotBehind, CheckedHeights, FinalizedNumber
  <2>6. HeaderTracked' /\ Verifying' /\ Searching' /\ GoodTarget'
    BY <2>2 DEF HeaderTracked, Verifying, Searching, GoodTarget, NoForkPoints
  <2>. QED BY <2>3, <2>4, <2>5, <2>6 DEF SafeInv
<1>3. CASE ConnectAfterBackfill
  <2>1. /\ pc = "backfill" /\ header \in Blocks /\ header' = header
        /\ UNCHANGED <<root, savedHeight, finalizedHeader, lastChecked, indexed, queue>>
    BY <1>3 DEF ConnectAfterBackfill, BaseInv, TypeInv, Control
  <2>2. CASE Push(header)
    <3>1. \A h \in CheckedHeights : Slot[header] <= h => header \in Anc[root]
      BY <2>1 DEF SafeInv, NotBehind
    <3>. QED BY <2>1, <2>2, <3>1, SafePush
  <2>3. CASE UNCHANGED <<unfinalizedBlocks, savedBlocks>> /\ pc' = "correct"
    <3>1. Recorded' /\ CheckedFinal' /\ NotBehind'
      BY <2>1, <2>3 DEF SafeInv, Recorded, Tracked, CheckedFinal, CheckedHeights, NotBehind,
         FinalizedNumber
    <3>2. HeaderTracked' /\ Verifying' /\ Searching' /\ GoodTarget'
      BY <2>3 DEF HeaderTracked, Verifying, Searching, GoodTarget, NoForkPoints
    <3>. QED BY <3>1, <3>2 DEF SafeInv
  <2>. QED BY <1>3, <2>2, <2>3 DEF ConnectAfterBackfill, Connect
<1>. QED BY <1>1, <1>2, <1>3 DEF Register

\* Steps that only read: the records, the heights and the store stay.
LEMMA SafeRead ==
  ASSUME SafeInv, pc \notin {"saveList", "down"},
         pc' # "backfill",
         UNCHANGED <<root, unfinalizedBlocks, savedBlocks, savedHeight, finalizedHeader,
                     lastChecked, indexed, queue>>
  PROVE  Recorded' /\ CheckedFinal' /\ NotBehind'
BY DEF SafeInv, Recorded, Tracked, CheckedFinal, CheckedHeights, NotBehind, FinalizedNumber

LEMMA SafeVerify ==
  ASSUME BaseInv, SafeInv, Verify
  PROVE  SafeInv'
<1>. USE BaseFacts DEF Goto, ForkFound, chainVars, index, memory, saved
<1>0. /\ pc \in {"hasForked", "lookup", "walk"}
      /\ UNCHANGED <<root, unfinalizedBlocks, savedBlocks, savedHeight, finalizedHeader,
                     lastChecked, indexed, header, queue>>
      /\ pc' \in {"lookup", "walk", "delete", "correct", "down"}
  BY DEF Verify, HasForked, LookupHeader, WalkBack, Compare
<1>1. Recorded' /\ CheckedFinal' /\ NotBehind'
  BY <1>0, SafeRead
<1>2. HeaderTracked' /\ Searching' /\ GoodTarget'
  BY <1>0 DEF SafeInv, HeaderTracked, Searching, GoodTarget, NoForkPoints
<1>3. Verifying'
  <2>. USE DEF Verifying, Verifiable, UpTo, FinalizedNumber
  <2>1. CASE HasForked
    <3>1. finalizedHeader \in Anc[finalizedHeader]
      BY AncType
    <3>2. \A v : IsLast(v, Verifiable) /\ v = finalizedHeader
                 => Verifiable \subseteq Anc[finalizedHeader]
      BY <3>1, LastVouches
    <3>. QED BY <2>1, <1>0, <3>2 DEF HasForked, IsLast
  <2>2. CASE LookupHeader \/ WalkBack
    <3>1. /\ verifiable \in Verifiable /\ verifiable' = verifiable
          /\ \A b \in Verifiable : Slot[b] <= Slot[verifiable] \/ b \in Anc[finalizedHeader]
      BY <2>2 DEF LookupHeader, WalkBack, SafeInv
    <3>2. ASSUME GetHeaderForHeight(cursor) = verifiable
          PROVE  Verifiable \subseteq Anc[finalizedHeader]
      <4>1. verifiable \in Anc[finalizedHeader]
        BY <3>1, <3>2, ReplyComparable, NotAboveIsFinal
      <4>2. \A b \in Verifiable : Slot[b] <= Slot[verifiable] => b \in Anc[verifiable]
        BY <3>1 DEF BaseInv, ListChained, Chained
      <4>. QED BY <3>1, <4>1, <4>2, TreeShape
    <3>. QED BY <2>2, <1>0, <3>1, <3>2 DEF LookupHeader, WalkBack, Compare
  <2>. QED BY <2>1, <2>2 DEF Verify
<1>. QED BY <1>1, <1>2, <1>3 DEF SafeInv

LEMMA SafeCorrect ==
  ASSUME BaseInv, SafeInv, Correct, ~Harm
  PROVE  SafeInv'
<1>. USE DEF chainVars, index, memory, saved
<1>1. ASSUME NEW S \in SUBSET Verifiable, NEW c \in Blocks, Search(S, c),
             OnOneBranch(c, finalizedHeader), pc \in {"correct", "parent"},
             UNCHANGED <<root, unfinalizedBlocks, savedBlocks, savedHeight, finalizedHeader,
                         lastChecked, indexed, queue>>
      PROVE  SafeInv'
  <2>1. pc' # "done"
    BY <1>1 DEF Harm, NoTarget
  <2>2. /\ pc' \in {"fallback", "rewind", "parent"}
        /\ pc' = "parent" => best' \subseteq S
        /\ pc' = "rewind" => rewindTo' \in S /\ rewindTo' \in Anc[root]
    BY <1>1, <2>1, SearchFacts
  <2>3. Recorded' /\ CheckedFinal' /\ NotBehind'
    BY <1>1, <2>2, SafeRead
  <2>4. HeaderTracked' /\ Verifying'
    BY <2>2 DEF HeaderTracked, Verifying, NoForkPoints
  <2>5. Searching'
    BY <1>1, <2>2 DEF Searching, Verifiable, UpTo, FinalizedNumber
  <2>6. GoodTarget'
    <3>. SUFFICES ASSUME pc' = "rewind" PROVE GoodTarget'
      BY DEF GoodTarget
    <3>1. rewindTo' \in unfinalizedBlocks /\ rewindTo' \in Anc[root]
      BY <2>2 DEF Verifiable, UpTo
    <3>2. UpTo(Slot[rewindTo'], indexed \cup unfinalizedBlocks) \subseteq Anc[rewindTo']
      BY <3>1, FinalTarget DEF SafeInv, Recorded
    <3>. QED BY <1>1, <3>1, <3>2 DEF GoodTarget, UpTo
  <2>. QED BY <2>3, <2>4, <2>5, <2>6 DEF SafeInv
<1>2. CASE GetLastCorrectFinalizedBlock
  <2>1. OnOneBranch(checking, finalizedHeader) /\ checking \in Blocks /\ pc = "correct"
    BY <1>2 DEF Harm, StaleFork, GetLastCorrectFinalizedBlock, BaseInv, TypeInv, Control
  <2>. QED BY <1>1, <1>2, <2>1 DEF GetLastCorrectFinalizedBlock, Verifiable
<1>3. CASE GetParentHeaderByHeight
  <2>. DEFINE r == GetHeaderForHeight(cursor)
  <2>1. /\ pc = "parent" /\ best \subseteq Verifiable
        /\ UNCHANGED <<root, unfinalizedBlocks, savedBlocks, savedHeight, finalizedHeader,
                       lastChecked, indexed, queue>>
    BY <1>3 DEF GetParentHeaderByHeight, SafeInv, Searching
  <2>2. CASE r \in Blocks /\ checking' = r /\ Search(best, r)
    <3>1. OnOneBranch(r, finalizedHeader)
      BY <2>2, ReplyComparable DEF OnOneBranch
    <3>. QED BY <1>1, <2>1, <2>2, <3>1
  <2>3. CASE pc' \in {"parent", "down"} /\ best' = best
    <3>1. Recorded' /\ CheckedFinal' /\ NotBehind'
      BY <2>1, <2>3, SafeRead
    <3>2. HeaderTracked' /\ Verifying' /\ Searching' /\ GoodTarget'
      BY <2>1, <2>3 DEF HeaderTracked, Verifying, Searching, GoodTarget, NoForkPoints,
         Verifiable, UpTo, FinalizedNumber
    <3>. QED BY <3>1, <3>2 DEF SafeInv
  <2>. QED BY <1>3, <2>1, <2>2, <2>3 DEF GetParentHeaderByHeight, Goto
<1>4. CASE FallBackToLastChecked
  <2>. DEFINE t == GetHeaderForHeight(VerifiedHeight)
  <2>1. /\ pc = "fallback" /\ pc' \in {"rewind", "down"}
        /\ UNCHANGED <<root, unfinalizedBlocks, savedBlocks, savedHeight, finalizedHeader,
                       lastChecked, indexed, queue>>
        /\ pc' = "rewind" => t \in Blocks /\ rewindTo' = t
    BY <1>4 DEF FallBackToLastChecked, Goto
  <2>2. Recorded' /\ CheckedFinal' /\ NotBehind'
    BY <2>1, SafeRead
  <2>3. HeaderTracked' /\ Verifying' /\ Searching'
    BY <2>1 DEF HeaderTracked, Verifying, Searching, NoForkPoints
  <2>4. GoodTarget'
    <3>. SUFFICES ASSUME pc' = "rewind" PROVE GoodTarget'
      BY DEF GoodTarget
    <3>1. t \in Anc[root] /\ Slot[t] = lastChecked /\ lastChecked \in CheckedHeights
      BY <2>1, FallbackIsFinal
    <3>2. \A b \in unfinalizedBlocks : Slot[b] <= Slot[t] => b \in Anc[root]
      BY <3>1 DEF SafeInv, CheckedFinal
    <3>3. UpTo(Slot[t], indexed \cup unfinalizedBlocks) \subseteq Anc[t]
      BY <3>1, <3>2, FinalTarget DEF SafeInv, Recorded
    <3>. QED BY <2>1, <3>1, <3>3 DEF GoodTarget, UpTo
  <2>. QED BY <2>2, <2>3, <2>4 DEF SafeInv
<1>5. CASE Rewind
  <2>1. /\ indexed' = UpTo(Slot[rewindTo], indexed) /\ unfinalizedBlocks' = {}
        /\ savedBlocks' = {} /\ queue' = {} /\ root' = root /\ pc' = "idle"
        /\ pc = "rewind"
    BY <1>5 DEF Rewind, ResetMetadata, Goto
  <2>2. indexed' \subseteq Anc[root]
    BY <2>1, BaseFacts, TreeShape DEF SafeInv, GoodTarget, UpTo
  <2>. QED
    BY <2>1, <2>2 DEF SafeInv, Recorded, Tracked, CheckedFinal, NotBehind, HeaderTracked,
       Verifying, Searching, GoodTarget, NoForkPoints
<1>. QED BY <1>2, <1>3, <1>4, <1>5 DEF Correct

LEMMA SafeFinish ==
  ASSUME BaseInv, SafeInv, Finish
  PROVE  SafeInv'
<1>. USE BaseFacts DEF Goto, chainVars, index, locals, saved, memory
<1>1. CASE DeleteFinalizedBlock
  <2>1. /\ pc = "delete" /\ pc' \in {"saveList", "done"}
        /\ UNCHANGED <<head, root, finalizedHeader, header, indexed, savedBlocks, queue>>
        /\ unfinalizedBlocks' \subseteq unfinalizedBlocks
        /\ \A b \in unfinalizedBlocks : b \in unfinalizedBlocks' \/ Slot[b] <= FinalizedNumber
        /\ pc' = "done" => unfinalizedBlocks' = unfinalizedBlocks
        /\ {lastChecked', savedHeight'} \subseteq {lastChecked, savedHeight, FinalizedNumber}
    BY <1>1 DEF DeleteFinalizedBlock, RemoveFinalized
  <2>2. \A b \in unfinalizedBlocks : Slot[b] <= FinalizedNumber => b \in Anc[finalizedHeader]
    BY <2>1 DEF SafeInv, Verifying, Verifiable, UpTo
  <2>3. savedBlocks \subseteq unfinalizedBlocks
    BY <2>1 DEF SafeInv, Recorded
  <2>4. Recorded'
    BY <2>1, <2>2, <2>3 DEF SafeInv, Recorded, Tracked
  <2>5. CheckedFinal'
    BY <2>1, <2>2, <2>3 DEF SafeInv, CheckedFinal, CheckedHeights
  <2>6. NotBehind'
    BY <2>1 DEF SafeInv, NotBehind, CheckedHeights, FinalizedNumber
  <2>7. HeaderTracked'
    BY <2>1, <2>2 DEF SafeInv, HeaderTracked, NoForkPoints
  <2>8. Verifying' /\ Searching' /\ GoodTarget'
    BY <2>1, <2>2 DEF Verifying, Searching, GoodTarget, Verifiable, UpTo, FinalizedNumber
  <2>. QED BY <2>4, <2>5, <2>6, <2>7, <2>8 DEF SafeInv
<1>2. CASE SaveUnfinalizedBlocks
  <2>1. /\ pc = "saveList" /\ pc' = "checked" /\ savedBlocks' = unfinalizedBlocks
        /\ UNCHANGED <<root, finalizedHeader, header, indexed, unfinalizedBlocks, queue,
                       lastChecked, savedHeight>>
    BY <1>2 DEF SaveUnfinalizedBlocks
  <2>2. Recorded' /\ CheckedFinal' /\ NotBehind'
    BY <2>1 DEF SafeInv, Recorded, Tracked, CheckedFinal, CheckedHeights, NotBehind, FinalizedNumber
  <2>3. HeaderTracked' /\ Verifying' /\ Searching' /\ GoodTarget'
    BY <2>1 DEF SafeInv, HeaderTracked, NoForkPoints, Verifying, Searching, GoodTarget,
       Verifiable, UpTo, FinalizedNumber
  <2>. QED BY <2>2, <2>3 DEF SafeInv
<1>3. CASE SetLastChecked
  <2>1. /\ pc = "checked" /\ pc' = "done" /\ lastChecked' = FinalizedNumber
        /\ UNCHANGED <<root, finalizedHeader, header, indexed, unfinalizedBlocks, queue,
                       savedBlocks, savedHeight>>
    BY <1>3 DEF SetLastChecked
  <2>2. \A b \in unfinalizedBlocks : Slot[b] <= FinalizedNumber => b \in Anc[finalizedHeader]
    BY <2>1 DEF SafeInv, Verifying, Verifiable, UpTo
  <2>3. Recorded' /\ CheckedFinal' /\ NotBehind'
    BY <2>1, <2>2 DEF SafeInv, Recorded, Tracked, CheckedFinal, CheckedHeights, NotBehind,
       FinalizedNumber
  <2>4. HeaderTracked' /\ Verifying' /\ Searching' /\ GoodTarget'
    BY <2>1, <2>2 DEF SafeInv, HeaderTracked, NoForkPoints, Verifying, Searching, GoodTarget,
       Verifiable, UpTo, FinalizedNumber
  <2>. QED BY <2>3, <2>4 DEF SafeInv
<1>4. CASE IndexBlock
  <2>1. /\ pc = "done" /\ pc' = "idle" /\ header # None /\ indexed' = indexed \cup {header}
        /\ UNCHANGED <<root, finalizedHeader, lastChecked, unfinalizedBlocks, queue,
                       savedBlocks, savedHeight>>
    BY <1>4 DEF IndexBlock
  <2>2. header \in Anc[root] \cup (unfinalizedBlocks \cap savedBlocks)
    BY <2>1 DEF SafeInv, HeaderTracked, NoForkPoints
  <2>3. Recorded' /\ CheckedFinal' /\ NotBehind'
    BY <2>1, <2>2 DEF SafeInv, Recorded, Tracked, CheckedFinal, CheckedHeights, NotBehind,
       FinalizedNumber
  <2>4. HeaderTracked' /\ Verifying' /\ Searching' /\ GoodTarget'
    BY <2>1 DEF HeaderTracked, NoForkPoints, Verifying, Searching, GoodTarget
  <2>. QED BY <2>3, <2>4 DEF SafeInv
<1>. QED BY <1>1, <1>2, <1>3, <1>4 DEF Finish

\* init after a restart.
LEMMA SafeBoot ==
  ASSUME BaseInv, SafeInv, Boot, ~Harm
  PROVE  SafeInv'
<1>. USE BaseFacts DEF Goto, EndCall, chainVars, index, locals, saved, memory
<1>1. CASE Start
  <2>1. /\ pc' \in {"idle", "hasForked"} /\ header' = None /\ queue' = {}
        /\ unfinalizedBlocks' = savedBlocks /\ lastChecked' = savedHeight
        /\ UNCHANGED <<root, indexed, savedBlocks, savedHeight>>
    BY <1>1 DEF Start
  <2>. QED
    BY <2>1 DEF SafeInv, Recorded, Tracked, CheckedFinal, CheckedHeights, NotBehind,
       HeaderTracked, NoForkPoints, Verifying, Searching, GoodTarget
<1>2. CASE ResetUnfinalizedBlocks
  <2>1. /\ pc = "done" /\ header = None /\ pc' = "resetHeight"
        /\ unfinalizedBlocks' = {} /\ savedBlocks' = {}
        /\ UNCHANGED <<root, indexed, finalizedHeader, lastChecked, savedHeight, queue>>
    BY <1>2 DEF ResetUnfinalizedBlocks
  <2>2. ASSUME NEW b \in unfinalizedBlocks, b \in indexed
        PROVE  Slot[b] <= FinalizedNumber
    <3>1. ~(Slot[b] > FinalizedNumber)
      BY <1>2, <2>2 DEF Harm, ErasedUnchecked
    <3>2. Slot[b] \in Nat /\ FinalizedNumber \in Nat
      OBVIOUS
    <3>. QED BY <3>1, <3>2
  <2>3. indexed \subseteq Anc[root]
    BY <2>1, <2>2 DEF SafeInv, Recorded, Tracked, Verifying, Verifiable, UpTo
  <2>. QED
    BY <2>1, <2>3 DEF SafeInv, Recorded, Tracked, CheckedFinal, CheckedHeights, NotBehind,
       HeaderTracked, NoForkPoints, Verifying, Searching, GoodTarget, FinalizedNumber
<1>3. CASE ResetLastFinalizedVerifiedHeight
  <2>1. /\ pc = "resetHeight" /\ pc' = "idle" /\ savedHeight' = Null
        /\ UNCHANGED <<root, indexed, finalizedHeader, lastChecked, queue,
                       unfinalizedBlocks, savedBlocks>>
    BY <1>3 DEF ResetLastFinalizedVerifiedHeight
  <2>2. CheckedHeights' \subseteq CheckedHeights
    BY <2>1, EnvironmentTypes DEF CheckedHeights
  <2>. QED
    BY <2>1, <2>2 DEF SafeInv, Recorded, Tracked, CheckedFinal, NotBehind,
       HeaderTracked, NoForkPoints, Verifying, Searching, GoodTarget, FinalizedNumber
<1>. QED BY <1>1, <1>2, <1>3 DEF Boot

\* Finality, the fetch service, a kill, the chain, and stuttering.
LEMMA SafeBeside ==
  ASSUME BaseInv, SafeInv,
         \/ (RegisterFinalizedBlock \/ FetchBlock \/ Kill \/ MoveChain) /\ ~Harm
         \/ UNCHANGED vars
  PROVE  SafeInv'
<1>. USE BaseFacts DEF chainVars, index, locals, saved, memory
<1>1. CASE RegisterFinalizedBlock /\ ~Harm
  <2>1. PICK n \in Anc[root] : finalizedHeader' = n /\ ~(Slot[finalizedHeader] >= Slot[n])
    BY <1>1 DEF RegisterFinalizedBlock, NewerHeader, FinalizedHeaders, FinalizedNumber
  <2>2. /\ UNCHANGED <<root, unfinalizedBlocks, savedBlocks, lastChecked, savedHeight, pc,
                       header, verifiable, best, rewindTo, indexed, queue>>
        /\ ~(pc = "done" /\ header = None)
    BY <1>1 DEF RegisterFinalizedBlock, Starting, CallPoints
  <2>3. /\ n \in Blocks /\ Slot[n] > Slot[finalizedHeader]
        /\ Anc[finalizedHeader] \subseteq Anc[n]
    <3>1. n \in Blocks /\ finalizedHeader \in Anc[root] /\ Slot[finalizedHeader] <= Slot[n]
      BY <2>1 DEF BaseInv, FinalInv
    <3>2. finalizedHeader \in Anc[n]
      BY <3>1, Linear
    <3>3. Slot[n] \in Nat /\ Slot[finalizedHeader] \in Nat
      BY <3>1
    <3>4. Anc[finalizedHeader] \subseteq Anc[n]
      BY <3>1, <3>2, TreeShape
    <3>. QED BY <2>1, <3>1, <3>3, <3>4
  <2>4. ASSUME pc \in {"lookup", "walk", "delete", "saveList", "checked"},
               NEW b \in unfinalizedBlocks, Slot[b] > FinalizedNumber, Slot[b] <= Slot[n]
        PROVE  b \in Anc[n]
    BY <1>1, <2>1, <2>4 DEF Harm, Overtaken
  <2>5. Recorded' /\ CheckedFinal' /\ NotBehind'
    BY <2>1, <2>2, <2>3 DEF SafeInv, Recorded, Tracked, CheckedFinal, CheckedHeights,
       NotBehind, FinalizedNumber
  <2>6. HeaderTracked' /\ Searching' /\ GoodTarget'
    BY <2>1, <2>2, <2>3 DEF SafeInv, HeaderTracked, Searching, GoodTarget, Verifiable, UpTo,
       FinalizedNumber
  <2>7. Verifying'
    BY <2>1, <2>2, <2>3, <2>4 DEF SafeInv, Verifying, Verifiable, UpTo, FinalizedNumber
  <2>. QED BY <2>5, <2>6, <2>7 DEF SafeInv
<1>2. CASE FetchBlock
  <2>1. PICK q \in Anc[head] : queue' = queue \cup {q}
    BY <1>2 DEF FetchBlock
  <2>2. UNCHANGED <<root, unfinalizedBlocks, savedBlocks, lastChecked, savedHeight, pc,
                    finalizedHeader, header, verifiable, best, rewindTo, indexed>>
    BY <1>2 DEF FetchBlock
  <2>3. NotBehind'
    BY <2>1, <2>2, ConfirmedChecked DEF SafeInv, NotBehind, CheckedHeights, FinalizedNumber
  <2>. QED
    BY <2>2, <2>3 DEF SafeInv, Recorded, Tracked, CheckedFinal, CheckedHeights, HeaderTracked,
       Verifying, Searching, GoodTarget, Verifiable, UpTo, FinalizedNumber
<1>3. CASE Kill
  BY <1>3 DEF Kill, Goto, SafeInv, Recorded, Tracked, CheckedFinal, CheckedHeights, NotBehind,
     HeaderTracked, NoForkPoints, Verifying, Searching, GoodTarget, FinalizedNumber
<1>4. CASE MoveChain
  <2>1. Anc[root] \subseteq Anc[root']
    BY <1>4, ChainStepFacts DEF MoveChain, BaseInv, TypeInv, TypeOK
  <2>. QED
    BY <1>4, <2>1 DEF MoveChain, SafeInv, Recorded, Tracked, CheckedFinal, CheckedHeights,
       NotBehind, HeaderTracked, Verifying, Searching, GoodTarget, Verifiable, UpTo,
       FinalizedNumber
<1>5. CASE UNCHANGED vars
  BY <1>5 DEF vars, SafeInv, Recorded, Tracked, CheckedFinal, CheckedHeights, NotBehind,
     HeaderTracked, Verifying, Searching, GoodTarget, Verifiable, UpTo, FinalizedNumber
<1>. QED BY <1>1, <1>2, <1>3, <1>4, <1>5

LEMMA HarmlessRefinesSpec == HarmlessSpec => Spec
<1>1. [Next /\ ~Harm]_vars => [Next]_vars
  OBVIOUS
<1>. QED BY <1>1, PTL DEF HarmlessSpec, Spec

LEMMA SafeInvariant == HarmlessSpec => []SafeInv
<1>1. Init => SafeInv
  BY EnvironmentTypes
     DEF Init, SafeInv, Recorded, Tracked, CheckedFinal, NotBehind, HeaderTracked,
         NoForkPoints, Verifying, Searching, GoodTarget
<1>2. BaseInv /\ SafeInv /\ [Next /\ ~Harm]_vars => SafeInv'
  BY SafeRegister, SafeVerify, SafeCorrect, SafeFinish, SafeBoot, SafeBeside
     DEF Next, Service
<1>. QED BY <1>1, <1>2, BaseInvariant, HarmlessRefinesSpec, PTL DEF HarmlessSpec

------------------------------------------------------------------------------
(* What the invariant gives *)

\* In every environment: only a step of Harm makes the service lose an indexed
\* block that is not final.
THEOREM IndexedIsTracked == HarmlessSpec => []Tracked
<1>1. SafeInv => Tracked
  BY DEF SafeInv, Recorded
<1>. QED BY <1>1, SafeInvariant, PTL

\* In every environment: without a step of Harm a rewind leaves only the branch
\* of its target.
THEOREM RewindIsSafe == HarmlessSpec => []RewindSafe
<1>1. SafeInv => RewindSafe
  BY DEF SafeInv, GoodTarget, RewindSafe, UpTo
<1>. QED BY <1>1, SafeInvariant, PTL

\* In every environment: without a step of Harm a record is forgotten only when
\* its block is final or its data removed, a restart that loses the memory and
\* the reset at its end included.
THEOREM DropsOnlyFinal == HarmlessSpec => DroppedAreFinal
<1>. DEFINE Kept == \A b \in unfinalizedBlocks \ unfinalizedBlocks' :
                      b \in Anc[root] \/ b \notin indexed'
<1>1. BaseInv /\ SafeInv /\ SafeInv' /\ [Next /\ ~Harm]_vars => [Kept]_vars
  <2>. SUFFICES ASSUME BaseInv, SafeInv, SafeInv', Next PROVE Kept
    OBVIOUS
  <2>1. CASE root' = root
    BY <2>1 DEF SafeInv, Recorded, Tracked
  <2>2. CASE MoveChain
    BY <2>2 DEF MoveChain, memory
  <2>. QED
    BY <2>1, <2>2
       DEF Next, Service, Register, ProcessBlock, RegisterUnfinalizedBlock,
         BackfillSkippedSlot, ConnectAfterBackfill, Verify, HasForked, LookupHeader, WalkBack,
         Correct, GetLastCorrectFinalizedBlock, GetParentHeaderByHeight, FallBackToLastChecked,
         Rewind, Finish, DeleteFinalizedBlock, SaveUnfinalizedBlocks, SetLastChecked,
         IndexBlock, Boot, Start, ResetUnfinalizedBlocks, ResetLastFinalizedVerifiedHeight,
         RegisterFinalizedBlock, FetchBlock, Kill, chainVars
<1>. QED
  BY <1>1, BaseInvariant, SafeInvariant, HarmlessRefinesSpec, PTL
     DEF HarmlessSpec, DroppedAreFinal

------------------------------------------------------------------------------
(***************************************************************************)
(* UnfinalizedBlocks implements ReorgSafeIndex.  What SafeInv says of the  *)
(* records is not enough: a block must be known to build on the part of    *)
(* the store that is no longer recorded, too.                              *)
(***************************************************************************)

\* Suspension points between the comparison and the end of a call.
ClearedPoints == {"delete", "saveList", "checked", "done"}

StoreInv ==
  /\ \A b \in indexed : Slot[b] <= processed
  /\ pc \in CallPoints /\ header # None => indexed \ unfinalizedBlocks \subseteq Anc[header]
  /\ \A q \in queue : \A b \in indexed \ unfinalizedBlocks :
       Slot[b] > FinalizedNumber => b \in Anc[q]
  /\ pc \in ClearedPoints /\ header # None => indexed \subseteq Anc[header]

\* The block being processed is above everything indexed.
LEMMA AboveStore ==
  ASSUME BaseInv, StoreInv, pc \in CallPoints, header # None, NEW b \in indexed
  PROVE  header \in Blocks /\ b \in Blocks /\ Slot[b] < Slot[header]
<1>1. /\ header \in Blocks /\ processed < Slot[header] /\ processed \in Nat
      /\ b \in Blocks /\ Slot[b] <= processed
  BY BaseFacts DEF BaseInv, OrderInv, TypeInv, TypeOK, StoreInv
<1>2. Slot[header] \in Nat /\ Slot[b] \in Nat
  BY <1>1, BaseFacts
<1>. QED BY <1>1, <1>2

LEMMA BelowFinalized ==
  ASSUME BaseInv, NEW x \in Anc[finalizedHeader]
  PROVE  Slot[x] <= FinalizedNumber /\ ~(Slot[x] > FinalizedNumber)
<1>1. finalizedHeader \in Blocks /\ x \in Blocks /\ FinalizedNumber = Slot[finalizedHeader]
  BY BaseFacts
<1>2. Slot[x] <= Slot[finalizedHeader]
  BY <1>1, TreeShape
<1>3. Slot[x] \in Nat /\ Slot[finalizedHeader] \in Nat
  BY <1>1, BaseFacts
<1>. QED BY <1>1, <1>2, <1>3

\* A recorded block builds on all the records below it.
LEMMA BuildsOnRecords ==
  ASSUME BaseInv, StoreInv, pc \in CallPoints, header \in unfinalizedBlocks,
         NEW b \in indexed, b \in unfinalizedBlocks
  PROVE  b \in Anc[header]
BY AboveStore, BaseFacts DEF BaseInv, ListChained, Chained

LEMMA StoreRegister ==
  ASSUME BaseInv, SafeInv, StoreInv, Register, ~Harm
  PROVE  StoreInv'
<1>. USE BaseFacts DEF Goto, ForkFound, chainVars, index, CallPoints, ClearedPoints
<1>1. CASE ProcessBlock
  <2>1. PICK q \in Blocks :
          /\ RegisterUnfinalizedBlock(q) /\ queue' \subseteq queue
          /\ q \in queue \/ (q \in Anc[head] /\ Slot[q] > processed)
    BY <1>1 DEF ProcessBlock
  <2>2. /\ header' = q /\ pc' \notin ClearedPoints
        /\ UNCHANGED <<indexed, processed, finalizedHeader>>
        /\ unfinalizedBlocks \subseteq unfinalizedBlocks'
        /\ pc = "idle" /\ header = None
    BY <1>1, <2>1 DEF ProcessBlock, RegisterUnfinalizedBlock, Push, Connect, BaseInv, TypeInv,
       Control
  <2>3. OnOneBranch(q, finalizedHeader)
    BY <1>1, <2>2 DEF Harm, StaleBlock
  <2>4. ASSUME NEW b \in indexed, b \notin unfinalizedBlocks
        PROVE  b \in Anc[q]
    <3>1. b \in Anc[root] /\ b \in Blocks /\ Slot[b] <= processed /\ processed \in Nat
      BY <2>4 DEF SafeInv, Recorded, Tracked, StoreInv, BaseInv, TypeInv, TypeOK
    <3>2. Slot[q] > processed
      BY <2>1, <2>2 DEF BaseInv, OrderInv
    <3>3. Slot[b] \in Nat /\ Slot[q] \in Nat /\ Slot[b] <= Slot[q]
      BY <3>1, <3>2
    <3>4. CASE q \in Anc[head]
      BY <3>1, <3>3, <3>4, Linear
    <3>5. CASE q \in queue /\ Slot[b] > FinalizedNumber
      BY <2>4, <3>5 DEF StoreInv
    <3>6. CASE Slot[b] <= FinalizedNumber
      <4>1. b \in Anc[finalizedHeader]
        BY <3>1, <3>6, Linear DEF BaseInv, FinalInv
      <4>2. CASE q \in Anc[finalizedHeader]
        BY <3>3, <4>1, <4>2, Linear
      <4>3. CASE finalizedHeader \in Anc[q]
        BY <4>1, <4>3, TreeShape
      <4>. QED BY <2>3, <4>2, <4>3 DEF OnOneBranch
    <3>. QED BY <2>1, <3>3, <3>4, <3>5, <3>6
  <2>. QED BY <2>1, <2>2, <2>4 DEF StoreInv, FinalizedNumber
<1>2. CASE BackfillSkippedSlot \/ ConnectAfterBackfill
  <2>1. /\ pc = "backfill" /\ pc' \notin ClearedPoints
        /\ UNCHANGED <<indexed, processed, finalizedHeader, header, queue>>
        /\ unfinalizedBlocks \subseteq unfinalizedBlocks'
    BY <1>2 DEF BackfillSkippedSlot, ConnectAfterBackfill, Push, Connect
  <2>. QED BY <2>1 DEF StoreInv, FinalizedNumber
<1>. QED BY <1>1, <1>2 DEF Register

LEMMA StoreVerify ==
  ASSUME BaseInv, SafeInv, SafeInv', StoreInv, Verify
  PROVE  StoreInv'
<1>. USE BaseFacts DEF Goto, ForkFound, chainVars, index, memory, CallPoints, ClearedPoints
<1>1. /\ pc \in {"hasForked", "lookup", "walk"}
      /\ pc' \in {"lookup", "walk", "delete", "correct", "down"}
      /\ UNCHANGED <<indexed, processed, finalizedHeader, header, queue, unfinalizedBlocks>>
  BY DEF Verify, HasForked, LookupHeader, WalkBack, Compare
<1>2. ASSUME pc' = "delete", header # None, NEW b \in indexed
      PROVE  b \in Anc[header]
  <2>1. b \in Blocks /\ header \in Blocks /\ Slot[b] < Slot[header]
    BY <1>1, <1>2, AboveStore
  <2>2. CASE b \notin unfinalizedBlocks
    BY <1>1, <1>2, <2>2 DEF StoreInv
  <2>3. CASE b \in unfinalizedBlocks /\ header \in unfinalizedBlocks
    BY <1>1, <2>3, BuildsOnRecords
  <2>4. CASE b \in unfinalizedBlocks /\ header \in Anc[finalizedHeader]
    <3>1. Slot[header] <= FinalizedNumber
      BY <2>4, BelowFinalized
    <3>2. Slot[b] \in Nat /\ Slot[header] \in Nat
      BY <2>1
    <3>3. b \in Anc[finalizedHeader]
      BY <1>1, <1>2, <2>1, <2>4, <3>1, <3>2
         DEF SafeInv, Verifying, Verifiable, UpTo, FinalizedNumber
    <3>. QED BY <2>1, <2>4, <3>2, <3>3, Linear
  <2>. QED BY <1>1, <1>2, <2>2, <2>3, <2>4 DEF SafeInv, HeaderTracked, NoForkPoints
<1>. QED BY <1>1, <1>2 DEF StoreInv, FinalizedNumber

LEMMA StoreCorrect ==
  ASSUME BaseInv, SafeInv, StoreInv, Correct, ~Harm
  PROVE  StoreInv'
<1>. USE DEF chainVars, index, memory, CallPoints, ClearedPoints
<1>1. CASE Rewind
  <2>1. /\ indexed' = UpTo(Slot[rewindTo], indexed) /\ queue' = {} /\ header' = None
        /\ processed' = IF processed < Slot[rewindTo] THEN processed ELSE Slot[rewindTo]
    BY <1>1 DEF Rewind, EndCall
  <2>. QED BY <2>1, BaseFacts DEF StoreInv, UpTo
<1>2. CASE GetLastCorrectFinalizedBlock \/ GetParentHeaderByHeight \/ FallBackToLastChecked
  <2>1. pc' # "done"
    BY <1>2 DEF Harm, NoTarget
  <2>2. /\ pc \in {"correct", "parent", "fallback"}
        /\ pc' \in {"parent", "fallback", "rewind", "down"}
        /\ UNCHANGED <<indexed, processed, finalizedHeader, header, queue, unfinalizedBlocks>>
    BY <1>2, <2>1, BaseFacts DEF GetLastCorrectFinalizedBlock, GetParentHeaderByHeight,
       FallBackToLastChecked, Search, Goto
  <2>. QED BY <2>2 DEF StoreInv, FinalizedNumber
<1>. QED BY <1>1, <1>2 DEF Correct

LEMMA StoreFinish ==
  ASSUME BaseInv, SafeInv, StoreInv, Finish
  PROVE  StoreInv'
<1>. USE BaseFacts DEF Goto, chainVars, index, memory, locals, CallPoints, ClearedPoints
<1>1. CASE DeleteFinalizedBlock
  <2>1. /\ pc = "delete" /\ pc' \in {"saveList", "done"}
        /\ UNCHANGED <<indexed, processed, finalizedHeader, header, queue>>
        /\ \A b \in unfinalizedBlocks : b \in unfinalizedBlocks' \/ Slot[b] <= FinalizedNumber
    BY <1>1 DEF DeleteFinalizedBlock, RemoveFinalized
  <2>. QED BY <2>1 DEF StoreInv, FinalizedNumber
<1>2. CASE SaveUnfinalizedBlocks \/ SetLastChecked
  BY <1>2 DEF SaveUnfinalizedBlocks, SetLastChecked, StoreInv, FinalizedNumber
<1>3. CASE IndexBlock
  <2>1. /\ pc = "done" /\ header # None /\ header' = None /\ pc' = "idle"
        /\ indexed' = indexed \cup {header} /\ processed' = Slot[header]
        /\ UNCHANGED <<unfinalizedBlocks, finalizedHeader, queue>>
    BY <1>3 DEF IndexBlock, EndCall
  <2>2. \A b \in indexed' : Slot[b] <= processed'
    <3>1. \A b \in indexed : Slot[b] <= Slot[header]
      BY <2>1, AboveStore
    <3>2. Slot[header] <= Slot[header]
      BY <2>1
    <3>. QED BY <2>1, <3>1, <3>2
  <2>3. header \in unfinalizedBlocks \/ ~(Slot[header] > FinalizedNumber)
    BY <2>1, BelowFinalized DEF SafeInv, HeaderTracked, NoForkPoints
  <2>. QED BY <2>1, <2>2, <2>3 DEF StoreInv, FinalizedNumber
<1>. QED BY <1>1, <1>2, <1>3 DEF Finish

LEMMA StoreRest ==
  ASSUME BaseInv, BaseInv', SafeInv, StoreInv,
         Boot \/ RegisterFinalizedBlock \/ FetchBlock \/ Kill \/ MoveChain \/ UNCHANGED vars
  PROVE  StoreInv'
<1>. USE BaseFacts DEF Goto, EndCall, chainVars, index, memory, locals, CallPoints, ClearedPoints
<1>1. CASE Boot
  <2>1. UNCHANGED <<indexed, processed>> /\ header' = None
    BY <1>1 DEF Boot, Start, ResetUnfinalizedBlocks, ResetLastFinalizedVerifiedHeight
  <2>2. queue' = {}
    BY <1>1 DEF Boot, Start, ResetUnfinalizedBlocks, ResetLastFinalizedVerifiedHeight, BaseInv,
       OrderInv, Booting
  <2>. QED BY <2>1, <2>2 DEF StoreInv
<1>2. CASE RegisterFinalizedBlock
  <2>1. Slot[finalizedHeader'] > FinalizedNumber /\ finalizedHeader' \in Blocks
    BY <1>2 DEF RegisterFinalizedBlock, NewerHeader, FinalizedHeaders
  <2>2. UNCHANGED <<indexed, processed, header, queue, unfinalizedBlocks, pc>>
    BY <1>2 DEF RegisterFinalizedBlock
  <2>. QED BY <2>1, <2>2 DEF StoreInv, FinalizedNumber
<1>3. CASE FetchBlock
  <2>1. PICK q \in Anc[head] : queue' = queue \cup {q} /\ Slot[q] > processed
    BY <1>3 DEF FetchBlock
  <2>2. UNCHANGED <<indexed, processed, header, finalizedHeader, unfinalizedBlocks, pc>>
    BY <1>3 DEF FetchBlock
  <2>3. ASSUME NEW b \in indexed, b \notin unfinalizedBlocks PROVE b \in Anc[q]
    <3>1. b \in Anc[root] /\ b \in Blocks /\ Slot[b] <= processed /\ processed \in Nat
      BY <2>3 DEF SafeInv, Recorded, Tracked, StoreInv, BaseInv, TypeInv, TypeOK
    <3>2. Slot[b] \in Nat /\ Slot[q] \in Nat /\ Slot[b] <= Slot[q]
      BY <2>1, <3>1
    <3>. QED BY <2>1, <3>1, <3>2, Linear
  <2>. QED BY <2>1, <2>2, <2>3 DEF StoreInv, FinalizedNumber
<1>4. CASE Kill \/ MoveChain
  BY <1>4 DEF Kill, MoveChain, StoreInv, FinalizedNumber
<1>5. CASE UNCHANGED vars
  BY <1>5 DEF vars, StoreInv, FinalizedNumber
<1>. QED BY <1>1, <1>2, <1>3, <1>4, <1>5

LEMMA StoreInvariant == HarmlessSpec => []StoreInv
<1>1. Init => StoreInv
  BY DEF Init, StoreInv, CallPoints, ClearedPoints
<1>2. BaseInv /\ BaseInv' /\ SafeInv /\ SafeInv' /\ StoreInv /\ [Next /\ ~Harm]_vars => StoreInv'
  BY StoreRegister, StoreVerify, StoreCorrect, StoreFinish, StoreRest DEF Next, Service
<1>. QED
  BY <1>1, <1>2, BaseInvariant, SafeInvariant, HarmlessRefinesSpec, PTL DEF HarmlessSpec

------------------------------------------------------------------------------
(* The refinement *)

\* A step of the service is a step of the abstract index, or leaves it alone.
LEMMA StepSimulation ==
  ASSUME BaseInv, SafeInv, StoreInv, [Next]_vars
  PROVE  [Abstract!IndexNext]_(Abstract!indexVars)
<1>. USE DEF chainVars, index
<1>1. CASE IndexBlock
  <2>1. header \in Blocks \ indexed /\ indexed \subseteq Anc[header]
    BY <1>1, BaseFacts, AboveStore DEF IndexBlock, StoreInv, ClearedPoints, CallPoints
  <2>. QED BY <1>1, <2>1 DEF IndexBlock, Abstract!IndexNext, Abstract!Index, Abstract!chainVars
<1>2. CASE Rewind
  <2>1. rewindTo \in Anc[root] /\ UpTo(Slot[rewindTo], indexed) \subseteq Anc[rewindTo]
    BY <1>2 DEF Rewind, SafeInv, GoodTarget, UpTo
  <2>2. indexed' = {b \in indexed : Slot[b] <= Slot[rewindTo]} /\ UNCHANGED <<head, root>>
    BY <1>2 DEF Rewind, UpTo
  <2>. QED BY <2>1, <2>2 DEF UpTo, Abstract!IndexNext, Abstract!RewindToFinal, Abstract!chainVars
<1>3. CASE MoveChain
  BY <1>3 DEF MoveChain, ChainStep, NewHead, Finalize, Abstract!IndexNext, Abstract!ChainStep,
     Abstract!NewHead, Abstract!Finalize
<1>4. CASE UNCHANGED <<head, root, indexed>>
  BY <1>4 DEF Abstract!indexVars, Abstract!chainVars
<1>5. CASE Register
  BY <1>5, <1>4 DEF Register, ProcessBlock, RegisterUnfinalizedBlock, BackfillSkippedSlot,
     ConnectAfterBackfill
<1>6. CASE Verify
  BY <1>6, <1>4 DEF Verify, HasForked, LookupHeader, WalkBack
<1>7. CASE GetLastCorrectFinalizedBlock \/ GetParentHeaderByHeight \/ FallBackToLastChecked
  BY <1>7, <1>4 DEF GetLastCorrectFinalizedBlock, GetParentHeaderByHeight, FallBackToLastChecked
<1>8. CASE DeleteFinalizedBlock \/ SaveUnfinalizedBlocks \/ SetLastChecked
  BY <1>8, <1>4 DEF DeleteFinalizedBlock, SaveUnfinalizedBlocks, SetLastChecked
<1>9. CASE Boot
  BY <1>9, <1>4 DEF Boot, Start, ResetUnfinalizedBlocks, ResetLastFinalizedVerifiedHeight
<1>10. CASE RegisterFinalizedBlock \/ FetchBlock \/ Kill \/ UNCHANGED vars
  BY <1>10, <1>4 DEF RegisterFinalizedBlock, FetchBlock, Kill, vars
<1>. QED
  BY <1>1, <1>2, <1>3, <1>5, <1>6, <1>7, <1>8, <1>9, <1>10
     DEF Next, Service, Correct, Finish

\* In every environment: without a step of Harm the service implements the
\* index that only ever adds a block on top of its store and only goes back to
\* a final block.
THEOREM ServiceImplementsIndex == HarmlessSpec => ImplementsReorgSafeIndex
<1>1. Init => Abstract!IndexInit
  BY DEF Init, ChainInit, Abstract!IndexInit, Abstract!ChainInit
<1>2. BaseInv /\ SafeInv /\ StoreInv /\ [Next]_vars
        => [Abstract!IndexNext]_(Abstract!indexVars)
  BY StepSimulation
<1>3. [Next /\ ~Harm]_vars => [Next]_vars
  OBVIOUS
<1>. QED
  BY <1>1, <1>2, <1>3, BaseInvariant, SafeInvariant, StoreInvariant, HarmlessRefinesSpec, PTL
     DEF HarmlessSpec, ImplementsReorgSafeIndex, Abstract!Spec

\* In every environment: without a step of Harm the data in the store never
\* comes from two branches.
THEOREM StoreIsOneBranch == HarmlessSpec => []Abstract!OneBranch
<1>1. Init => Abstract!OneBranch
  BY DEF Init, Abstract!OneBranch
<1>2. BaseInv /\ Abstract!OneBranch /\ [Abstract!IndexNext]_(Abstract!indexVars)
        => Abstract!OneBranch'
  <2>. SUFFICES ASSUME BaseInv, Abstract!OneBranch,
                       [Abstract!IndexNext]_(Abstract!indexVars)
                PROVE  Abstract!OneBranch'
    OBVIOUS
  <2>1. ASSUME NEW b \in Blocks \ indexed, indexed \subseteq Anc[b],
               indexed' = indexed \cup {b}
        PROVE  Abstract!OneBranch'
    <3>1. b \in Anc[b] /\ \A c \in indexed : Slot[c] < Slot[b] \/ c = b \/ b \in Anc[c]
      BY <2>1, AncType, BaseFacts, TreeShape, Linear
    <3>2. \A c \in indexed : Slot[b] <= Slot[c] => b \in Anc[c]
      BY <2>1, <3>1, BaseFacts, Linear, AncType
    <3>. QED BY <2>1, <3>1, <3>2 DEF Abstract!OneBranch
  <2>2. CASE indexed' \subseteq indexed
    BY <2>2 DEF Abstract!OneBranch
  <2>. QED
    BY <2>1, <2>2 DEF Abstract!IndexNext, Abstract!Index, Abstract!RewindToFinal,
       Abstract!indexVars
<1>. QED
  BY <1>1, <1>2, ServiceImplementsIndex, BaseInvariant, HarmlessRefinesSpec, PTL
     DEF HarmlessSpec, ImplementsReorgSafeIndex, Abstract!Spec

------------------------------------------------------------------------------
(***************************************************************************)
(* How a handler can end the process: every request the service makes, on  *)
(* every tree and in every environment.                                    *)
(***************************************************************************)

\* What the requests are about to ask for.
ExitInv ==
  /\ header # None => Slot[header] <= Slot[head]
  /\ \A b \in queue : Slot[b] <= Slot[head]
  /\ pc = "backfill" => 0 < cursor
  /\ pc \in {"lookup", "walk"} => Slot[verifiable] <= FinalizedNumber /\ cursor <= Slot[head]
  /\ pc = "lookup" => cursor = Slot[verifiable]
  /\ pc = "walk" /\ cursor < Slot[verifiable] => Missing(Slot[verifiable])
  /\ pc = "correct" => Slot[checking] <= Slot[head]
  /\ pc = "parent" => cursor <= Slot[head]
  /\ pc = "fallback" => IsTruthy(lastChecked)

\* Below the tip a request fails only for a slot that is lost or negative.
LEMMA FailedSlot ==
  ASSUME ChainTypeOK, NEW h \in Int, h <= Slot[head], GetHeaderForHeight(h) = Failed
  PROVE  h \in LongTermSlots \/ h < 0
<1>. SUFFICES ASSUME h \notin LongTermSlots, ~(h < 0) PROVE FALSE
  OBVIOUS
<1>1. Slot[head] \in Nat
  BY TreeTypes DEF ChainTypeOK
<1>2. ~(h > Slot[head])
  BY <1>1
<1>3. RpcError(h) = "SLOT_SKIPPED"
  BY <1>2 DEF RpcError
<1>4. IsSkippedSlotError(RpcError(h))
  BY <1>3 DEF IsSkippedSlotError
<1>5. CASE Produced(h)
  <2>1. PICK b \in Anc[head] : Slot[b] = h
    BY <1>5 DEF Produced
  <2>2. GetHeaderForHeight(h) = CHOOSE c \in Anc[head] : Slot[c] = h
    BY <1>5 DEF GetHeaderForHeight
  <2>3. (CHOOSE c \in Anc[head] : Slot[c] = h) \in Anc[head]
    BY <2>1
  <2>. QED BY <2>2, <2>3, ChainFacts, ConstantsDistinct
<1>6. CASE ~Produced(h)
  BY <1>4, <1>6, ConstantsDistinct DEF GetHeaderForHeight
<1>. QED BY <1>5, <1>6

\* A slot that is not answered with a block is lost, or the final branch, which
\* the confirmed one contains, has no block there.
LEMMA NotAnswered ==
  ASSUME ChainTypeOK, NEW h, GetHeaderForHeight(h) \notin Blocks
  PROVE  Missing(h)
<1>. SUFFICES ASSUME h \notin LongTermSlots, NEW b \in Anc[root], Slot[b] = h PROVE FALSE
  BY DEF Missing
<1>1. b \in Anc[head]
  BY ChainFacts
<1>2. Produced(h)
  BY <1>1 DEF Produced
<1>3. GetHeaderForHeight(h) = CHOOSE c \in Anc[head] : Slot[c] = h
  BY <1>2 DEF GetHeaderForHeight
<1>4. (CHOOSE c \in Anc[head] : Slot[c] = h) \in Anc[head]
  BY <1>1
<1>. QED BY <1>3, <1>4, ChainFacts

\* The tip only moves to later slots, and a slot that finality has passed
\* without a block stays without one.
LEMMA ChainMoves ==
  ASSUME BaseInv, ChainStep
  PROVE  /\ Slot[head] <= Slot[head'] /\ Slot[head'] \in Nat
         /\ \A h \in Nat : h <= FinalizedNumber /\ Missing(h) => Missing(h)'
<1>1. Slot[head] <= Slot[head'] /\ Slot[head'] \in Nat /\ root' \in Blocks
  BY BaseFacts DEF ChainStep, NewHead, Finalize
<1>2. root \in Anc[root'] /\ Slot[finalizedHeader] <= Slot[root]
  BY BaseFacts, ChainStepFacts, TreeShape DEF BaseInv, TypeInv, TypeOK, FinalInv
<1>3. ASSUME NEW h \in Nat, h <= FinalizedNumber, NEW b \in Anc[root'], Slot[b] = h
      PROVE  b \in Anc[root]
  <2>1. Slot[b] <= Slot[root]
    BY <1>2, <1>3, BaseFacts
  <2>. QED BY <1>1, <1>2, <2>1, Linear
<1>. QED BY <1>1, <1>3 DEF Missing

LEMMA ExitNext == BaseInv /\ ExitInv /\ [Next]_vars => ExitInv'
<1>. SUFFICES ASSUME BaseInv, ExitInv, [Next]_vars PROVE ExitInv'
  OBVIOUS
<1>. USE BaseFacts DEF ExitInv, Goto, ForkFound, EndCall, chainVars, index, memory, saved,
       locals, FinalizedNumber
<1>a. /\ ChainTypeOK /\ Slot[head] \in Nat /\ cursor \in Int
      /\ \A x \in Anc[head] : x \in Blocks /\ Slot[x] <= Slot[head]
      /\ \A h : GetHeaderForHeight(h) \in Blocks =>
                  GetHeaderForHeight(h) \in Anc[head] /\ Slot[GetHeaderForHeight(h)] = h
  BY ReplyFacts, TreeShape DEF BaseInv, TypeInv, TypeOK
<1>1. CASE ProcessBlock
  <2>1. PICK q \in Blocks : RegisterUnfinalizedBlock(q) /\ queue' \subseteq queue
                            /\ (q \in queue \/ q \in Anc[head])
    BY <1>1 DEF ProcessBlock
  <2>2. Slot[q] <= Slot[head]
    BY <2>1, <1>a
  <2>. QED BY <2>1, <2>2, <1>a DEF RegisterUnfinalizedBlock, Push, Connect
<1>2. CASE BackfillSkippedSlot
  BY <1>2, <1>a DEF BackfillSkippedSlot
<1>3. CASE ConnectAfterBackfill
  BY <1>3, <1>a DEF ConnectAfterBackfill, Connect, Push, BaseInv, TypeInv, Control
<1>4. CASE HasForked
  <2>1. Slot[finalizedHeader] <= Slot[head]
    BY <1>a
  <2>. QED BY <1>4, <1>a, <2>1 DEF HasForked
<1>5. CASE LookupHeader
  BY <1>5, <1>a DEF LookupHeader, Compare
<1>6. CASE WalkBack
  <2>1. pc = "walk" /\ verifiable \in Blocks /\ verifiable' = verifiable
    BY <1>6 DEF WalkBack, BaseInv, TypeInv, Control
  <2>2. ASSUME GetHeaderForHeight(cursor) \notin Blocks, cursor = Slot[verifiable]
        PROVE  Missing(Slot[verifiable])
    BY <2>2, <1>a, NotAnswered
  <2>3. root' = root /\ (Missing(Slot[verifiable]) => Missing(Slot[verifiable])')
    BY <1>6, <2>1 DEF WalkBack, Missing
  <2>. QED BY <1>6, <1>a, <2>1, <2>2, <2>3, ConstantsDistinct DEF WalkBack, Compare
<1>7. CASE GetLastCorrectFinalizedBlock
  BY <1>7, <1>a DEF GetLastCorrectFinalizedBlock, Search, BaseInv, TypeInv, Control
<1>8. CASE GetParentHeaderByHeight
  BY <1>8, <1>a DEF GetParentHeaderByHeight, Search
<1>9. CASE FallBackToLastChecked \/ Rewind
  BY <1>9 DEF FallBackToLastChecked, Rewind
<1>10. CASE Finish
  BY <1>10 DEF Finish, DeleteFinalizedBlock, SaveUnfinalizedBlocks, SetLastChecked, IndexBlock
<1>11. CASE Boot
  BY <1>11 DEF Boot, Start, ResetUnfinalizedBlocks, ResetLastFinalizedVerifiedHeight
<1>12. CASE RegisterFinalizedBlock
  <2>1. /\ Slot[finalizedHeader'] > FinalizedNumber /\ finalizedHeader' \in Blocks
        /\ Missing(Slot[verifiable])' <=> Missing(Slot[verifiable])
    BY <1>12 DEF RegisterFinalizedBlock, NewerHeader, FinalizedHeaders, Missing
  <2>. QED BY <1>12, <2>1 DEF RegisterFinalizedBlock, BaseInv, TypeInv, Control
<1>13. CASE FetchBlock
  <2>1. Missing(Slot[verifiable])' <=> Missing(Slot[verifiable])
    BY <1>13 DEF FetchBlock, Missing
  <2>. QED BY <1>13, <1>a, <2>1 DEF FetchBlock
<1>14. CASE Kill
  BY <1>14 DEF Kill
<1>15. CASE MoveChain
  <2>1. ChainStep /\ UNCHANGED <<finalizedHeader, lastChecked, cursor, verifiable, checking,
                                 pc, header, queue>>
    BY <1>15 DEF MoveChain
  <2>2. Slot[head] <= Slot[head'] /\ Slot[head'] \in Nat
    BY <2>1, ChainMoves
  <2>3. pc = "walk" /\ cursor < Slot[verifiable] => Missing(Slot[verifiable])'
    <3>. SUFFICES ASSUME pc = "walk", cursor < Slot[verifiable] PROVE Missing(Slot[verifiable])'
      OBVIOUS
    <3>. DEFINE h == Slot[verifiable]
    <3>1. h \in Nat /\ h <= FinalizedNumber /\ Missing(h)
      BY DEF BaseInv, TypeInv, Control
    <3>2. \A g \in Nat : g <= FinalizedNumber /\ Missing(g) => g \in LongTermSlots \/ \A b \in Anc[root'] : Slot[b] # g
      BY <2>1, ChainMoves DEF Missing
    <3>. QED BY <2>1, <3>1, <3>2 DEF Missing
  <2>4. \A x \in Blocks : Slot[x] <= Slot[head] => Slot[x] <= Slot[head']
    BY <2>2, <1>a
  <2>. QED BY <2>1, <2>2, <2>3, <2>4, <1>a DEF BaseInv, TypeInv, Control
<1>16. CASE UNCHANGED vars
  BY <1>16 DEF vars, Missing
<1>. QED
  BY <1>1, <1>2, <1>3, <1>4, <1>5, <1>6, <1>7, <1>8, <1>9, <1>10, <1>11, <1>12, <1>13,
     <1>14, <1>15, <1>16 DEF Next, Service, Register, Verify, Correct

\* In every environment and on every tree a handler ends the process only for
\* one of the three reasons that OnlyKnownExits names.
THEOREM ExitsAreKnown == Spec => OnlyKnownExits
<1>. DEFINE Known ==
       Service /\ pc' = "down" =>
         \/ (IF pc = "fallback" THEN lastChecked ELSE cursor) \in LongTermSlots
         \/ pc \in {"lookup", "walk"} /\ Missing(Slot[verifiable])
         \/ pc = "parent" /\ cursor < 0
<1>1. BaseInv /\ ExitInv => Known
  <2>. SUFFICES ASSUME BaseInv, ExitInv, Service, pc' = "down" PROVE Known
    OBVIOUS
  <2>. USE BaseFacts DEF ExitInv, Goto, ForkFound
  <2>a. ChainTypeOK /\ Slot[head] \in Nat /\ cursor \in Int
    BY DEF BaseInv, TypeInv, TypeOK
  <2>1. ~ProcessBlock
    <3>. SUFFICES ASSUME ProcessBlock PROVE FALSE
      OBVIOUS
    <3>1. PICK q \in Blocks : RegisterUnfinalizedBlock(q) /\ Slot[q] > processed
      BY DEF ProcessBlock, BaseInv, OrderInv, TypeInv, Control
    <3>2. \A b \in unfinalizedBlocks : Slot[b] <= processed /\ Slot[b] \in Nat
      BY DEF ProcessBlock, BaseInv, OrderInv, Sequential
    <3>3. processed \in Nat /\ Slot[q] \in Nat
      BY DEF BaseInv, TypeInv, TypeOK
    <3>. QED BY <3>1, <3>2, <3>3 DEF RegisterUnfinalizedBlock, Push, Connect, IsLast
  <2>2. CASE BackfillSkippedSlot
    <3>1. pc = "backfill" /\ GetHeaderForHeight(cursor) = Failed
      BY <2>2 DEF BackfillSkippedSlot
    <3>2. 0 < cursor /\ cursor <= Slot[head]
      BY <2>2, <3>1, <2>a DEF BackfillSkippedSlot, BaseInv, TypeInv, Control
    <3>. QED BY <3>1, <3>2, <2>a, FailedSlot
  <2>3. CASE LookupHeader
    <3>1. pc = "lookup" /\ GetHeaderForHeight(cursor) \notin Blocks
      BY <2>3 DEF LookupHeader, Compare
    <3>. QED BY <3>1, <2>a, NotAnswered
  <2>4. CASE WalkBack
    <3>1. pc = "walk" /\ GetHeaderForHeight(cursor) = Failed /\ verifiable \in Blocks
      BY <2>4 DEF WalkBack, Compare, BaseInv, TypeInv, Control
    <3>2. cursor \in LongTermSlots \/ cursor < 0
      BY <3>1, <2>a, FailedSlot
    <3>. QED BY <3>1, <3>2, <2>a
  <2>5. CASE GetParentHeaderByHeight
    <3>1. pc = "parent" /\ GetHeaderForHeight(cursor) = Failed
      BY <2>5 DEF GetParentHeaderByHeight, Search
    <3>. QED BY <3>1, <2>a, FailedSlot
  <2>6. CASE FallBackToLastChecked
    <3>1. pc = "fallback" /\ GetHeaderForHeight(lastChecked) \notin Blocks
      BY <2>6 DEF FallBackToLastChecked, VerifiedHeight
    <3>2. \E b \in Anc[root] : Slot[b] = lastChecked
      BY <3>1 DEF BaseInv, FinalInv, LastCheckedFinal, IsTruthy
    <3>3. Missing(lastChecked)
      BY <3>1, <2>a, NotAnswered
    <3>. QED BY <3>1, <3>2, <3>3 DEF Missing
  <2>7. ~(ConnectAfterBackfill \/ HasForked \/ GetLastCorrectFinalizedBlock \/ Rewind)
    BY DEF ConnectAfterBackfill, Connect, Push, HasForked, GetLastCorrectFinalizedBlock,
       Search, Rewind
  <2>8. ~(Finish \/ Boot)
    BY DEF Finish, DeleteFinalizedBlock, SaveUnfinalizedBlocks, SetLastChecked, IndexBlock,
       Boot, Start, ResetUnfinalizedBlocks, ResetLastFinalizedVerifiedHeight
  <2>. QED
    BY <2>1, <2>2, <2>3, <2>4, <2>5, <2>6, <2>7, <2>8 DEF Service, Register, Verify, Correct
<1>2. Init => ExitInv
  BY DEF Init, ExitInv
<1>3. [Known]_vars => [Service /\ pc' = "down" =>
         \/ (IF pc = "fallback" THEN lastChecked ELSE cursor) \in LongTermSlots
         \/ pc \in {"lookup", "walk"} /\ Missing(Slot[verifiable])
         \/ pc = "parent" /\ cursor < 0]_vars
  OBVIOUS
<1>. QED BY <1>1, <1>2, <1>3, ExitNext, BaseInvariant, PTL DEF Spec, OnlyKnownExits
==============================================================================
