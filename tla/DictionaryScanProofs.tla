------------------------- MODULE DictionaryScanProofs -------------------------
(***************************************************************************)
(* What the paging of DictionaryScan guarantees on every chain, for every   *)
(* query and every mixture of dictionary answers and plain batches.         *)
(***************************************************************************)
EXTENDS DictionaryScan, TLAPS

\* A guessed height is at most the slot.
LEMMA GuessIsLow ==
  ASSUME NEW s \in Slots
  PROVE  /\ FormatBlockUtil(s, None) = [slot |-> s, height |-> ParentSlot[s] + 1]
         /\ s \in Nat
         /\ ParentSlot[s] \in Nat
         /\ ParentSlot[s] + 1 <= s
<1>1. s \in Nat /\ ParentSlot[s] \in Nat /\ ParentSlot[s] < s
  BY ScanChain, ScanConstants
<1>. QED
  BY <1>1 DEF FormatBlockUtil, SolanaBlockToHeader

\* fetchBlock labels a block with the slot it was asked for.
LEMMA FetchLabels ==
  ASSUME NEW h \in Nat
  PROVE  /\ FetchBlock(h) = { [slot |-> s, height |-> h] : s \in {h} \cap Slots }
         /\ FetchBlock(h) \subseteq Handed
         /\ \A b \in FetchBlock(h) : b.slot = h
         /\ h \in Slots => \E b \in FetchBlock(h) : b.slot = h
<1>1. h # None
  BY ScanConstants
<1>2. FetchBlock(h) = { [slot |-> s, height |-> h] : s \in {h} \cap Slots }
  BY <1>1 DEF FetchBlock, FormatBlockUtil, SolanaBlockToHeader
<1>3. \A b \in FetchBlock(h) : b = [slot |-> h, height |-> h] /\ h \in Slots
  BY <1>2
<1>4. FetchBlock(h) \subseteq Handed
  BY <1>3 DEF Handed
<1>5. \A b \in FetchBlock(h) : b.slot = h
  BY <1>3
<1>6. h \in Slots => [slot |-> h, height |-> h] \in FetchBlock(h)
  BY <1>2
<1>7. [slot |-> h, height |-> h].slot = h
  OBVIOUS
<1>. QED
  BY <1>2, <1>4, <1>5, <1>6, <1>7

\* What was handed out is a block of the chain.
LEMMA HandedSlot ==
  ASSUME TypeOK, NEW b \in handed
  PROVE  b.slot \in Slots /\ b.slot \in Nat
<1>1. b \in [slot : Slots, height : Nat]
  BY DEF TypeOK, Handed
<1>2. b.slot \in Slots
  BY <1>1
<1>3. \A s \in Slots : s \in Nat
  BY ScanChain, ScanConstants
<1>. QED
  BY <1>2, <1>3

\* What reaches the handlers for block s of an answer: the block itself, or, in
\* a worker, the block of the guessed slot, if there is one.
LEMMA Processed ==
  ASSUME workers \in BOOLEAN, NEW s \in Slots
  PROVE  /\ ProcessBlock(FormatBlockUtil(s, None)) \subseteq Handed
         /\ (workers => Exact(s)) =>
              \E b \in ProcessBlock(FormatBlockUtil(s, None)) : b.slot = s
         /\ \A b \in ProcessBlock(FormatBlockUtil(s, None)) : b.slot <= s
<1>. DEFINE f == FormatBlockUtil(s, None)
<1>1. /\ f = [slot |-> s, height |-> ParentSlot[s] + 1]
      /\ s \in Nat /\ ParentSlot[s] \in Nat /\ ParentSlot[s] + 1 <= s
  BY GuessIsLow
<1>2. /\ f \in Handed /\ f.slot = s
      /\ f.height = ParentSlot[s] + 1 /\ f.height \in Nat /\ f.height <= s
  BY <1>1 DEF Handed
<1>3. CASE workers
  <2>1. ProcessBlock(f) = FetchBlock(f.height)
    BY <1>3 DEF ProcessBlock, FetchBlockWorker
  <2>2. Exact(s) => f.height = s
    BY <1>1, <1>2 DEF Exact
  <2>. HIDE DEF f
  <2>3. /\ FetchBlock(f.height) \subseteq Handed
        /\ \A b \in FetchBlock(f.height) : b.slot = f.height
        /\ f.height \in Slots => \E b \in FetchBlock(f.height) : b.slot = f.height
    BY <1>2, FetchLabels
  <2>4. /\ ProcessBlock(f) \subseteq Handed
        /\ Exact(s) => \E b \in ProcessBlock(f) : b.slot = s
    BY <2>1, <2>2, <2>3
  <2>5. \A b \in ProcessBlock(f) : b.slot <= s
    BY <1>2, <2>1, <2>3
  <2>. QED
    BY <1>3, <2>4, <2>5 DEF f
<1>4. CASE ~workers
  <2>1. ProcessBlock(f) = {f}
    BY <1>4 DEF ProcessBlock
  <2>2. f.slot <= s
    BY <1>1, <1>2
  <2>. HIDE DEF f
  <2>3. /\ ProcessBlock(f) \subseteq Handed
        /\ \E b \in ProcessBlock(f) : b.slot = s
        /\ \A b \in ProcessBlock(f) : b.slot <= s
    BY <1>2, <2>1, <2>2
  <2>. QED
    BY <2>3 DEF f
<1>. QED
  BY <1>3, <1>4

\* One answer of the dictionary, in the terms the proofs need.
LEMMA AnswerStep ==
  ASSUME TypeOK, GetData
  PROVE  \E P \in SUBSET Slots : \E last \in P :
           /\ P \subseteq matching
           /\ \A s \in P : start <= s /\ s <= last
           /\ \A t \in matching : start <= t /\ t <= last => t \in P
           /\ start' = ParentSlot[last] + 2
           /\ handed' = handed \cup
                UNION { ProcessBlock(FormatBlockUtil(s, None)) : s \in P }
           /\ UNCHANGED <<latest, workers, matching>>
<1>0. PICK P \in Answers : \E last \in P :
        /\ \A s \in P : s <= last
        /\ Buffered(UNION { ProcessBlock(b) : b \in ConvertResponseBlocks(P, last).batchBlocks },
                    ConvertResponseBlocks(P, last).lastBufferedHeight)
  BY DEF GetData
<1>1. PICK last \in P :
        /\ \A s \in P : s <= last
        /\ Buffered(UNION { ProcessBlock(b) : b \in ConvertResponseBlocks(P, last).batchBlocks },
                    ConvertResponseBlocks(P, last).lastBufferedHeight)
  BY <1>0
<1>2. /\ P \subseteq Selected
      /\ \A s \in P, t \in Selected \ P : s < t
  BY DEF Answers
<1>3. Selected \subseteq matching /\ matching \subseteq Slots
  BY DEF Selected, TypeOK
<1>4. /\ ConvertResponseBlocks(P, last).batchBlocks = { FormatBlockUtil(s, None) : s \in P }
      /\ ConvertResponseBlocks(P, last).lastBufferedHeight = FormatBlockUtil(last, None).height
  BY DEF ConvertResponseBlocks
<1>5. FormatBlockUtil(last, None).height = ParentSlot[last] + 1 /\ ParentSlot[last] \in Nat
  BY <1>2, <1>3, GuessIsLow
<1>6. start' = ParentSlot[last] + 2
  BY <1>1, <1>4, <1>5 DEF Buffered
<1>7. handed' = handed \cup UNION { ProcessBlock(FormatBlockUtil(s, None)) : s \in P }
  <2>1. { ProcessBlock(b) : b \in { FormatBlockUtil(s, None) : s \in P } }
          = { ProcessBlock(FormatBlockUtil(s, None)) : s \in P }
    OBVIOUS
  <2>. QED
    BY <1>1, <1>4, <2>1 DEF Buffered
<1>8. last \in Slots /\ last <= QueryEnd /\ last \in Nat
  BY <1>2, <1>3, ScanChain, ScanConstants DEF Selected
<1>9. \A t \in matching : start <= t /\ t <= last => t \in P
  <2>. SUFFICES ASSUME NEW t \in matching, start <= t, t <= last, t \notin P
               PROVE  FALSE
    OBVIOUS
  <2>1. t \in Nat /\ QueryEnd \in Int
    BY <1>3, ScanChain, ScanConstants DEF QueryEnd, TypeOK
  <2>2. t \in Selected
    BY <1>8, <2>1 DEF Selected
  <2>. QED
    BY <1>2, <1>8, <2>1, <2>2
<1>10. \A s \in P : start <= s
  BY <1>2 DEF Selected
<1>11. UNCHANGED <<latest, workers, matching>>
  BY <1>1 DEF Buffered
<1>. QED
  BY <1>1, <1>2, <1>3, <1>6, <1>7, <1>9, <1>10, <1>11

\* One batch fetched from the endpoint.
LEMMA BatchStep ==
  ASSUME TypeOK, FetchBatch
  PROVE  \E end \in Nat :
           /\ start <= end
           /\ start' = end + 1
           /\ handed' = handed \cup UNION { FetchBlock(h) : h \in start..end }
           /\ UNCHANGED <<latest, workers, matching>>
<1>1. PICK end \in start..latest :
        Buffered(UNION { FetchBlock(h) : h \in start..end }, end)
  BY DEF FetchBatch
<1>2. end \in Nat /\ start <= end
  BY DEF TypeOK
<1>. QED
  BY <1>1, <1>2 DEF Buffered

-------------------------------------------------------------------------------
LEMMA TypeStep == TypeOK /\ [Next]_vars => TypeOK'
<1>. SUFFICES ASSUME TypeOK, [Next]_vars PROVE TypeOK'
  OBVIOUS
<1>1. CASE GetData
  <2>0. PICK P \in SUBSET Slots : \E last \in P :
          /\ start' = ParentSlot[last] + 2
          /\ handed' = handed \cup
               UNION { ProcessBlock(FormatBlockUtil(s, None)) : s \in P }
          /\ UNCHANGED <<latest, workers, matching>>
    BY <1>1, AnswerStep
  <2>1. PICK last \in P :
          /\ start' = ParentSlot[last] + 2
          /\ handed' = handed \cup
               UNION { ProcessBlock(FormatBlockUtil(s, None)) : s \in P }
          /\ UNCHANGED <<latest, workers, matching>>
    BY <2>0
  <2>2. UNION { ProcessBlock(FormatBlockUtil(s, None)) : s \in P } \subseteq Handed
    BY Processed DEF TypeOK
  <2>3. start' \in Nat \ {0}
    BY <2>1, GuessIsLow
  <2>. QED
    BY <2>1, <2>2, <2>3 DEF TypeOK
<1>2. CASE GetDataEmpty
  <2>1. QueryEnd \in Nat
    BY ScanConstants DEF QueryEnd, TypeOK
  <2>. QED
    BY <1>2, <2>1 DEF GetDataEmpty, Buffered, TypeOK
<1>3. CASE FetchBatch
  <2>1. PICK end \in Nat :
          /\ start' = end + 1
          /\ handed' = handed \cup UNION { FetchBlock(h) : h \in start..end }
          /\ UNCHANGED <<latest, workers, matching>>
    BY <1>3, BatchStep
  <2>2. \A h \in start..end : FetchBlock(h) \subseteq Handed
    BY FetchLabels DEF TypeOK
  <2>3. UNION { FetchBlock(h) : h \in start..end } \subseteq Handed
    BY <2>2
  <2>. QED
    BY <2>1, <2>3 DEF TypeOK
<1>4. CASE Grow
  BY <1>4, ScanConstants DEF Grow, TypeOK
<1>5. CASE UNCHANGED vars
  BY <1>5 DEF vars, TypeOK
<1>. QED
  BY <1>1, <1>2, <1>3, <1>4, <1>5 DEF Next

\* The cursor of the scan stays a height and only blocks of the chain reach the
\* handlers, on every chain and in both modes of handling.
THEOREM ScanTypeCorrect == Spec => []TypeOK
<1>1. Init => TypeOK
  BY ScanConstants DEF Init, TypeOK
<1>. QED
  BY <1>1, TypeStep, PTL DEF Spec

LEMMA NoneLostStep ==
  ASSUME TypeOK, NoneLost, [Next]_vars
  PROVE  NoneLost'
<1>1. CASE GetData
  <2>0. PICK P \in SUBSET Slots : \E last \in P :
          /\ \A t \in matching : start <= t /\ t <= last => t \in P
          /\ start' = ParentSlot[last] + 2
          /\ handed' = handed \cup
               UNION { ProcessBlock(FormatBlockUtil(s, None)) : s \in P }
          /\ UNCHANGED <<latest, workers, matching>>
    BY <1>1, AnswerStep
  <2>1. PICK last \in P :
          /\ \A t \in matching : start <= t /\ t <= last => t \in P
          /\ start' = ParentSlot[last] + 2
          /\ handed' = handed \cup
               UNION { ProcessBlock(FormatBlockUtil(s, None)) : s \in P }
          /\ UNCHANGED <<latest, workers, matching>>
    BY <2>0
  <2>2. last \in Nat /\ ParentSlot[last] \in Nat /\ ParentSlot[last] + 1 <= last
    BY GuessIsLow
  <2>. SUFFICES ASSUME NEW s \in matching, StartBlock <= s, s < start',
                      workers => Exact(s)
               PROVE  Seen(s)'
    BY <2>1 DEF NoneLost, Seen
  <2>3. s \in Nat /\ start \in Nat
    BY ScanChain, ScanConstants DEF TypeOK
  <2>4. CASE s < start
    BY <2>1, <2>4 DEF NoneLost, Seen
  <2>5. CASE start <= s
    <3>1. s \in P
      BY <2>1, <2>2, <2>3, <2>5
    <3>2. PICK b \in ProcessBlock(FormatBlockUtil(s, None)) : b.slot = s
      BY <3>1, Processed DEF TypeOK
    <3>. QED
      BY <2>1, <3>1, <3>2 DEF Seen
  <2>. QED
    BY <2>3, <2>4, <2>5
<1>2. CASE GetDataEmpty
  <2>1. /\ Selected = {}
        /\ handed' = handed
        /\ start' = QueryEnd + 1
        /\ matching' = matching
        /\ workers' = workers
    BY <1>2 DEF GetDataEmpty, Buffered
  <2>. SUFFICES ASSUME NEW s \in matching, StartBlock <= s, s < start',
                      workers => Exact(s)
               PROVE  Seen(s)'
    BY <2>1 DEF NoneLost, Seen
  <2>2. s \in Nat /\ start \in Nat /\ QueryEnd \in Nat
    BY ScanChain, ScanConstants DEF TypeOK, QueryEnd
  <2>3. ~(start <= s)
    BY <2>1, <2>2 DEF Selected
  <2>. QED
    BY <2>1, <2>2, <2>3 DEF NoneLost, Seen
<1>3. CASE FetchBatch
  <2>1. PICK end \in Nat :
          /\ start' = end + 1
          /\ handed' = handed \cup UNION { FetchBlock(h) : h \in start..end }
          /\ UNCHANGED <<latest, workers, matching>>
    BY <1>3, BatchStep
  <2>. SUFFICES ASSUME NEW s \in matching, StartBlock <= s, s < start',
                      workers => Exact(s)
               PROVE  Seen(s)'
    BY <2>1 DEF NoneLost, Seen
  <2>2. s \in Slots /\ s \in Nat /\ start \in Nat
    BY ScanChain, ScanConstants DEF TypeOK
  <2>3. CASE s < start
    BY <2>1, <2>3 DEF NoneLost, Seen
  <2>4. CASE start <= s
    <3>1. s \in start..end
      BY <2>1, <2>2, <2>4
    <3>2. PICK b \in FetchBlock(s) : b.slot = s
      BY <2>2, FetchLabels
    <3>. QED
      BY <2>1, <3>1, <3>2 DEF Seen
  <2>. QED
    BY <2>2, <2>3, <2>4
<1>4. CASE Grow
  BY <1>4 DEF Grow, NoneLost, Seen
<1>5. CASE UNCHANGED vars
  BY <1>5 DEF vars, NoneLost, Seen
<1>. QED
  BY <1>1, <1>2, <1>3, <1>4, <1>5 DEF Next

\* No selected block is passed over, on every chain, whatever slots are skipped;
\* with workers, no block whose slot is guessed right.  A guessed height is never
\* above the slot, so the cursor that convertResponseBlocks sets stays at or
\* before the block that follows the last one delivered.
THEOREM NothingPassedOver == Spec => []NoneLost
<1>1. Init => NoneLost
  <2>. SUFFICES ASSUME Init PROVE NoneLost
    OBVIOUS
  <2>1. \A s \in matching : s \in Nat
    BY ScanChain, ScanConstants DEF Init
  <2>. QED
    BY <2>1, ScanConstants DEF Init, NoneLost
<1>2. TypeOK /\ NoneLost /\ [Next]_vars => NoneLost'
  BY NoneLostStep
<1>. QED
  BY <1>1, <1>2, ScanTypeCorrect, PTL DEF Spec

LEMMA NoneRepeatedStep ==
  ASSUME TypeOK, NoneRepeated, [Next]_vars
  PROVE  NoneRepeated'
<1>1. CASE GetData
  <2>0. PICK P \in SUBSET Slots : \E last \in P :
          /\ \A s \in P : start <= s /\ s <= last
          /\ start' = ParentSlot[last] + 2
          /\ handed' = handed \cup
               UNION { ProcessBlock(FormatBlockUtil(s, None)) : s \in P }
          /\ UNCHANGED <<latest, workers, matching>>
    BY <1>1, AnswerStep
  <2>1. PICK last \in P :
          /\ \A s \in P : start <= s /\ s <= last
          /\ start' = ParentSlot[last] + 2
          /\ handed' = handed \cup
               UNION { ProcessBlock(FormatBlockUtil(s, None)) : s \in P }
    BY <2>0
  <2>2. last \in Slots /\ last \in Nat /\ ParentSlot[last] \in Nat /\ start \in Nat
    BY GuessIsLow DEF TypeOK
  <2>3. TypeOK'
    BY TypeStep
  <2>. SUFFICES ASSUME NEW b \in handed', Exact(b.slot)
               PROVE  b.slot < start'
    BY DEF NoneRepeated
  <2>4. b.slot \in Slots /\ b.slot \in Nat
    <3>1. b \in Handed
      BY <2>3 DEF TypeOK
    <3>2. b.slot \in Slots
      BY <3>1 DEF Handed
    <3>. QED
      BY <3>2, GuessIsLow
  <2>5. b.slot <= last
    <3>1. CASE b \in handed
      <4>1. b.slot < start
        BY <3>1 DEF NoneRepeated
      <4>. QED
        BY <2>1, <2>2, <2>4, <4>1
    <3>2. CASE b \notin handed
      <4>1. PICK s \in P : b \in ProcessBlock(FormatBlockUtil(s, None))
        BY <2>1, <3>2
      <4>2. b.slot <= s /\ s \in Nat /\ s <= last
        BY <2>1, <4>1, Processed, GuessIsLow DEF TypeOK
      <4>. QED
        BY <2>2, <2>4, <4>2
    <3>. QED
      BY <3>1, <3>2
  <2>6. CASE b.slot = last
    BY <2>1, <2>2, <2>6 DEF Exact
  <2>7. CASE b.slot < last
    <3>1. b.slot <= ParentSlot[last]
      BY <2>2, <2>4, <2>7, ScanChain
    <3>. QED
      BY <2>1, <2>2, <2>4, <3>1
  <2>. QED
    BY <2>2, <2>4, <2>5, <2>6, <2>7
<1>2. CASE GetDataEmpty
  <2>1. /\ start <= latest
        /\ handed' = handed
        /\ start' = QueryEnd + 1
    BY <1>2 DEF GetDataEmpty, Buffered
  <2>2. start \in Nat /\ latest \in Nat
    BY DEF TypeOK
  <2>3. QueryEnd \in Nat /\ start <= QueryEnd
    BY <2>1, <2>2, ScanConstants DEF QueryEnd
  <2>. SUFFICES ASSUME NEW b \in handed, Exact(b.slot)
               PROVE  b.slot < start'
    BY <2>1 DEF NoneRepeated
  <2>4. b.slot < start /\ b.slot \in Nat
    BY HandedSlot DEF NoneRepeated
  <2>. QED
    BY <2>1, <2>2, <2>3, <2>4
<1>3. CASE FetchBatch
  <2>1. PICK end \in Nat :
          /\ start <= end
          /\ start' = end + 1
          /\ handed' = handed \cup UNION { FetchBlock(h) : h \in start..end }
    BY <1>3, BatchStep
  <2>2. start \in Nat
    BY DEF TypeOK
  <2>. SUFFICES ASSUME NEW b \in handed', Exact(b.slot)
               PROVE  b.slot < start'
    BY DEF NoneRepeated
  <2>3. CASE b \in handed
    <3>1. b.slot < start /\ b.slot \in Nat
      BY <2>3, HandedSlot DEF NoneRepeated
    <3>. QED
      BY <2>1, <2>2, <3>1
  <2>4. CASE b \notin handed
    <3>1. PICK h \in start..end : b \in FetchBlock(h)
      BY <2>1, <2>4
    <3>2. h \in Nat /\ b.slot = h
      BY <2>2, <3>1, FetchLabels
    <3>. QED
      BY <2>1, <2>2, <3>1, <3>2
  <2>. QED
    BY <2>3, <2>4
<1>4. CASE Grow
  BY <1>4 DEF Grow, NoneRepeated
<1>5. CASE UNCHANGED vars
  BY <1>5 DEF vars, NoneRepeated
<1>. QED
  BY <1>1, <1>2, <1>3, <1>4, <1>5 DEF Next

\* A block whose slot is guessed right is never asked for again: also when an
\* answer that ends behind skipped slots sets the cursor back, it stops behind
\* the parent of that answer's last block, and every block delivered before is
\* the parent or older.
THEOREM NothingDeliveredAgain == Spec => []NoneRepeated
<1>1. Init => NoneRepeated
  BY DEF Init, NoneRepeated
<1>2. TypeOK /\ NoneRepeated /\ [Next]_vars => NoneRepeated'
  BY NoneRepeatedStep
<1>. QED
  BY <1>1, <1>2, ScanTypeCorrect, PTL DEF Spec
===============================================================================
