-------------------------- MODULE ApiServiceProofs --------------------------
(***************************************************************************)
(* Proofs about ApiService: for every set of endpoints and nodes, every    *)
(* list of heights and every tree of blocks, forks included.               *)
(***************************************************************************)
EXTENDS ApiService, TLAPS

\* Is slot s passed over, or to be taken for a skipped one?
PassedOver(s) ==
  \/ \E tip \in Blocks : s < Slot[tip] /\ \A b \in Anc[tip] : Slot[b] # s
  \/ TreatLongTermStorageSkipAsSkipped /\ s \in LongTermSlots

\* Everything that may come back for request i.
Faults == {Fault(e) : e \in Refusals \cup {"TIMEOUT"}}
Responses(i) == Faults \cup UNION {Answers(n, wanted[i]) : n \in Nodes}

------------------------------------------------------------------------------
(* The pool *)

\* The connections agree with networkMeta, which is set by the first of them.
PoolInv ==
  /\ link \in [Endpoints -> {"connecting", "connected", "failed"}]
  /\ \A e \in Endpoints : link[e] = "connected" => networkMeta = GenesisOf[e]

LEMMA PoolNext == PoolInv /\ [Next]_vars => PoolInv'
<1>. SUFFICES ASSUME PoolInv, [Next]_vars PROVE PoolInv'
  OBVIOUS
<1>. USE DEF PoolInv
<1>1. ASSUME NEW e \in Endpoints, Connect(e) PROVE PoolInv'
  <2>1. networkMeta = None => \A f \in Endpoints : link[f] # "connected"
    BY ApiConstants
  <2>. QED BY <1>1, <2>1 DEF Connect, MetaOf
<1>2. ASSUME NEW e \in Endpoints, Mismatch(e) \/ ConnectFails(e) PROVE PoolInv'
  BY <1>2 DEF Mismatch, ConnectFails
<1>3. CASE UNCHANGED <<link, networkMeta>>
  BY <1>3
<1>4. CASE InitFails
  BY <1>4, <1>3 DEF InitFails
<1>5. CASE Call
  BY <1>5, <1>3 DEF Call, GetFinalizedHeader, GetBestHeight, GetAccountInfo,
     GetHeaderByHeight, FetchBlocks, Begin, pool
<1>6. CASE Arrives \/ Refused \/ TimesOut
  BY <1>6, <1>3 DEF Arrives, Refused, TimesOut, Receive, pool
<1>7. CASE MoveChain \/ (\E n \in Nodes : Sync(n)) \/ UNCHANGED vars
  BY <1>7, <1>3 DEF MoveChain, Sync, vars, pool
<1>. QED BY <1>1, <1>2, <1>4, <1>5, <1>6, <1>7 DEF Next, Starts

\* Whatever the endpoints and the order in which they connect, the pool is on
\* one chain.
THEOREM PoolIsOneChain == Spec => []OneChain
<1>1. Init => PoolInv
  BY DEF Init, PoolInv
<1>2. PoolInv => OneChain
  BY DEF PoolInv, OneChain
<1>. QED BY <1>1, <1>2, PoolNext, PTL DEF Spec

------------------------------------------------------------------------------
(* Answers *)

\* What the nodes know is part of the chain.
ViewInv ==
  /\ ChainTypeOK
  /\ view \in [Nodes -> [head : Blocks, root : Blocks]]
  /\ \A n \in Nodes : view[n].root \in Anc[root]

\* A block is on its own branch.
LEMMA OwnBranch == ASSUME NEW b \in Blocks PROVE b \in Anc[b]
BY TreeShape

LEMMA TreeFacts ==
  ASSUME ChainTypeOK
  PROVE  /\ head \in Blocks /\ root \in Blocks /\ root \in Anc[root]
         /\ Anc[root] \subseteq Blocks
BY TreeTypes, TreeShape DEF ChainTypeOK

LEMMA ViewNext == ViewInv /\ [Next]_vars => ViewInv' /\ Anc[root] \subseteq Anc[root']
<1>. SUFFICES ASSUME ViewInv, [Next]_vars PROVE ViewInv' /\ Anc[root] \subseteq Anc[root']
  OBVIOUS
<1>. USE TreeFacts DEF ViewInv
<1>1. CASE MoveChain
  <2>1. root \in Anc[root'] /\ root' \in Blocks /\ ChainTypeOK'
    BY <1>1, TreeShape, TreeTypes DEF MoveChain, ChainStep, NewHead, Finalize, ChainTypeOK
  <2>2. Anc[root] \subseteq Anc[root']
    BY <2>1, TreeShape
  <2>. QED BY <1>1, <2>1, <2>2 DEF MoveChain
<1>2. ASSUME NEW n \in Nodes, Sync(n) PROVE ViewInv' /\ UNCHANGED root
  BY <1>2 DEF Sync, chainVars, ChainTypeOK
<1>3. CASE UNCHANGED <<head, root, view>>
  BY <1>3 DEF ChainTypeOK
<1>4. CASE Starts
  BY <1>4, <1>3 DEF Starts, InitFails, Connect, Mismatch, ConnectFails, chainVars
<1>5. CASE Call
  BY <1>5, <1>3 DEF Call, GetFinalizedHeader, GetBestHeight, GetAccountInfo,
     GetHeaderByHeight, FetchBlocks, Begin, chainVars
<1>6. CASE Arrives \/ Refused \/ TimesOut
  BY <1>6, <1>3 DEF Arrives, Refused, TimesOut, Receive, chainVars
<1>7. CASE UNCHANGED vars
  BY <1>7, <1>3 DEF vars, chainVars
<1>. QED BY <1>1, <1>2, <1>4, <1>5, <1>6, <1>7 DEF Next

\* What an answer to getBlock tells about the chain.
LEMMA BlockAnswerFacts ==
  ASSUME ViewInv, NEW n \in Nodes, NEW s \in Nat, NEW r \in BlockAnswers(n, s)
  PROVE  /\ r.block \in Blocks \cup {None} /\ r.slot \in Nat
         /\ r.error = "none" /\ r.block # None => r.block \in Blocks /\ Slot[r.block] = s
         /\ MeansNoBlock(r) => PassedOver(s)
         /\ r.error \notin {"BLOCK_UNAVAILABLE", "HTTP_429", "TIMEOUT", "RATE_LIMITED"}
<1>. DEFINE h == view[n].head
            found == {b \in Anc[h] : Slot[b] = s}
<1>1. h \in Blocks /\ Anc[h] \subseteq Blocks /\ Slot[h] \in Nat
  BY TreeTypes DEF ViewInv
<1>2. CASE s \in LongTermSlots
  <2>1. r = Fault("LONG_TERM_STORAGE_SLOT_SKIPPED")
    BY <1>2 DEF BlockAnswers
  <2>. QED BY <1>2, <2>1 DEF Fault, MeansNoBlock, IsSkippedSlotError, PassedOver
<1>3. CASE s \notin LongTermSlots /\ found # {}
  <2>1. PICK b \in found : r = Answer(b)
    BY <1>3 DEF BlockAnswers
  <2>2. b \in Blocks /\ Slot[b] = s /\ b # None
    BY <1>1, ConstantsDistinct
  <2>. QED BY <2>1, <2>2 DEF Answer, MeansNoBlock, IsSkippedSlotError
<1>4. CASE s \notin LongTermSlots /\ found = {} /\ s > Slot[h]
  <2>1. r = Fault("BLOCK_NOT_AVAILABLE")
    BY <1>4 DEF BlockAnswers
  <2>. QED BY <2>1 DEF Fault, MeansNoBlock, IsSkippedSlotError
<1>5. CASE s \notin LongTermSlots /\ found = {} /\ ~(s > Slot[h])
  <2>1. r \in {Fault("SLOT_SKIPPED"), Answer(None)}
    BY <1>5 DEF BlockAnswers
  <2>2. h \in Anc[h]
    BY <1>1, OwnBranch
  <2>3. s < Slot[h] /\ \A b \in Anc[h] : Slot[b] # s
    BY <1>1, <1>5, <2>2
  <2>4. PassedOver(s)
    BY <1>1, <2>3 DEF PassedOver
  <2>. QED BY <2>1, <2>4 DEF Fault, Answer
<1>. QED BY <1>2, <1>3, <1>4, <1>5

\* What any response tells, those of the transport included.
LEMMA ResponseFacts ==
  ASSUME ViewInv, NEW i, wanted[i] \in Nat, NEW r \in Responses(i)
  PROVE  /\ r.block \in Blocks \cup {None} /\ r.slot \in Nat
         /\ op = "finalizedSlot" /\ r.error = "none" => \E b \in Anc[root] : Slot[b] = r.slot
         /\ op = "account" => r.error # "BLOCK_UNAVAILABLE"
         /\ op \in {"finalizedHeader", "header", "blocks"} =>
              /\ r.error = "none" /\ r.block # None =>
                   r.block \in Blocks /\ Slot[r.block] = wanted[i]
              /\ MeansNoBlock(r) => PassedOver(wanted[i])
              /\ r.error \notin {"BLOCK_UNAVAILABLE", "RATE_LIMITED"}
<1>1. CASE r \in Faults
  BY <1>1 DEF Faults, Fault, Refusals, MeansNoBlock, IsSkippedSlotError
<1>2. ASSUME NEW n \in Nodes, r \in Answers(n, wanted[i])
      PROVE  /\ r.block \in Blocks \cup {None} /\ r.slot \in Nat
             /\ op = "finalizedSlot" => \E b \in Anc[root] : Slot[b] = r.slot
             /\ op = "account" => r.error # "BLOCK_UNAVAILABLE"
             /\ op \in {"finalizedHeader", "header", "blocks"} => r \in BlockAnswers(n, wanted[i])
  <2>1. view[n].head \in Blocks /\ view[n].root \in Anc[root] /\ view[n].root \in Blocks
    BY DEF ViewInv
  <2>2. Slot[view[n].head] \in Nat /\ Slot[view[n].root] \in Nat
    BY <2>1, TreeTypes
  <2>3. CASE op \in {"finalizedSlot", "bestSlot", "account"}
    BY <1>2, <2>1, <2>2, <2>3 DEF Answers, SlotAnswer, Answer, FinalizedSlot
  <2>4. CASE op \notin {"finalizedSlot", "bestSlot", "account"}
    BY <1>2, <2>4, BlockAnswerFacts DEF Answers
  <2>. QED BY <2>3, <2>4
<1>3. ASSUME NEW n \in Nodes, r \in BlockAnswers(n, wanted[i])
      PROVE  /\ r.error = "none" /\ r.block # None =>
                  r.block \in Blocks /\ Slot[r.block] = wanted[i]
             /\ MeansNoBlock(r) => PassedOver(wanted[i])
             /\ r.error \notin {"BLOCK_UNAVAILABLE", "RATE_LIMITED"}
  BY <1>3, BlockAnswerFacts
<1>4. CASE \E n \in Nodes : r \in Answers(n, wanted[i])
  <2>1. PICK n \in Nodes : r \in Answers(n, wanted[i])
    BY <1>4
  <2>2. op \in {"finalizedHeader", "header", "blocks"} => r \in BlockAnswers(n, wanted[i])
    BY <1>2, <2>1
  <2>. QED BY <1>2, <1>3, <2>1, <2>2
<1>5. r \in UNION {Answers(n, wanted[i]) : n \in Nodes} \/ r \in Faults
  BY DEF Responses
<1>. QED BY <1>1, <1>4, <1>5

\* A request that is still out is one of the slots asked for.
CallTypeOK ==
  /\ op \in Ops /\ wanted \in Seq(Nat) /\ got \in Seq(Headers) /\ Len(got) = Len(wanted)
  /\ waiting \subseteq DOMAIN wanted
  /\ tries \in 0..MaxAttempts
  /\ outcome.value \in Seq(Headers)

\* Every step begins a call, ends a request, or leaves the calls alone.
LEMMA CallSteps ==
  ASSUME CallTypeOK, [Next]_vars
  PROVE  \/ UNCHANGED <<request, outcome>>
         \/ \E o \in Ops \ {"idle", "finalizedHeader"}, slots \in Seq(Nat) :
              /\ Begin(o, slots)
              /\ o = "finalizedSlot" => slots = <<0>>
         \/ \E i \in waiting : \E r \in Responses(i) : Receive(i, r)
<1>1. CASE Call
  <2>1. <<0>> \in Seq(Nat)
    OBVIOUS
  <2>2. CASE GetFinalizedHeader \/ GetBestHeight \/ GetAccountInfo
    BY <2>1, <2>2 DEF GetFinalizedHeader, GetBestHeight, GetAccountInfo, Ops
  <2>3. ASSUME NEW b \in Batches, NEW i \in DOMAIN b, GetHeaderByHeight(b[i])
        PROVE  \E slots \in Seq(Nat) : Begin("header", slots)
    <3>1. b \in Seq(Nat)
      BY ApiConstants
    <3>2. <<b[i]>> \in Seq(Nat)
      BY <3>1
    <3>. QED BY <2>3, <3>2 DEF GetHeaderByHeight
  <2>4. ASSUME NEW b \in Batches, FetchBlocks(b)
        PROVE  \E slots \in Seq(Nat) : Begin("blocks", slots)
    BY <2>4, ApiConstants DEF FetchBlocks
  <2>. QED BY <1>1, <2>2, <2>3, <2>4 DEF Call, Ops
<1>2. CASE Arrives \/ Refused \/ TimesOut
  <2>1. ASSUME NEW i \in waiting, NEW n \in Nodes, NEW r \in Answers(n, wanted[i]), Receive(i, r)
        PROVE  r \in Responses(i)
    BY DEF Responses
  <2>2. ASSUME NEW i \in waiting, NEW e \in Refusals \cup {"TIMEOUT"}
        PROVE  Fault(e) \in Responses(i)
    BY Zenon DEF Responses, Faults
  <2>. QED BY <1>2, <2>1, <2>2 DEF Arrives, Refused, TimesOut
<1>3. CASE Starts \/ MoveChain \/ (\E n \in Nodes : Sync(n)) \/ UNCHANGED vars
  BY <1>3 DEF Starts, InitFails, Connect, Mismatch, ConnectFails, MoveChain, Sync, vars
<1>. QED BY <1>1, <1>2, <1>3 DEF Next

------------------------------------------------------------------------------
(* The calls *)

\* A block that was received for slot s.
Fits(header, s) == header.block \in Blocks /\ header.number = s /\ Slot[header.block] = s

\* What is known of a call under way.
Progress ==
  /\ op \in {"finalizedSlot", "finalizedHeader"} => Len(wanted) = 1
  /\ op = "finalizedHeader" => \E b \in Anc[root] : Slot[b] = wanted[1]
  /\ op = "blocks" => \A i \in DOMAIN wanted \ waiting : Fits(got[i], wanted[i])

\* What is known of a call that has ended, whatever the chain.
Ended == BatchComplete /\ CauseRecognised

CallInv == CallTypeOK /\ Progress /\ Ended

LEMMA BeginKeeps ==
  ASSUME NEW o \in Ops \ {"idle", "finalizedHeader"}, NEW slots \in Seq(Nat), Begin(o, slots),
         o = "finalizedSlot" => slots = << 0 >>
  PROVE  CallInv' /\ outcome' = NoOutcome
<1>1. NoHeader \in Headers
  BY DEF NoHeader, Header, Headers
<1>2. [i \in DOMAIN slots |-> NoHeader] \in Seq(Headers)
      /\ Len([i \in DOMAIN slots |-> NoHeader]) = Len(slots)
  BY <1>1
<1>3. <<>> \in Seq(Headers)
  OBVIOUS
<1>4. CallTypeOK'
  BY <1>2, <1>3, ApiConstants DEF Begin, CallTypeOK, NoOutcome, Ops
<1>5. Progress' /\ Ended'
  BY DEF Begin, Progress, Ended, NoOutcome, BatchComplete, CauseRecognised
<1>. QED BY <1>4, <1>5 DEF Begin, CallInv

\* A call that ends leaves nothing under way.
LEMMA EndKeeps ==
  ASSUME NEW value \in Seq(Headers), NEW e, NEW cause, NEW i, NEW type,
         Ends(value, e, cause, i, type)
  PROVE  CallTypeOK' /\ Progress'
<1>1. <<>> \in Seq(Headers) /\ <<>> \in Seq(Nat) /\ Len(<<>>) = 0
  OBVIOUS
<1>2. CallTypeOK'
  BY <1>1, ApiConstants DEF Ends, CallTypeOK, Ops
<1>3. Progress'
  BY DEF Ends, Progress
<1>. QED BY <1>2, <1>3

\* A call that throws tells the pool the cause.
LEMMA ThrowKeeps ==
  ASSUME NEW e, NEW cause, NEW i, Throws(e, cause, i), e # "none",
         op = "blocks" => /\ e = "RATE_LIMITED" <=> cause = "HTTP_429"
                          /\ e = "TIMEOUT" <=> cause = "TIMEOUT"
  PROVE  CallTypeOK' /\ Progress' /\ BatchComplete' /\ CauseRecognised'
<1>0. <<>> \in Seq(Headers) /\ Ends(<<>>, e, cause, i, Classify(e))
  BY DEF Throws
<1>1. CallTypeOK' /\ Progress'
  BY <1>0, EndKeeps
<1>2. outcome'.error = e /\ outcome'.op = op /\ outcome'.cause = cause /\ outcome'.type = Classify(e)
  BY DEF Throws, Ends
<1>3. /\ Classify(e) = "RateLimit" <=> e = "RATE_LIMITED"
      /\ Classify(e) = "Timeout" <=> e = "TIMEOUT"
  BY DEF Classify
<1>. QED BY <1>1, <1>2, <1>3 DEF BatchComplete, CauseRecognised

LEMMA ReturnKeeps ==
  ASSUME NEW value \in Seq(Headers), Returns(value),
         op = "blocks" => /\ Len(value) = Len(wanted)
                          /\ \A i \in DOMAIN value : Fits(value[i], wanted[i])
  PROVE  CallTypeOK' /\ Progress' /\ BatchComplete' /\ CauseRecognised'
<1>1. CallTypeOK' /\ Progress'
  BY EndKeeps DEF Returns
<1>2. outcome'.error = "none" /\ outcome'.op = op /\ outcome'.value = value
      /\ outcome'.wanted = wanted
  BY DEF Returns, Ends
<1>. QED BY <1>1, <1>2 DEF BatchComplete, CauseRecognised, Fits

LEMMA ReceiveKeeps ==
  ASSUME ViewInv, CallInv, NEW i \in waiting, NEW r \in Responses(i), Receive(i, r)
  PROVE  CallInv'
<1>. USE DEF CallInv, CallTypeOK
<1>1. i \in DOMAIN wanted /\ wanted[i] \in Nat
  OBVIOUS
<1>2. /\ r.block \in Blocks \cup {None} /\ r.slot \in Nat
      /\ op = "finalizedSlot" /\ r.error = "none" => \E b \in Anc[root] : Slot[b] = r.slot
      /\ op \in {"finalizedHeader", "header", "blocks"} =>
           /\ r.error = "none" /\ r.block # None => r.block \in Blocks /\ Slot[r.block] = wanted[i]
           /\ r.error \notin {"BLOCK_UNAVAILABLE", "RATE_LIMITED"}
  BY <1>1, ResponseFacts
<1>3. HeaderAt(wanted[i], r) \in Headers
  BY <1>1, <1>2 DEF HeaderAt, Header, Headers
<1>4. <<HeaderAt(wanted[i], r)>> \in Seq(Headers)
  BY <1>3
<1>5. CASE ReceiveFinalizedSlot(i, r)
  <2>1. CASE r.error = "none"
    <3>1. /\ op' = "finalizedHeader" /\ wanted' = <<r.slot>> /\ tries' = 1
          /\ UNCHANGED <<waiting, got, outcome, root>> /\ op = "finalizedSlot"
      BY <1>5, <2>1 DEF ReceiveFinalizedSlot, Receive, chainVars
    <3>2. <<r.slot>> \in Seq(Nat) /\ Len(<<r.slot>>) = 1 /\ wanted'[1] = r.slot
          /\ DOMAIN wanted' = DOMAIN wanted
      BY <1>2, <3>1 DEF Progress
    <3>3. CallTypeOK'
      BY <3>1, <3>2, ApiConstants DEF Ops, Progress
    <3>4. Progress'
      BY <1>2, <2>1, <3>1, <3>2 DEF Progress
    <3>5. Ended'
      BY <3>1 DEF Ended, BatchComplete, CauseRecognised
    <3>. QED BY <3>3, <3>4, <3>5
  <2>2. CASE r.error # "none"
    <3>1. Throws("FAILED_FINALIZED_HEADER", r.error, i) /\ op = "finalizedSlot"
      BY <1>5, <2>2 DEF ReceiveFinalizedSlot
    <3>. QED BY <3>1, ThrowKeeps DEF Ended
  <2>. QED BY <2>1, <2>2
<1>6. CASE ReceiveFinalizedHeader(i, r)
  <2>1. CASE HeaderError(r) = "none"
    BY <1>4, <1>6, <2>1, ReturnKeeps DEF ReceiveFinalizedHeader, Ended
  <2>2. CASE HeaderError(r) # "none" /\ MayRetry
    <3>1. tries' = tries + 1 /\ tries < MaxAttempts /\ op = "finalizedHeader"
          /\ UNCHANGED <<op, wanted, waiting, got, outcome, root>>
      BY <1>6, <2>2 DEF ReceiveFinalizedHeader, MayRetry, Receive, chainVars
    <3>2. tries' \in 0..MaxAttempts
      BY <3>1, ApiConstants
    <3>. QED BY <3>1, <3>2 DEF Progress, Ended, BatchComplete, CauseRecognised
  <2>3. CASE HeaderError(r) # "none" /\ ~MayRetry
    <3>1. Throws("FAILED_FINALIZED_HEADER", r.error, i) /\ op = "finalizedHeader"
      BY <1>6, <2>3 DEF ReceiveFinalizedHeader
    <3>. QED BY <3>1, ThrowKeeps DEF Ended
  <2>. QED BY <2>1, <2>2, <2>3
<1>7. CASE ReceiveBestSlot(i, r)
  <2>1. CASE r.error = "none"
    <3>1. <<Header(r.slot, None)>> \in Seq(Headers)
      BY <1>2 DEF Header, Headers
    <3>. QED BY <1>7, <2>1, <3>1, ReturnKeeps DEF ReceiveBestSlot, Ended
  <2>2. CASE r.error # "none"
    <3>1. Throws("FAILED_BEST_HEIGHT", r.error, i) /\ op = "bestSlot"
      BY <1>7, <2>2 DEF ReceiveBestSlot
    <3>. QED BY <3>1, ThrowKeeps DEF Ended
  <2>. QED BY <2>1, <2>2
<1>8. CASE ReceiveHeader(i, r)
  <2>1. CASE HeaderError(r) = "none"
    BY <1>4, <1>8, <2>1, ReturnKeeps DEF ReceiveHeader, Ended
  <2>2. CASE HeaderError(r) # "none"
    <3>1. Throws(HeaderError(r), r.error, i) /\ op = "header"
      BY <1>8, <2>2 DEF ReceiveHeader
    <3>. QED BY <2>2, <3>1, ThrowKeeps DEF Ended
  <2>. QED BY <2>1, <2>2
<1>9. CASE ReceiveBlock(i, r)
  <2>. DEFINE all == [got EXCEPT ![Place(i)] = HeaderAt(wanted[i], r)]
  <2>0. op = "blocks"
    BY <1>9 DEF ReceiveBlock
  <2>1. CASE BlockError(r) # "none"
    <3>1. Throws(BlockError(r), r.error, i)
      BY <1>9, <2>1 DEF ReceiveBlock
    <3>2. /\ BlockError(r) = "RATE_LIMITED" <=> r.error = "HTTP_429"
          /\ BlockError(r) = "TIMEOUT" <=> r.error = "TIMEOUT"
      BY <1>2, <2>0 DEF BlockError, MeansNoBlock, IsSkippedSlotError
    <3>. QED BY <2>1, <3>1, <3>2, ThrowKeeps DEF Ended
  <2>2. CASE BlockError(r) = "none"
    <3>1. r.error = "none" /\ r.block # None
      BY <2>2 DEF BlockError, MeansNoBlock
    <3>2. Fits(HeaderAt(wanted[i], r), wanted[i])
      BY <1>2, <2>0, <3>1 DEF Fits, HeaderAt, Header
    <3>3. /\ all \in Seq(Headers) /\ Len(all) = Len(wanted)
          /\ \A j \in DOMAIN wanted \ (waiting \ {i}) : Fits(all[j], wanted[j])
      BY <1>1, <1>3, <2>0, <3>2 DEF Place, Progress
    <3>4. CASE waiting = {i}
      <4>1. Returns(all)
        BY <1>9, <2>2, <3>4 DEF ReceiveBlock
      <4>2. \A j \in DOMAIN all : Fits(all[j], wanted[j])
        BY <3>3, <3>4
      <4>. QED BY <3>3, <4>1, <4>2, ReturnKeeps DEF Ended
    <3>5. CASE waiting # {i}
      <4>1. got' = all /\ waiting' = waiting \ {i} /\ UNCHANGED <<op, wanted, tries, outcome>>
        BY <1>9, <2>2, <3>5 DEF ReceiveBlock
      <4>2. CallTypeOK'
        BY <3>3, <4>1
      <4>3. Progress'
        BY <2>0, <3>3, <4>1 DEF Progress
      <4>. QED BY <4>1, <4>2, <4>3 DEF Ended, BatchComplete, CauseRecognised
    <3>. QED BY <3>4, <3>5
  <2>. QED BY <2>1, <2>2
<1>10. CASE ReceiveAccountInfo(i, r)
  <2>1. CASE r.error = "none"
    <3>1. <<>> \in Seq(Headers)
      OBVIOUS
    <3>. QED BY <1>10, <2>1, <3>1, ReturnKeeps DEF ReceiveAccountInfo, Ended
  <2>2. CASE r.error # "none"
    <3>1. Throws(r.error, r.error, i) /\ op = "account"
      BY <1>10, <2>2 DEF ReceiveAccountInfo
    <3>. QED BY <2>2, <3>1, ThrowKeeps DEF Ended
  <2>. QED BY <2>1, <2>2
<1>. QED BY <1>5, <1>6, <1>7, <1>8, <1>9, <1>10 DEF Receive

LEMMA CallNext == ViewInv /\ CallInv /\ [Next]_vars => CallInv'
<1>. SUFFICES ASSUME ViewInv, CallInv, [Next]_vars PROVE CallInv'
  OBVIOUS
<1>1. CASE UNCHANGED <<request, outcome>>
  <2>1. Anc[root] \subseteq Anc[root']
    BY ViewNext
  <2>2. UNCHANGED <<op, wanted, waiting, got, tries, outcome>>
    BY <1>1 DEF request
  <2>3. CallTypeOK' /\ Ended'
    BY <2>2 DEF CallInv, CallTypeOK, Ended, BatchComplete, CauseRecognised
  <2>4. Progress'
    BY <2>1, <2>2 DEF CallInv, Progress
  <2>. QED BY <2>3, <2>4 DEF CallInv
<1>. QED BY <1>1, CallSteps, BeginKeeps, ReceiveKeeps DEF CallInv

LEMMA CallInvariant == Spec => [](ViewInv /\ CallInv)
<1>1. Init => ViewInv
  BY TreeFacts DEF Init, ChainInit, ChainTypeOK, ViewInv
<1>2. Init => CallInv
  <2>1. <<>> \in Seq(Headers) /\ <<>> \in Seq(Nat)
    OBVIOUS
  <2>. QED
    BY <2>1, ApiConstants
       DEF Init, CallInv, CallTypeOK, Progress, Ended, BatchComplete, CauseRecognised,
           NoOutcome, Ops
<1>3. ViewInv /\ CallInv /\ [Next]_vars => (ViewInv /\ CallInv)'
  BY ViewNext, CallNext
<1>. QED BY <1>1, <1>2, <1>3, PTL DEF Spec

\* Types of the pool.
MetaTypeOK ==
  /\ networkMeta \in {MetaOf(e) : e \in Endpoints} \cup {None}
  /\ service \in {"init", "ready", "failed"}

LEMMA MetaNext == MetaTypeOK /\ [Next]_vars => MetaTypeOK'
<1>. SUFFICES ASSUME MetaTypeOK, [Next]_vars PROVE MetaTypeOK'
  OBVIOUS
<1>. USE DEF MetaTypeOK, MetaOf
<1>1. ASSUME NEW e \in Endpoints, Connect(e) PROVE MetaTypeOK'
  BY <1>1 DEF Connect
<1>2. CASE InitFails
  BY <1>2 DEF InitFails
<1>3. CASE UNCHANGED <<networkMeta, service>>
  BY <1>3
<1>4. ASSUME NEW e \in Endpoints, Mismatch(e) \/ ConnectFails(e) PROVE MetaTypeOK'
  BY <1>3, <1>4 DEF Mismatch, ConnectFails
<1>5. CASE Call
  BY <1>5, <1>3 DEF Call, GetFinalizedHeader, GetBestHeight, GetAccountInfo,
     GetHeaderByHeight, FetchBlocks, Begin, pool
<1>6. CASE Arrives \/ Refused \/ TimesOut
  BY <1>6, <1>3 DEF Arrives, Refused, TimesOut, Receive, pool
<1>7. CASE MoveChain \/ (\E n \in Nodes : Sync(n)) \/ UNCHANGED vars
  BY <1>7, <1>3 DEF MoveChain, Sync, vars, pool
<1>. QED BY <1>1, <1>2, <1>4, <1>5, <1>6, <1>7 DEF Next, Starts

\* Type correctness, the bound on the attempts of backoffRetry included.
THEOREM CallsTypeCorrect == Spec => []TypeOK
<1>1. Init => PoolInv /\ MetaTypeOK
  BY DEF Init, PoolInv, MetaTypeOK
<1>2. got \in Seq(Headers) /\ wanted \in Seq(Nat) /\ Len(got) = Len(wanted)
        => DOMAIN got = DOMAIN wanted
  OBVIOUS
<1>3. PoolInv /\ MetaTypeOK /\ ViewInv /\ CallInv => TypeOK
  BY <1>2 DEF PoolInv, MetaTypeOK, ViewInv, CallInv, CallTypeOK, TypeOK
<1>. QED BY <1>1, <1>3, PoolNext, MetaNext, CallInvariant, PTL DEF Spec

\* fetchBlocks is all or nothing, for every list of heights and every order of
\* the answers.
THEOREM BatchIsComplete == Spec => []BatchComplete
<1>1. CallInv => BatchComplete
  BY DEF CallInv, Ended
<1>. QED BY <1>1, CallInvariant, PTL

\* The pool is told of a rate limit or a timeout exactly when there was one.
THEOREM CauseIsRecognised == Spec => []CauseRecognised
<1>1. CallInv => CauseRecognised
  BY DEF CallInv, Ended
<1>. QED BY <1>1, CallInvariant, PTL

------------------------------------------------------------------------------
(* Skipped slots *)

LEMMA SkipReceive ==
  ASSUME ViewInv, CallInv, NEW i \in waiting, NEW r \in Responses(i), Receive(i, r),
         NoFalseSkip
  PROVE  NoFalseSkip'
<1>1. i \in DOMAIN wanted /\ wanted[i] \in Nat
  BY DEF CallInv, CallTypeOK
<1>2. /\ op \in {"finalizedHeader", "header", "blocks"} =>
           /\ MeansNoBlock(r) => PassedOver(wanted[i])
           /\ r.error # "BLOCK_UNAVAILABLE"
      /\ op = "account" => r.error # "BLOCK_UNAVAILABLE"
  BY <1>1, ResponseFacts
<1>3. CASE UNCHANGED outcome
  BY <1>3 DEF NoFalseSkip
<1>4. ASSUME NEW value, Returns(value) PROVE NoFalseSkip'
  BY <1>4 DEF Returns, Ends, NoFalseSkip
<1>5. ASSUME NEW e, Throws(e, r.error, i),
             e = "BLOCK_UNAVAILABLE" =>
               /\ op \in {"finalizedHeader", "header", "blocks"}
               /\ MeansNoBlock(r)
      PROVE  NoFalseSkip'
  BY <1>2, <1>5 DEF Throws, Ends, NoFalseSkip, PassedOver
<1>6. CASE ReceiveFinalizedSlot(i, r)
  BY <1>3, <1>5, <1>6 DEF ReceiveFinalizedSlot
<1>7. CASE ReceiveFinalizedHeader(i, r)
  BY <1>3, <1>4, <1>5, <1>7 DEF ReceiveFinalizedHeader
<1>8. CASE ReceiveBestSlot(i, r)
  BY <1>4, <1>5, <1>8 DEF ReceiveBestSlot
<1>9. CASE ReceiveHeader(i, r)
  <2>1. HeaderError(r) = "BLOCK_UNAVAILABLE" => MeansNoBlock(r)
    BY <1>2, <1>9 DEF HeaderError, ReceiveHeader
  <2>. QED BY <1>4, <1>5, <1>9, <2>1 DEF ReceiveHeader
<1>10. CASE ReceiveBlock(i, r)
  <2>1. BlockError(r) = "BLOCK_UNAVAILABLE" => MeansNoBlock(r)
    BY <1>2, <1>10 DEF BlockError, ReceiveBlock
  <2>. QED BY <1>3, <1>4, <1>5, <1>10, <2>1 DEF ReceiveBlock
<1>11. CASE ReceiveAccountInfo(i, r)
  BY <1>2, <1>4, <1>5, <1>11 DEF ReceiveAccountInfo
<1>. QED BY <1>6, <1>7, <1>8, <1>9, <1>10, <1>11 DEF Receive

\* On every tree a slot is reported as skipped only when some branch passes it
\* over, or when the configuration asks for it.
THEOREM SkipsAreReal == Spec => []NoFalseSkip
<1>1. Init => NoFalseSkip
  BY DEF Init, NoOutcome, NoFalseSkip
<1>2. ViewInv /\ CallInv /\ NoFalseSkip /\ [Next]_vars => NoFalseSkip'
  <2>. SUFFICES ASSUME ViewInv, CallInv, NoFalseSkip, [Next]_vars PROVE NoFalseSkip'
    OBVIOUS
  <2>1. CASE UNCHANGED <<request, outcome>>
    BY <2>1 DEF NoFalseSkip
  <2>2. CASE outcome' = NoOutcome
    BY <2>2 DEF NoOutcome, NoFalseSkip
  <2>. QED BY <2>1, <2>2, CallSteps, BeginKeeps, SkipReceive DEF CallInv
<1>. QED BY <1>1, <1>2, CallInvariant, PTL DEF Spec

------------------------------------------------------------------------------
(* The finalized header *)

\* An ancestor in the same slot is the block itself.
LEMMA SameBlock ==
  ASSUME NEW b \in Blocks, NEW c \in Blocks, b \in Anc[c], Slot[b] = Slot[c]
  PROVE  b = c
<1>. SUFFICES ASSUME b # c PROVE FALSE
  OBVIOUS
<1>0. /\ Anc[c] = IF Parent[c] = None THEN {c} ELSE {c} \cup Anc[Parent[c]]
      /\ b \notin {c}
  BY TreeShape
<1>1. Parent[c] # None /\ b \in Anc[Parent[c]]
  BY <1>0
<1>2. Parent[c] \in Blocks
  BY <1>1, TreeTypes
<1>3. Slot[b] <= Slot[Parent[c]] /\ Slot[Parent[c]] < Slot[c]
  BY <1>1, <1>2, TreeShape
<1>4. Slot[b] \in Nat /\ Slot[c] \in Nat /\ Slot[Parent[c]] \in Nat
  BY <1>2, TreeTypes
<1>. QED BY <1>3, <1>4

\* Two blocks of one branch with one slot are the same.
LEMMA SameSlot ==
  ASSUME NEW h \in Blocks, NEW b \in Anc[h], NEW c \in Anc[h], Slot[b] = Slot[c]
  PROVE  b = c
<1>1. b \in Blocks /\ c \in Blocks
  BY TreeTypes
<1>2. Slot[b] \in Nat /\ Slot[c] \in Nat
  BY <1>1, TreeTypes
<1>3. b \in Anc[c]
  BY <1>2, BranchesLinear
<1>. QED BY <1>1, <1>3, SameBlock

\* A node that does not follow an abandoned branch has the final block in
\* every slot in which there is one, as far as it has a block there.
LEMMA StraightAnswer ==
  ASSUME ViewInv, NEW n \in Nodes, NEW f \in Anc[root], NEW r \in BlockAnswers(n, Slot[f]),
         root \in Anc[view[n].head] \/ view[n].head \in Anc[root],
         r.error = "none", r.block # None
  PROVE  r.block = f
<1>. DEFINE h == view[n].head
<1>1. /\ h \in Blocks /\ root \in Blocks /\ root \in Anc[root] /\ h \in Anc[h]
      /\ Slot[f] \in Nat
  BY TreeFacts, TreeTypes, OwnBranch DEF ViewInv
<1>2. r.block \in Anc[h] /\ Slot[r.block] = Slot[f]
  BY DEF BlockAnswers, Fault, Answer
<1>3. CASE root \in Anc[h]
  <2>1. f \in Anc[h]
    BY <1>1, <1>3, TreeShape
  <2>. QED BY <1>1, <1>2, <2>1, SameSlot
<1>4. CASE h \in Anc[root]
  <2>1. r.block \in Anc[root]
    BY <1>1, <1>2, <1>4, TreeShape
  <2>. QED BY <1>1, <1>2, <2>1, SameSlot
<1>. QED BY <1>3, <1>4

\* Only the answer for the finalized header can make the property false.
LEMMA FinalReceive ==
  ASSUME ViewInv, CallInv, NEW i \in waiting, NEW r \in Responses(i), Receive(i, r),
         HeaderIsFinal, ~StrayAnswer
  PROVE  HeaderIsFinal'
<1>1. i \in DOMAIN wanted /\ wanted[i] \in Nat
  BY DEF CallInv, CallTypeOK
<1>2. UNCHANGED root
  BY DEF Receive, chainVars
<1>3. CASE UNCHANGED outcome
  BY <1>2, <1>3 DEF HeaderIsFinal
<1>4. ASSUME NEW value, Returns(value), op # "finalizedHeader" PROVE HeaderIsFinal'
  BY <1>4 DEF Returns, Ends, HeaderIsFinal
<1>5. ASSUME NEW e, Throws(e, r.error, i), e # "none" PROVE HeaderIsFinal'
  BY <1>5 DEF Throws, Ends, HeaderIsFinal
<1>6. CASE ReceiveFinalizedSlot(i, r)
  BY <1>3, <1>5, <1>6 DEF ReceiveFinalizedSlot
<1>7. CASE ReceiveFinalizedHeader(i, r)
  <2>0. op = "finalizedHeader"
    BY <1>7 DEF ReceiveFinalizedHeader
  <2>1. CASE HeaderError(r) = "none"
    <3>1. r.error = "none" /\ r.block # None
      BY <2>1 DEF HeaderError, MeansNoBlock
    <3>2. i = 1
      BY <1>1, <2>0 DEF CallInv, CallTypeOK, Progress
    <3>3. PICK f \in Anc[root] : Slot[f] = wanted[i]
      BY <2>0, <3>2 DEF CallInv, Progress
    <3>4. r \notin Faults
      BY <3>1 DEF Faults, Fault, Refusals
    <3>5. PICK n \in Nodes : r \in Answers(n, wanted[i])
      BY <3>4 DEF Responses
    <3>6. r \in BlockAnswers(n, wanted[i])
      BY <2>0, <3>5 DEF Answers
    <3>7. root \in Anc[view[n].head] \/ view[n].head \in Anc[root]
      BY <2>0, <3>1, <3>6 DEF StrayAnswer
    <3>8. r.block = f
      BY <3>1, <3>3, <3>6, <3>7, StraightAnswer
    <3>9. Returns(<<HeaderAt(wanted[i], r)>>)
      BY <1>7, <2>1 DEF ReceiveFinalizedHeader
    <3>. QED
      BY <1>2, <3>3, <3>8, <3>9 DEF Returns, Ends, HeaderIsFinal, HeaderAt
  <2>2. CASE HeaderError(r) # "none"
    BY <1>3, <1>5, <1>7, <2>2 DEF ReceiveFinalizedHeader
  <2>. QED BY <2>1, <2>2
<1>8. CASE ReceiveBestSlot(i, r)
  BY <1>4, <1>5, <1>8 DEF ReceiveBestSlot
<1>9. CASE ReceiveHeader(i, r)
  BY <1>4, <1>5, <1>9 DEF ReceiveHeader
<1>10. CASE ReceiveBlock(i, r)
  BY <1>3, <1>4, <1>5, <1>10 DEF ReceiveBlock
<1>11. CASE ReceiveAccountInfo(i, r)
  BY <1>4, <1>5, <1>11 DEF ReceiveAccountInfo
<1>. QED BY <1>6, <1>7, <1>8, <1>9, <1>10, <1>11 DEF Receive

\* On every tree, forks included, the header that getFinalizedBlockHeader
\* returns is final, unless the node that answers with it still follows an
\* abandoned branch.
THEOREM FinalizedHeaderIsFinal == Spec => FinalizedAnswer
<1>1. ViewInv /\ CallInv /\ [Next]_vars => [HeaderIsFinal => HeaderIsFinal' \/ StrayAnswer]_vars
  <2>. SUFFICES ASSUME ViewInv, CallInv, Next, HeaderIsFinal, ~StrayAnswer
                PROVE  HeaderIsFinal'
    OBVIOUS
  <2>1. CASE UNCHANGED <<request, outcome>>
    <3>1. Anc[root] \subseteq Anc[root'] /\ outcome' = outcome
      BY <2>1, ViewNext
    <3>. QED BY <3>1 DEF HeaderIsFinal
  <2>2. CASE outcome' = NoOutcome
    BY <2>2 DEF NoOutcome, HeaderIsFinal
  <2>. QED BY <2>1, <2>2, CallSteps, BeginKeeps, FinalReceive DEF CallInv
<1>. QED BY <1>1, CallInvariant, PTL DEF Spec, FinalizedAnswer
==============================================================================
