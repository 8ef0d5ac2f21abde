----------------------------- MODULE ApiService -----------------------------
(***************************************************************************)
(* SolanaApiService, SolanaApiConnection and SolanaApi: the pool of        *)
(* connections and the calls the indexer makes through it.  An endpoint is *)
(* load balanced: every request may be answered by another node, which may *)
(* be behind the cluster, refuse the request or never answer.              *)
(*                                                                         *)
(* One call is followed at a time.  A call is a list of slots asked for    *)
(* and the requests not answered yet; head and root are the tips of the    *)
(* cluster, view[n] what node n has seen of them.                          *)
(***************************************************************************)
EXTENDS SolanaChain, Sequences

CONSTANTS
  Endpoints,    \* network.endpoint, primaryNetworkEndpoint included
  GenesisOf,    \* the chain behind an endpoint
  Nodes,        \* what answers behind the load balancers
  Batches,      \* the lists of heights fetchBlocks is called with
  Unparsable,   \* blocks with a log line that transformBlock throws on
  MaxAttempts   \* attempts of backoffRetry

ASSUME ApiConstants ==
  /\ None \notin {GenesisOf[e] : e \in Endpoints}
  /\ Batches \subseteq Seq(Nat) \ {<<>>}
  /\ MaxAttempts \in Nat \ {0}

VARIABLES
  link,         \* state of each SolanaApiConnection
  networkMeta,  \* networkMeta of the first connection; None before
  service,      \* has init returned?
  view,         \* the tips each node knows
  op,           \* the call under way
  wanted,       \* the slots it asks for
  waiting,      \* requests of it that are not answered
  got,          \* their results so far
  tries,        \* attempts of backoffRetry made
  outcome       \* how the last call ended

pool    == <<link, networkMeta, service>>
request == <<op, wanted, waiting, got, tries>>
vars    == <<chainVars, pool, view, request, outcome>>

Ops == {"idle", "finalizedSlot", "finalizedHeader", "bestSlot", "header", "blocks", "account"}

\* A header or block as the indexer sees it.
Header(number, block) == [number |-> number, block |-> block]
NoHeader == Header(0, None)

\* What a request comes back with.
Answer(block) == [block |-> block, slot |-> 0, error |-> "none"]
SlotAnswer(s) == [block |-> None, slot |-> s, error |-> "none"]
Fault(e)      == [block |-> None, slot |-> 0, error |-> e]
Refusals      == {"HTTP_429", "HTTP_500"}

NoOutcome == [op |-> "idle", wanted |-> <<>>, value |-> <<>>, error |-> "none",
              cause |-> "none", at |-> 0, type |-> "none"]

Init ==
  /\ ChainInit
  /\ link = [e \in Endpoints |-> "connecting"]
  /\ networkMeta = None /\ service = "init"
  /\ view = [n \in Nodes |-> [head |-> head, root |-> root]]
  /\ op = "idle" /\ wanted = <<>> /\ waiting = {} /\ got = <<>> /\ tries = 0
  /\ outcome = NoOutcome

------------------------------------------------------------------------------
(* init: createConnections *)

\* Faulty variant: getRuntimeChain, which knows no private network.
MetaByName(e) == "unknown"

\* networkMeta of a connection: chain and genesisHash are the genesis hash.
MetaOf(e) == GenesisOf[e]

\* The genesis hash arrives and agrees with the other connections.
Connect(e) ==
  /\ service # "failed" /\ link[e] = "connecting"
  /\ networkMeta \in {None, MetaOf(e)}
  /\ link' = [link EXCEPT ![e] = "connected"]
  /\ networkMeta' = MetaOf(e)
  /\ service' = "ready"
  /\ UNCHANGED <<chainVars, view, request, outcome>>

\* metadataMismatchError: the endpoint is of another network.
Mismatch(e) ==
  /\ service # "failed" /\ link[e] = "connecting"
  /\ networkMeta \notin {None, MetaOf(e)}
  /\ link' = [link EXCEPT ![e] = "failed"]
  /\ UNCHANGED <<chainVars, networkMeta, service, view, request, outcome>>

\* "Failed to get genesis hash": refused, or not answered in time.
ConnectFails(e) ==
  /\ service # "failed" /\ link[e] = "connecting"
  /\ link' = [link EXCEPT ![e] = "failed"]
  /\ UNCHANGED <<chainVars, networkMeta, service, view, request, outcome>>

\* No endpoint is left: init rejects.
InitFails ==
  /\ service = "init" /\ \A e \in Endpoints : link[e] = "failed"
  /\ service' = "failed"
  /\ UNCHANGED <<chainVars, link, networkMeta, view, request, outcome>>

------------------------------------------------------------------------------
(* The calls *)

\* A call begins with one request for each slot of the list.
Begin(o, slots) ==
  /\ service = "ready" /\ op = "idle"
  /\ op' = o /\ wanted' = slots /\ waiting' = DOMAIN slots
  /\ got' = [i \in DOMAIN slots |-> NoHeader] /\ tries' = 1
  /\ outcome' = NoOutcome
  /\ UNCHANGED <<chainVars, pool, view>>

GetFinalizedHeader == Begin("finalizedSlot", <<0>>)
GetBestHeight      == Begin("bestSlot", <<0>>)
GetHeaderByHeight(s)   == Begin("header", <<s>>)
FetchBlocks(heights)   == Begin("blocks", heights)
GetAccountInfo     == Begin("account", <<0>>)

\* The call is over, with the headers of value or with the error e of request i.
Ends(value, e, cause, i, type) ==
  /\ op' = "idle" /\ wanted' = <<>> /\ waiting' = {} /\ got' = <<>> /\ tries' = 0
  /\ outcome' = [op |-> op, wanted |-> wanted, value |-> value, error |-> e,
                 cause |-> cause, at |-> i, type |-> type]

Returns(value) == Ends(value, "none", "none", 0, "none")

\* Faulty variant: the text that SolanaApi.handleError builds is not recognised.
ClassifyTimeoutOnly(e) == IF e = "TIMEOUT" THEN "Timeout" ELSE "Default"

\* SolanaApiConnection.handleError: the kind of error the pool acts on.
Classify(e) == CASE e = "TIMEOUT"      -> "Timeout"
                 [] e = "RATE_LIMITED" -> "RateLimit"
                 [] OTHER              -> "Default"

Throws(e, cause, i) == Ends(<<>>, e, cause, i, Classify(e))

\* solanaBlockToHeader, formatBlockUtil: the number is the slot asked for.
HeaderAt(s, r) == Header(s, r.block)

\* Faulty variant: a node that is behind is taken for a skipped slot.
LagMeansNoBlock(r) ==
  r.block = None /\ (IsSkippedSlotError(r.error) \/ r.error \in {"none", "BLOCK_NOT_AVAILABLE"})

\* Does the answer to getBlock mean that the slot has no block?
MeansNoBlock(r) == IsSkippedSlotError(r.error) \/ (r.error = "none" /\ r.block = None)

\* The error of getHeaderByHeight.
HeaderError(r) == IF MeansNoBlock(r) THEN "BLOCK_UNAVAILABLE" ELSE r.error

\* The error of fetchBlock, with transformBlock and SolanaApi.handleError.
BlockError(r) == CASE MeansNoBlock(r)        -> "BLOCK_UNAVAILABLE"
                   [] r.error = "HTTP_429"   -> "RATE_LIMITED"
                   [] r.error = "none" /\ r.block \in Unparsable -> "UNKNOWN_LOG_MODE"
                   [] OTHER                  -> r.error

\* getFinalizedBlockHeight inside getFinalizedBlockHeader.
ReceiveFinalizedSlot(i, r) ==
  /\ op = "finalizedSlot"
  /\ IF r.error = "none"
       THEN /\ op' = "finalizedHeader" /\ wanted' = <<r.slot>> /\ tries' = 1
            /\ UNCHANGED <<waiting, got, outcome>>
       ELSE Throws("FAILED_FINALIZED_HEADER", r.error, i)

\* Faulty variant: off by one.
MayRetryOnceMore == tries <= MaxAttempts

MayRetry == tries < MaxAttempts

\* getHeaderByHeight inside backoffRetry: every error is tried again.
ReceiveFinalizedHeader(i, r) ==
  /\ op = "finalizedHeader"
  /\ IF HeaderError(r) = "none"
       THEN Returns(<<HeaderAt(wanted[i], r)>>)
     ELSE IF MayRetry
       THEN tries' = tries + 1 /\ UNCHANGED <<op, wanted, waiting, got, outcome>>
       ELSE Throws("FAILED_FINALIZED_HEADER", r.error, i)

ReceiveBestSlot(i, r) ==
  /\ op = "bestSlot"
  /\ IF r.error = "none" THEN Returns(<<Header(r.slot, None)>>)
                         ELSE Throws("FAILED_BEST_HEIGHT", r.error, i)

ReceiveHeader(i, r) ==
  /\ op = "header"
  /\ IF HeaderError(r) = "none" THEN Returns(<<HeaderAt(wanted[i], r)>>)
                                ELSE Throws(HeaderError(r), r.error, i)

\* Faulty variant: the blocks are kept in the order in which they arrive.
FirstFree(i) == CHOOSE k \in DOMAIN got :
                  got[k] = NoHeader /\ \A j \in 1..(k - 1) : got[j] # NoHeader

\* Promise.all keeps the place of each request.
Place(i) == i

\* fetchBlock inside the Promise.all of fetchBlocks: the first error rejects
\* the whole batch; the requests still under way are not waited for.
ReceiveBlock(i, r) ==
  /\ op = "blocks"
  /\ LET all == [got EXCEPT ![Place(i)] = HeaderAt(wanted[i], r)] IN
       IF BlockError(r) # "none"
         THEN Throws(BlockError(r), r.error, i)
       ELSE IF waiting = {i}
         THEN Returns(all)
         ELSE /\ got' = all /\ waiting' = waiting \ {i}
              /\ UNCHANGED <<op, wanted, tries, outcome>>

\* getAccountInfo: the data, or null, which callers take for "no account".
ReceiveAccountInfo(i, r) ==
  /\ op = "account"
  /\ IF r.error = "none" THEN Returns(<<>>) ELSE Throws(r.error, r.error, i)

Receive(i, r) ==
  /\ \/ ReceiveFinalizedSlot(i, r) \/ ReceiveFinalizedHeader(i, r)
     \/ ReceiveBestSlot(i, r) \/ ReceiveHeader(i, r)
     \/ ReceiveBlock(i, r) \/ ReceiveAccountInfo(i, r)
  /\ UNCHANGED <<chainVars, pool, view>>

------------------------------------------------------------------------------
(* The nodes *)

\* getBlock with commitment "confirmed", which is also the default.
BlockAnswers(n, s) ==
  LET found == {b \in Anc[view[n].head] : Slot[b] = s} IN
  IF s \in LongTermSlots THEN {Fault("LONG_TERM_STORAGE_SLOT_SKIPPED")}
  ELSE IF found # {}     THEN {Answer(b) : b \in found}
  ELSE IF s > Slot[view[n].head] THEN {Fault("BLOCK_NOT_AVAILABLE")}
                                 ELSE {Fault("SLOT_SKIPPED"), Answer(None)}

\* Faulty variant: the slot is asked for with commitment "confirmed".
ConfirmedSlot(n) == Slot[view[n].head]

\* getSlot with commitment "finalized".
FinalizedSlot(n) == Slot[view[n].root]

\* What node n may answer to a request for slot s.
Answers(n, s) ==
  CASE op = "finalizedSlot" -> {SlotAnswer(FinalizedSlot(n))}
    [] op = "bestSlot"      -> {SlotAnswer(Slot[view[n].head])}
    [] op = "account"       -> {Answer(None)}
    [] OTHER                -> BlockAnswers(n, s)

Arrives == \E i \in waiting, n \in Nodes : \E r \in Answers(n, wanted[i]) : Receive(i, r)

Refused == \E i \in waiting, e \in Refusals : Receive(i, Fault(e))

\* Faulty variant: getSlot is sent without an abort signal.
TimesOutBlocks ==
  op \notin {"finalizedSlot", "bestSlot"} /\ \E i \in waiting : Receive(i, Fault("TIMEOUT"))

\* AbortSignal.timeout: a request that is not answered ends by itself.
TimesOut == \E i \in waiting : Receive(i, Fault("TIMEOUT"))

\* A node catches up with the cluster.
Sync(n) ==
  /\ view[n] # [head |-> head, root |-> root]
  /\ view' = [view EXCEPT ![n] = [head |-> head, root |-> root]]
  /\ UNCHANGED <<chainVars, pool, request, outcome>>

MoveChain == ChainStep /\ UNCHANGED <<pool, view, request, outcome>>

Call ==
  \/ GetFinalizedHeader \/ GetBestHeight \/ GetAccountInfo
  \/ \E s \in UNION {{b[i] : i \in DOMAIN b} : b \in Batches} : GetHeaderByHeight(s)
  \/ \E b \in Batches : FetchBlocks(b)

Starts == InitFails \/ \E e \in Endpoints : Connect(e) \/ Mismatch(e) \/ ConnectFails(e)

Next ==
  \/ Starts \/ Call \/ Arrives \/ Refused \/ TimesOut
  \/ \E n \in Nodes : Sync(n)
  \/ MoveChain

Spec == Init /\ [][Next]_vars

\* The finalized header comes from a node that still takes an abandoned branch
\* for the confirmed one.
StrayAnswer ==
  /\ op = "finalizedHeader"
  /\ \E i \in waiting, n \in Nodes :
       /\ root \notin Anc[view[n].head] /\ view[n].head \notin Anc[root]
       /\ \E r \in BlockAnswers(n, wanted[i]) : r.block # None /\ Receive(i, r)

\* Every request carries a timeout, the one for the genesis hash included; no
\* node is relied on to answer or to catch up.
FairSpec == Spec /\ WF_vars(Starts) /\ WF_vars(TimesOut)

------------------------------------------------------------------------------
(* Properties *)

Headers == [number : Nat, block : Blocks \cup {None}]

TypeOK ==
  /\ ChainTypeOK
  /\ link \in [Endpoints -> {"connecting", "connected", "failed"}]
  /\ networkMeta \in {MetaOf(e) : e \in Endpoints} \cup {None}
  /\ service \in {"init", "ready", "failed"}
  /\ view \in [Nodes -> [head : Blocks, root : Blocks]]
  /\ op \in Ops /\ wanted \in Seq(Nat) /\ tries \in 0..MaxAttempts
  /\ waiting \subseteq DOMAIN wanted
  /\ got \in Seq(Headers) /\ DOMAIN got = DOMAIN wanted
  /\ outcome.value \in Seq(Headers)

\* Whatever order the endpoints connect in, all connections of the pool are
\* to the same chain: calls that go through different ones can be combined.
OneChain ==
  \A e, f \in Endpoints :
    link[e] = "connected" /\ link[f] = "connected" => GenesisOf[e] = GenesisOf[f]

\* The finalized header that was returned, if one was, is of a final block.
HeaderIsFinal ==
  outcome.op = "finalizedHeader" /\ outcome.error = "none" =>
    \E b \in Anc[root] : outcome.value = <<Header(Slot[b], b)>>

\* getFinalizedBlockHeader asks two nodes, one for the slot and one for the
\* block, the latter with commitment "confirmed"; the header that it returns is
\* of a block that is final, however far each of them is behind, and stays so.
\* The one way to another header is a node that still follows an abandoned
\* branch and has a block of that branch in the finalized slot.
FinalizedAnswer == [][HeaderIsFinal => HeaderIsFinal' \/ StrayAnswer]_vars

\* BlockUnavailableError, on which callers skip the slot, is only thrown for a
\* slot that some branch passes over, never because a node is behind; except
\* for the slots for which treatLongTermStorageSkipAsSkipped says so.
NoFalseSkip ==
  outcome.error = "BLOCK_UNAVAILABLE" =>
    LET s == outcome.wanted[outcome.at] IN
    \/ \E tip \in Blocks : s < Slot[tip] /\ \A b \in Anc[tip] : Slot[b] # s
    \/ TreatLongTermStorageSkipAsSkipped /\ s \in LongTermSlots

\* fetchBlocks is all or nothing: in whatever order the answers arrive, the
\* caller gets the block of every height, at its place and under its slot.
BatchComplete ==
  outcome.op = "blocks" /\ outcome.error = "none" =>
    /\ Len(outcome.value) = Len(outcome.wanted)
    /\ \A i \in DOMAIN outcome.value :
         /\ outcome.value[i].number = outcome.wanted[i]
         /\ outcome.value[i].block \in Blocks
         /\ Slot[outcome.value[i].block] = outcome.wanted[i]

\* The pool is told of a rate limit or a timeout exactly when that is what
\* ended the batch, although the error passes two handlers as text.
CauseRecognised ==
  outcome.op = "blocks" /\ outcome.error # "none" =>
    /\ outcome.type = "RateLimit" <=> outcome.cause = "HTTP_429"
    /\ outcome.type = "Timeout" <=> outcome.cause = "TIMEOUT"

\* Nothing hangs on a node that does not answer: init and every call end.
NothingHangs ==
  /\ service = "init" ~> service # "init"
  /\ op # "idle" ~> op = "idle"
==============================================================================
