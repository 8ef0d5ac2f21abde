------------------------ MODULE DictionaryQueryProofs ------------------------
(***************************************************************************)
(* For all manifests, templates, arguments and chain data: the query covers *)
(* what the filters accept, and is the one for all handlers.               *)
(***************************************************************************)
EXTENDS DictionaryQuery, ListTheorems

------------------------------------------------------------------------------
(* Handlers *)

IsHandler(h) ==
  /\ h = [ kind |-> h.kind, filter |-> h.filter ]
  /\ h.kind \in {"Block", "Transaction", "Instruction", "Log"}
  /\ h.filter = Undef \/ IsFilter(h.filter)

\* A list of handlers.
AreHandlers(hs) ==
  /\ hs \in Seq({ hs[i] : i \in DOMAIN hs })
  /\ \A i \in DOMAIN hs : IsHandler(hs[i])

LEMMA ListFacts ==
  ASSUME NEW hs, AreHandlers(hs)
  PROVE  Len(hs) \in Nat /\ DOMAIN hs = 1..Len(hs)
BY LenProperties DEF AreHandlers

LEMMA Written == \A hs \in Manifests \cup Templates : AreHandlers(hs)
BY HandlersAssumption DEF AreHandlers, IsHandler

\* Arguments that are merged into the filter of a handler make a filter.
LEMMA MergedHandler ==
  ASSUME NEW h, IsHandler(h), NEW args \in Args
  PROVE  IsHandler(MergeArgs(h, args))
<1>. DEFINE f == [ k \in FilterFields |->
                     IF args[k] # Undef \/ h.filter = Undef THEN args[k] ELSE h.filter[k] ]
            m == MergeArgs(h, args)
<1>1. m = [ kind |-> h.kind, filter |-> f ]
  BY DEF IsHandler, MergeArgs
<1>2. "accounts" \in FilterFields
  BY DEF FilterFields
<1>3. f.accounts = args.accounts \/ (h.filter # Undef /\ f.accounts = h.filter.accounts)
  BY <1>2
<1>4. f = [ k \in FilterFields |-> f[k] ]
  OBVIOUS
<1>. HIDE DEF f
<1>5. IsFilter(args) /\ (h.filter # Undef => IsFilter(h.filter))
  BY HandlersAssumption DEF IsHandler
<1>6. IsFilter(f)
  BY <1>3, <1>4, <1>5 DEF IsFilter
<1>. QED BY <1>1, <1>6 DEF IsHandler

LEMMA Merged ==
  ASSUME NEW hs \in Templates, NEW args \in Args
  PROVE  LET merged == [ i \in DOMAIN hs |-> MergeArgs(hs[i], args) ] IN
         AreHandlers(merged) /\ Len(merged) = Len(hs)
<1>. DEFINE merged == [ i \in DOMAIN hs |-> MergeArgs(hs[i], args) ]
            S == { merged[i] : i \in DOMAIN merged }
<1>1. AreHandlers(hs)
  BY Written
<1>2. Len(hs) \in Nat /\ DOMAIN hs = 1..Len(hs)
  BY <1>1, ListFacts
<1>3. \A i \in DOMAIN merged : IsHandler(merged[i])
  BY <1>1, MergedHandler DEF AreHandlers
<1>4. merged \in [ 1..Len(hs) -> S ]
  BY <1>2
<1>. HIDE DEF merged
<1>5. merged \in Seq(S) /\ Len(merged) = Len(hs)
  BY <1>2, <1>4
<1>6. AreHandlers(merged)
  BY <1>3, <1>5 DEF AreHandlers
<1>. QED BY <1>5, <1>6 DEF merged

LEMMA Joined ==
  ASSUME NEW a, NEW b, AreHandlers(a), AreHandlers(b)
  PROVE  /\ AreHandlers(a \o b) /\ Len(a \o b) = Len(a) + Len(b)
         /\ \A i \in DOMAIN (a \o b) :
              (\E j \in DOMAIN a : (a \o b)[i] = a[j]) \/ (\E j \in DOMAIN b : (a \o b)[i] = b[j])
<1>. DEFINE S == { a[i] : i \in DOMAIN a } \cup { b[i] : i \in DOMAIN b }
            c == a \o b
<1>1. a \in Seq(S) /\ b \in Seq(S)
  BY SeqMonotonic DEF AreHandlers
<1>2. Len(a) \in Nat /\ DOMAIN a = 1..Len(a) /\ Len(b) \in Nat /\ DOMAIN b = 1..Len(b)
  BY ListFacts
<1>. HIDE DEF S
<1>3. /\ c \in Seq(S) /\ Len(c) = Len(a) + Len(b)
      /\ \A i \in 1..(Len(a) + Len(b)) : c[i] = IF i <= Len(a) THEN a[i] ELSE b[i - Len(a)]
  BY <1>1, ConcatProperties
<1>. HIDE DEF c
<1>4. DOMAIN c = 1..(Len(a) + Len(b))
  BY <1>3, LenProperties
<1>5. ASSUME NEW i \in DOMAIN c
      PROVE  (\E j \in DOMAIN a : c[i] = a[j]) \/ (\E j \in DOMAIN b : c[i] = b[j])
  <2>1. CASE i <= Len(a)
    BY <1>2, <1>3, <1>4, <2>1
  <2>2. CASE ~(i <= Len(a))
    <3>1. i - Len(a) \in DOMAIN b
      BY <1>2, <1>4, <2>2
    <3>. QED BY <1>3, <1>4, <2>2, <3>1
  <2>. QED BY <2>1, <2>2
<1>6. \A i \in DOMAIN c : IsHandler(c[i])
  BY <1>5 DEF AreHandlers
<1>7. c \in Seq({ c[i] : i \in DOMAIN c })
  BY <1>2, <1>3, <1>4
<1>. QED BY <1>3, <1>5, <1>6, <1>7 DEF AreHandlers, c

------------------------------------------------------------------------------
(* The query *)

\* A construction without exception yields {} or a condition for every handler, and
\* none fails for want of a programId that validation asks for.
LEMMA BuildFacts ==
  ASSUME NEW hs, AreHandlers(hs)
  PROVE  LET built == BuildDictionaryV2QueryEntry(hs) IN
         /\ built = [ error |-> built.error, query |-> built.query ]
         /\ built.error = Undef =>
              \/ built.query = EmptyQuery
              \/ /\ built.query = Conditions(hs)
                 /\ \A i \in DOMAIN hs : hs[i].filter # Undef /\ ConditionError(hs[i]) = Undef
         /\ (\A i \in DOMAIN hs : ProgramIdRequired(hs[i])) =>
              built.error # "programId is required"
<1>. DEFINE built  == BuildDictionaryV2QueryEntry(hs)
            ending == { i \in DOMAIN hs :
                          NeedsEveryBlock(hs[i]) \/ ConditionError(hs[i]) # Undef }
            first  == Min(ending)
<1>1. Undef # "programId is required"
  BY UndefAssumption
<1>2. ASSUME NEW h, ProgramIdRequired(h) PROVE ConditionError(h) # "programId is required"
  BY <1>1, <1>2 DEF ProgramIdRequired, ConditionError
<1>3. CASE ending = {}
  <2>1. built = [error |-> Undef, query |-> Conditions(hs)]
    BY <1>3 DEF BuildDictionaryV2QueryEntry
  <2>2. \A i \in DOMAIN hs : hs[i].filter # Undef /\ ConditionError(hs[i]) = Undef
    BY <1>3 DEF NeedsEveryBlock
  <2>. HIDE DEF built, ending
  <2>3. built.error = Undef /\ built.query = Conditions(hs)
        /\ built = [ error |-> built.error, query |-> built.query ]
    BY <2>1
  <2>. QED BY <1>1, <2>2, <2>3 DEF built
<1>4. CASE ending # {}
  <2>1. first \in ending
    <3>1. ending \subseteq Nat
      BY ListFacts
    <3>. HIDE DEF ending
    <3>. QED BY <1>4, <3>1, LeastElement
  <2>2. first \in DOMAIN hs /\ (NeedsEveryBlock(hs[first]) \/ ConditionError(hs[first]) # Undef)
    BY <2>1
  <2>3. built = IF NeedsEveryBlock(hs[first])
                  THEN [error |-> Undef, query |-> EmptyQuery]
                  ELSE [error |-> ConditionError(hs[first]), query |-> Undef]
    BY <1>4 DEF BuildDictionaryV2QueryEntry
  <2>. HIDE DEF built, ending, first
  <2>4. CASE NeedsEveryBlock(hs[first])
    <3>1. built = [error |-> Undef, query |-> EmptyQuery]
      BY <2>3, <2>4
    <3>2. built.error = Undef /\ built.query = EmptyQuery
          /\ built = [ error |-> built.error, query |-> built.query ]
      BY <3>1
    <3>. QED BY <1>1, <3>2 DEF built
  <2>5. CASE ~NeedsEveryBlock(hs[first])
    <3>1. built = [error |-> ConditionError(hs[first]), query |-> Undef]
      BY <2>3, <2>5
    <3>2. ConditionError(hs[first]) # Undef
      BY <2>2, <2>5
    <3>3. built.error = ConditionError(hs[first])
          /\ built = [ error |-> built.error, query |-> built.query ]
      BY <3>1
    <3>. QED BY <1>2, <2>2, <3>2, <3>3 DEF built
  <2>. QED BY <2>4, <2>5
<1>. QED BY <1>3, <1>4

\* The key that an account index points to, whether or not loaded addresses follow.
LEMMA SameAccount ==
  ASSUME NEW keys, NEW loaded, NEW S, NEW T, keys \in Seq(S), loaded \in Seq(T), NEW n,
         At(keys, n) # Undef
  PROVE  At(keys \o loaded, n) = At(keys, n)
<1>1. n + 1 \in DOMAIN keys
  BY DEF At
<1>2. keys \in Seq(S \cup T) /\ loaded \in Seq(S \cup T)
  BY SeqMonotonic
<1>3. Len(keys) \in Nat /\ DOMAIN keys = 1..Len(keys) /\ Len(loaded) \in Nat
  BY LenProperties
<1>. DEFINE all == keys \o loaded
<1>4. /\ all \in Seq(S \cup T) /\ Len(all) = Len(keys) + Len(loaded)
      /\ \A i \in 1..(Len(keys) + Len(loaded)) : i <= Len(keys) => all[i] = keys[i]
  BY <1>2, ConcatProperties
<1>. HIDE DEF all
<1>5. DOMAIN all = 1..(Len(keys) + Len(loaded))
  BY <1>4, LenProperties
<1>6. n + 1 \in DOMAIN all /\ all[n + 1] = keys[n + 1]
  BY <1>1, <1>3, <1>4, <1>5
<1>. QED BY <1>1, <1>6 DEF At, all

\* Accounts that the filter accepts are selected by the condition, which is also
\* compared with loaded addresses.
LEMMA AccountsSelected ==
  ASSUME NEW inst \in Items, inst.kind = "Instruction", NEW f, IsFilter(f), f.accounts # Undef,
         AccountsMatch(inst, f.accounts)
  PROVE  \A i \in DOMAIN f.accounts : f.accounts[i] # Undef =>
           /\ i \in DOMAIN inst.accounts
           /\ At(AllAccounts(inst.transaction), inst.accounts[i]) \in f.accounts[i]
<1>. DEFINE tx == inst.transaction
<1>. SUFFICES ASSUME NEW i \in DOMAIN f.accounts, f.accounts[i] # Undef
              PROVE  /\ i \in DOMAIN inst.accounts
                     /\ At(AllAccounts(tx), inst.accounts[i]) \in f.accounts[i]
  OBVIOUS
<1>1. i \in DOMAIN inst.accounts /\ At(tx.accountKeys, inst.accounts[i]) \in f.accounts[i]
  BY DEF AccountsMatch
<1>2. Undef \notin f.accounts[i]
  BY DEF IsFilter
<1>3. At(tx.accountKeys, inst.accounts[i]) # Undef
  BY <1>1, <1>2
<1>4. /\ tx.accountKeys \in Seq({ tx.accountKeys[j] : j \in DOMAIN tx.accountKeys })
      /\ tx.loadedAddresses \in Seq({ tx.loadedAddresses[j] : j \in DOMAIN tx.loadedAddresses })
  BY ItemsAssumption
<1>. HIDE DEF tx
<1>5. At(tx.accountKeys \o tx.loadedAddresses, inst.accounts[i]) = At(tx.accountKeys, inst.accounts[i])
  BY <1>3, <1>4, SameAccount
<1>. QED BY <1>1, <1>5 DEF AllAccounts

\* What the filter of a handler accepts is selected by its condition.
LEMMA ConditionCovers ==
  ASSUME NEW hs, AreHandlers(hs), NEW i \in DOMAIN hs, hs[i].filter \notin {Undef, NoFields},
         ConditionError(hs[i]) = Undef, NEW it \in Items, Accepts(hs[i], it)
  PROVE  Selected(Conditions(hs), it)
<1>. DEFINE h == hs[i]
            f == hs[i].filter
<1>1. IsFilter(f) /\ h.kind = it.kind /\ it.kind \in {"Transaction", "Instruction", "Log"}
  BY ItemsAssumption DEF AreHandlers, IsHandler, Accepts
<1>2. Defined(f) # {}
  <2>1. SUFFICES ASSUME Defined(f) = {} PROVE FALSE
    OBVIOUS
  <2>2. \A k \in FilterFields : f[k] = Undef
    BY <2>1 DEF Defined
  <2>3. f = [ k \in FilterFields |-> f[k] ]
    BY <1>1 DEF IsFilter
  <2>4. f = NoFields
    BY <2>2, <2>3 DEF NoFields
  <2>. QED BY <2>4
<1>3. f \in FiltersOf(hs, it.kind)
  BY <1>1, <1>2 DEF FiltersOf
<1>4. CASE it.kind = "Transaction"
  <2>1. TxCondition(f) \in Conditions(hs).transactions
    BY <1>3, <1>4 DEF Conditions
  <2>2. FilterTransactionsProcessor(it, f)
    BY <1>1, <1>4 DEF Accepts
  <2>3. it.signatures \in Nat \ {0}
    BY <1>4, ItemsAssumption
  <2>4. \E n \in 1..it.signatures : Within(At(it.accountKeys, n - 1), TxCondition(f).signerAccountKeys)
    <3>1. CASE f.signerAccountKey = Undef
      <4>1. 1 \in 1..it.signatures
        BY <2>3
      <4>. QED BY <3>1, <4>1 DEF Within, TxCondition
    <3>2. CASE f.signerAccountKey # Undef
      BY <2>2, <3>2 DEF Within, TxCondition, FilterTransactionsProcessor
    <3>. QED BY <3>1, <3>2
  <2>. QED BY <1>4, <2>1, <2>4 DEF Selected
<1>5. CASE it.kind = "Log"
  <2>1. LogCondition(f) \in Conditions(hs).logs
    BY <1>3, <1>5 DEF Conditions
  <2>2. FilterLogsProcessor(it, f)
    BY <1>1, <1>5 DEF Accepts
  <2>3. Within(it.programId, LogCondition(f).programIds)
    BY <2>2 DEF Within, LogCondition, FilterLogsProcessor
  <2>. QED BY <1>5, <2>1, <2>3 DEF Selected
<1>6. CASE it.kind = "Instruction"
  <2>. DEFINE c == InstructionCondition(f)
  <2>1. c \in Conditions(hs).instructions
    BY <1>3, <1>6 DEF Conditions
  <2>2. /\ f.includeFailed = TRUE \/ ~it.transaction.err
        /\ f.programId \in {Undef, GetProgramId(it)}
        /\ f.accounts = Undef \/ AccountsMatch(it, f.accounts)
        /\ f.discriminator = Undef \/ DiscriminatorMatches(it, f.discriminator)
    BY <1>1, <1>6 DEF Accepts, FilterInstructionsProcessor
  <2>3. Within(GetProgramId(it), c.programIds)
    BY <2>2 DEF Within, InstructionCondition
  <2>4. c.accounts = f.accounts
    BY DEF InstructionCondition
  <2>5. c.discriminators = Undef \/ \E d \in c.discriminators : StartsWith(it.data, d)
    <3>1. CASE f.discriminator = Undef
      BY <3>1 DEF InstructionCondition
    <3>2. CASE f.discriminator # Undef
      <4>1. f.programId # Undef
        BY <1>1, <1>6, <3>2, UndefAssumption DEF ConditionError
      <4>2. f.programId = GetProgramId(it)
        BY <2>2, <4>1
      <4>3. StartsWith(it.data, ParseDiscriminator(f.discriminator, f.programId))
        BY <2>2, <3>2, <4>2 DEF DiscriminatorMatches
      <4>. QED BY <3>2, <4>3 DEF InstructionCondition
    <3>. QED BY <3>1, <3>2
  <2>6. c.isCommitted \in {Undef, ~it.transaction.err}
    <3>1. it.transaction.err \in BOOLEAN
      BY <1>6, ItemsAssumption
    <3>2. CASE f.includeFailed = TRUE
      BY <3>2 DEF InstructionCondition
    <3>3. CASE f.includeFailed # TRUE
      <4>1. ~it.transaction.err = TRUE
        BY <2>2, <3>1, <3>3
      <4>2. c.isCommitted = TRUE
        BY <3>3 DEF InstructionCondition
      <4>. QED BY <4>1, <4>2
    <3>. QED BY <3>2, <3>3
  <2>. HIDE DEF c
  <2>7. c.accounts = Undef \/
        \A n \in DOMAIN c.accounts : c.accounts[n] # Undef =>
          /\ n \in DOMAIN it.accounts
          /\ At(AllAccounts(it.transaction), it.accounts[n]) \in c.accounts[n]
    BY <1>1, <1>6, <2>2, <2>4, AccountsSelected
  <2>8. InstructionSelected(it, c)
    BY <2>3, <2>5, <2>6, <2>7 DEF InstructionSelected
  <2>. QED BY <1>6, <2>1, <2>8 DEF Selected
<1>. QED BY <1>1, <1>4, <1>5, <1>6

------------------------------------------------------------------------------
(* The invariant *)

\* The query is that of all handlers, and these have been validated.
Inv ==
  /\ status \in {"loading", "running", "rejected", "crashed"}
  /\ AreHandlers(handlers) /\ Len(handlers) <= MaxHandlers
  /\ Running => /\ BuildDictionaryV2QueryEntry(handlers) = [error |-> Undef, query |-> query]
                /\ \A i \in DOMAIN handlers : ProgramIdRequired(handlers[i])
  /\ status = "crashed" <=> cause # Undef
  /\ cause # "programId is required"

LEMMA RunStep ==
  ASSUME NEW hs, AreHandlers(hs), Len(hs) <= MaxHandlers,
         \A i \in DOMAIN hs : ProgramIdRequired(hs[i]), Run(hs)
  PROVE  Inv'
<1>. DEFINE built == BuildDictionaryV2QueryEntry(hs)
<1>1. /\ handlers' = hs /\ query' = built.query /\ cause' = built.error
      /\ status' = IF built.error = Undef THEN "running" ELSE "crashed"
  BY DEF Run
<1>2. built = [ error |-> built.error, query |-> built.query ]
      /\ built.error # "programId is required"
  BY BuildFacts
<1>3. built.error = Undef => built = [error |-> Undef, query |-> built.query]
  BY <1>2
<1>. QED BY <1>1, <1>2, <1>3 DEF Inv, Running, built

LEMMA InvInit == Init => Inv
<1>. SUFFICES ASSUME Init PROVE Inv
  OBVIOUS
<1>1. handlers = <<>> /\ status = "loading" /\ cause = Undef
  BY DEF Init
<1>2. AreHandlers(<<>>) /\ Len(<<>>) = 0
  BY DEF AreHandlers
<1>3. 0 <= MaxHandlers
  BY HandlersAssumption
<1>. QED BY <1>1, <1>2, <1>3, UndefAssumption DEF Inv, Running

LEMMA InvStep == Inv /\ [Next]_vars => Inv'
<1>. SUFFICES ASSUME Inv, [Next]_vars PROVE Inv'
  OBVIOUS
<1>1. CASE LoadManifest
  <2>1. PICK hs \in Manifests :
          \/ ValidateSync(hs, TRUE) /\ Run(hs)
          \/ status' = "rejected" /\ handlers' = hs /\ UNCHANGED <<query, cause>>
    BY <1>1 DEF LoadManifest
  <2>2. AreHandlers(hs) /\ Len(hs) <= MaxHandlers
    BY Written, HandlersAssumption
  <2>3. CASE ValidateSync(hs, TRUE) /\ Run(hs)
    BY <2>2, <2>3, RunStep DEF ValidateSync
  <2>4. CASE status' = "rejected" /\ handlers' = hs /\ UNCHANGED <<query, cause>>
    <3>1. status = "loading"
      BY <1>1 DEF LoadManifest
    <3>. QED BY <2>2, <2>4, <3>1 DEF Inv, Running
  <2>. QED BY <2>1, <2>3, <2>4
<1>2. CASE UpdateDynamicDs
  <2>1. PICK hs \in Templates, args \in Args :
          LET merged == [ i \in DOMAIN hs |-> MergeArgs(hs[i], args) ] IN
          /\ Len(handlers) + Len(hs) <= MaxHandlers
          /\ \/ ValidateSync(merged, FALSE) /\ Run(handlers \o merged)
             \/ /\ status' = "crashed" /\ cause' = "Dynamic ds is invalid"
                /\ UNCHANGED <<handlers, query>>
    BY <1>2 DEF UpdateDynamicDs
  <2>. DEFINE merged == [ i \in DOMAIN hs |-> MergeArgs(hs[i], args) ]
  <2>2. AreHandlers(merged) /\ Len(merged) = Len(hs)
    BY Merged
  <2>3. status = "running"
    BY <1>2 DEF UpdateDynamicDs
  <2>4. CASE ValidateSync(merged, FALSE) /\ Run(handlers \o merged)
    <3>. HIDE DEF merged
    <3>1. /\ AreHandlers(handlers \o merged) /\ Len(handlers \o merged) = Len(handlers) + Len(merged)
          /\ \A i \in DOMAIN (handlers \o merged) :
               \/ \E j \in DOMAIN handlers : (handlers \o merged)[i] = handlers[j]
               \/ \E j \in DOMAIN merged : (handlers \o merged)[i] = merged[j]
      <4>1. AreHandlers(handlers)
        BY DEF Inv
      <4>. HIDE DEF Inv
      <4>. QED BY <2>2, <4>1, Joined
    <3>2. \A i \in DOMAIN handlers : ProgramIdRequired(handlers[i])
      BY <2>3 DEF Inv, Running
    <3>3. \A i \in DOMAIN merged : ProgramIdRequired(merged[i])
      BY <2>4 DEF ValidateSync
    <3>. DEFINE all == handlers \o merged
    <3>4. AreHandlers(all) /\ Len(all) <= MaxHandlers /\ Run(all)
      BY <2>1, <2>2, <2>4, <3>1
    <3>5. \A i \in DOMAIN all : ProgramIdRequired(all[i])
      BY <3>1, <3>2, <3>3
    <3>. HIDE DEF all
    <3>. QED BY <3>4, <3>5, RunStep
  <2>5. CASE status' = "crashed" /\ cause' = "Dynamic ds is invalid" /\ UNCHANGED <<handlers, query>>
    BY <2>5, UndefAssumption DEF Inv, Running
  <2>. QED BY <2>1, <2>4, <2>5
<1>3. CASE UNCHANGED vars
  BY <1>3 DEF vars, Inv, Running
<1>. QED BY <1>1, <1>2, <1>3 DEF Next

LEMMA Invariance == Spec => []Inv
<1>. QED BY InvInit, InvStep, PTL DEF Spec

\* The query in force is the one for the handlers of all data sources, dynamic ones
\* included, and a process that ended has a cause (updateQueriesMap).
THEOREM QueryTypeCorrect == Spec => []TypeOK
<1>1. Inv => TypeOK
  <2>. SUFFICES ASSUME Inv, NEW h \in Handlers
                PROVE  /\ h.kind \in {"Block", "Transaction", "Instruction", "Log"}
                       /\ h.filter = Undef \/ DOMAIN h.filter = FilterFields
    BY DEF TypeOK, Inv
  <2>1. IsHandler(h)
    BY DEF Handlers, Inv, AreHandlers
  <2>2. ASSUME IsFilter(h.filter) PROVE DOMAIN h.filter = FilterFields
    BY <2>2 DEF IsFilter
  <2>. QED BY <2>1, <2>2 DEF IsHandler
<1>. QED BY <1>1, Invariance, PTL

\* For every manifest, templates and arguments, and whatever is on the chain: no
\* handler misses an item that its filter accepts because the dictionary's query
\* does not select it, unless its filter is {}.
THEOREM QueryCovers == Spec => []Covered
<1>1. Inv => Covered
  <2>. SUFFICES ASSUME Inv, Running, NEW h \in Handlers, NEW it \in Items,
                       h.filter # NoFields, Accepts(h, it)
                PROVE  Fetched(it)
    BY DEF Covered
  <2>1. PICK i \in DOMAIN handlers : h = handlers[i]
    BY DEF Handlers
  <2>2. AreHandlers(handlers)
        /\ BuildDictionaryV2QueryEntry(handlers) = [error |-> Undef, query |-> query]
    BY DEF Inv
  <2>3. BuildDictionaryV2QueryEntry(handlers).error = Undef
        /\ BuildDictionaryV2QueryEntry(handlers).query = query
    BY <2>2
  <2>4. \/ query = EmptyQuery
        \/ /\ query = Conditions(handlers)
           /\ handlers[i].filter # Undef /\ ConditionError(handlers[i]) = Undef
    BY <2>2, <2>3, BuildFacts
  <2>5. ASSUME query = Conditions(handlers), handlers[i].filter # Undef,
               ConditionError(handlers[i]) = Undef
        PROVE  Selected(query, it)
    BY <2>1, <2>2, <2>5, ConditionCovers
  <2>. QED BY <2>4, <2>5 DEF Fetched
<1>. QED BY <1>1, Invariance, PTL

\* No project that validation lets through, as manifest or as dynamic data source,
\* makes the query construction stop for want of a programId.
THEOREM QueryValidated == Spec => []ValidatedBeforeQuery
<1>1. Inv => ValidatedBeforeQuery
  BY DEF Inv, ValidatedBeforeQuery
<1>. QED BY <1>1, Invariance, PTL
==============================================================================
