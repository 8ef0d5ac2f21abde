--------------------------- MODULE DictionaryQuery ---------------------------
(***************************************************************************)
(* The query with which the dictionary is asked for the blocks of a         *)
(* project, built from the handlers of its data sources, those of dynamic   *)
(* data sources included.  The query decides what is fetched, the filters   *)
(* decide what is handled, and the two are computed by different code.      *)
(***************************************************************************)
EXTENDS Filters, FiniteSetsExt

CONSTANTS
  Manifests,   \* sequences of handlers that projects are written with
  Templates,   \* sequences of handlers of data source templates
  Args,        \* filters that createDynamicDatasource is called with
  Items,       \* items that occur on the chain
  MaxHandlers  \* bound on the handlers of a running project

\* undefined is no message of an exception.
ASSUME UndefAssumption ==
  Undef \notin {"programId is required", "discriminator not parsed", "Dynamic ds is invalid"}

\* A filter; undefined is not among the accounts that it allows.
IsFilter(f) ==
  /\ f = [ k \in FilterFields |-> f[k] ]
  /\ f.accounts # Undef =>
       \A i \in DOMAIN f.accounts : f.accounts[i] # Undef => Undef \notin f.accounts[i]

\* Handlers are lists; no manifest is longer than the bound.
ASSUME HandlersAssumption ==
  /\ MaxHandlers \in Nat
  /\ \A hs \in Manifests : Len(hs) <= MaxHandlers
  /\ \A hs \in Manifests \cup Templates :
       /\ hs \in Seq({ hs[i] : i \in DOMAIN hs })
       /\ \A i \in DOMAIN hs :
            /\ hs[i] = [ kind |-> hs[i].kind, filter |-> hs[i].filter ]
            /\ hs[i].kind \in {"Block", "Transaction", "Instruction", "Log"}
            /\ hs[i].filter = Undef \/ IsFilter(hs[i].filter)
  /\ \A args \in Args : IsFilter(args)

\* A transaction is signed; what is on the chain consists of lists.
ASSUME ItemsAssumption ==
  \A it \in Items :
    /\ it.kind \in {"Transaction", "Instruction", "Log"}
    /\ it.kind = "Transaction" => it.signatures \in Nat \ {0}
    /\ it.kind = "Instruction" =>
         LET tx == it.transaction IN
         /\ tx.err \in BOOLEAN
         /\ tx.accountKeys \in Seq({ tx.accountKeys[i] : i \in DOMAIN tx.accountKeys })
         /\ tx.loadedAddresses
              \in Seq({ tx.loadedAddresses[i] : i \in DOMAIN tx.loadedAddresses })

VARIABLES
  status,    \* "loading", "running", "rejected" (manifest) or "crashed"
  handlers,  \* the handlers of all data sources, in order
  query,     \* the dictionary query in force, Undef before there is one
  cause      \* the exception a crash is due to, Undef if none

vars == <<status, handlers, query, cause>>

------------------------------------------------------------------------------
(* Conditions of the query *)

\* txFilterToDictionaryCondition
TxCondition(f) ==
  [ signerAccountKeys |->
      IF f.signerAccountKey = Undef THEN Undef ELSE {f.signerAccountKey} ]

\* Faulty variant: includeFailed asks for the failed ones only.
FailedOnlyCondition(f) ==
  [ accounts       |-> f.accounts,
    programIds     |-> IF f.programId = Undef THEN Undef ELSE {f.programId},
    discriminators |->
      IF f.discriminator = Undef THEN Undef
      ELSE {ParseDiscriminator(f.discriminator, f.programId)},
    isCommitted    |-> f.includeFailed # TRUE ]

\* instructionFilterToDictionaryCondition
InstructionCondition(f) ==
  [ accounts       |-> f.accounts,
    programIds     |-> IF f.programId = Undef THEN Undef ELSE {f.programId},
    discriminators |->
      IF f.discriminator = Undef THEN Undef
      ELSE {ParseDiscriminator(f.discriminator, f.programId)},
    isCommitted    |-> IF f.includeFailed = TRUE THEN Undef ELSE TRUE ]

\* logFilterToDictionaryCondition
LogCondition(f) ==
  [ programIds |-> IF f.programId = Undef THEN Undef ELSE {f.programId} ]

\* The exception with which a handler ends the construction, Undef for none.
ConditionError(h) ==
  IF h.kind # "Instruction" \/ h.filter = Undef \/ h.filter.discriminator = Undef
    THEN Undef
  ELSE IF h.filter.programId = Undef
    THEN "programId is required"
  ELSE IF ParseDiscriminator(h.filter.discriminator, h.filter.programId) = Thrown
    THEN "discriminator not parsed"
  ELSE Undef

\* A handler without filter, or of every block, ends it with the query {}.
NeedsEveryBlock(h) ==
  h.filter = Undef \/ (h.kind = "Block" /\ h.filter.modulo = Undef)

\* The query {}, with which the dictionary is not used.
EmptyQuery == [ transactions |-> {}, instructions |-> {}, logs |-> {} ]

\* Conditions of the handlers of a kind; one for a filter {} is left out.
FiltersOf(hs, kind) ==
  { hs[i].filter : i \in { j \in DOMAIN hs :
      hs[j].kind = kind /\ Defined(hs[j].filter) # {} } }

Conditions(hs) ==
  [ transactions |-> { TxCondition(f) : f \in FiltersOf(hs, "Transaction") },
    instructions |-> { InstructionCondition(f) : f \in FiltersOf(hs, "Instruction") },
    logs         |-> { LogCondition(f) : f \in FiltersOf(hs, "Log") } ]

\* buildDictionaryV2QueryEntry: the handlers are taken in order, the first one
\* that ends the construction decides.
BuildDictionaryV2QueryEntry(hs) ==
  LET ending == { i \in DOMAIN hs :
                    NeedsEveryBlock(hs[i]) \/ ConditionError(hs[i]) # Undef }
  IN  IF ending = {} THEN [error |-> Undef, query |-> Conditions(hs)]
      ELSE IF NeedsEveryBlock(hs[Min(ending)])
             THEN [error |-> Undef, query |-> EmptyQuery]
      ELSE [error |-> ConditionError(hs[Min(ending)]), query |-> Undef]

------------------------------------------------------------------------------
(* The dictionary server *)

Within(v, allowed) == allowed = Undef \/ v \in allowed

InstructionSelected(inst, c) ==
  /\ Within(GetProgramId(inst), c.programIds)
  /\ c.accounts = Undef \/
     \A i \in DOMAIN c.accounts : c.accounts[i] # Undef =>
       /\ i \in DOMAIN inst.accounts
       /\ At(AllAccounts(inst.transaction), inst.accounts[i]) \in c.accounts[i]
  /\ c.discriminators = Undef \/ \E d \in c.discriminators : StartsWith(inst.data, d)
  /\ c.isCommitted \in {Undef, ~inst.transaction.err}

\* Is the item in the blocks that the server returns for query q?
Selected(q, item) ==
  CASE item.kind = "Transaction" ->
         \E c \in q.transactions :
           \E i \in 1..item.signatures : Within(At(item.accountKeys, i - 1), c.signerAccountKeys)
    [] item.kind = "Instruction" -> \E c \in q.instructions : InstructionSelected(item, c)
    [] item.kind = "Log" -> \E c \in q.logs : Within(item.programId, c.programIds)

\* Is the item fetched at all?  Without conditions every block is.
Fetched(item) == query = EmptyQuery \/ Selected(query, item)

------------------------------------------------------------------------------
(* Data sources *)

\* Faulty variant: an exception is dropped and the project runs without query.
RunAnyway(hs) ==
  /\ handlers' = hs
  /\ status' = "running"
  /\ query' = BuildDictionaryV2QueryEntry(hs).query
  /\ cause' = Undef

\* updateQueriesMap: the query follows the handlers; an exception ends the process.
Run(hs) ==
  LET built == BuildDictionaryV2QueryEntry(hs)
  IN  /\ handlers' = hs
      /\ status' = IF built.error = Undef THEN "running" ELSE "crashed"
      /\ query' = built.query
      /\ cause' = built.error

\* parseSolanaProjectManifest, then the project starts.
LoadManifest ==
  /\ status = "loading"
  /\ \E hs \in Manifests :
       \/ ValidateSync(hs, TRUE) /\ Run(hs)
       \/ /\ ~ValidateSync(hs, TRUE)
          /\ status' = "rejected"
          /\ handlers' = hs
          /\ UNCHANGED <<query, cause>>

\* { ...handler.filter, ...params.args }
MergeArgs(h, args) ==
  [ h EXCEPT !.filter = [ k \in FilterFields |->
      IF args[k] # Undef \/ h.filter = Undef THEN args[k] ELSE h.filter[k] ] ]

\* updateDynamicDs on a template; the result is validated, unknown fields stay.
UpdateDynamicDs ==
  /\ status = "running"
  /\ \E hs \in Templates, args \in Args :
       LET merged == [ i \in DOMAIN hs |-> MergeArgs(hs[i], args) ]
       IN  /\ Len(handlers) + Len(hs) <= MaxHandlers
           /\ \/ ValidateSync(merged, FALSE) /\ Run(handlers \o merged)
              \/ /\ ~ValidateSync(merged, FALSE)
                 /\ status' = "crashed"
                 /\ cause' = "Dynamic ds is invalid"
                 /\ UNCHANGED <<handlers, query>>

Init ==
  /\ status = "loading"
  /\ handlers = <<>>
  /\ query = Undef
  /\ cause = Undef

Next == LoadManifest \/ UpdateDynamicDs

Spec == Init /\ [][Next]_vars

------------------------------------------------------------------------------
(* Properties *)

Running == status = "running"

Handlers == { handlers[i] : i \in DOMAIN handlers }

\* A running project has the query of its handlers, a crashed one a cause.
TypeOK ==
  /\ status \in {"loading", "running", "rejected", "crashed"}
  /\ Len(handlers) <= MaxHandlers
  /\ \A h \in Handlers :
       /\ h.kind \in {"Block", "Transaction", "Instruction", "Log"}
       /\ h.filter = Undef \/ DOMAIN h.filter = FilterFields
  /\ Running => BuildDictionaryV2QueryEntry(handlers) = [error |-> Undef, query |-> query]
  /\ status = "crashed" <=> cause # Undef

\* A handler is not starved by the dictionary: every item that one of the
\* project's handlers would be called with is in the blocks that are fetched,
\* for static and dynamic data sources together (buildDictionaryV2QueryEntry
\* against the four filter processors).  Handlers with the filter {} are left out:
\* the query has no condition for them.
Covered ==
  Running => \A h \in Handlers, it \in Items :
    h.filter # NoFields /\ Accepts(h, it) => Fetched(it)

\* Validation does its part: no project that was let through makes the query
\* construction stop for want of a programId (InstructionFilter, updateDynamicDs
\* and instructionFilterToDictionaryCondition).
ValidatedBeforeQuery == cause # "programId is required"
==============================================================================
