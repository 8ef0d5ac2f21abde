------------------------------- MODULE Filters -------------------------------
(***************************************************************************)
(* The predicates that decide which parts of a block a handler is called   *)
(* with (utils.solana.ts) and the manifest's rules for writing them down    *)
(* (common-solana, models.ts).                                              *)
(*                                                                         *)
(* A filter is a record with every field that a filter of some kind has;    *)
(* Undef stands for a field that is absent.  Kinds share the record because *)
(* arguments of a dynamic data source are merged into filters of all kinds. *)
(***************************************************************************)
EXTENDS Integers, Sequences

CONSTANTS
  Undef,     \* absent: a filter, a field, an entry of accounts, an IDL
  Thrown,    \* the call ended in an exception
  Hex,       \* Hex[d]: the bytes of a discriminator d that is written in hex
  Idls,      \* Idls[p][d]: the bytes of the instruction d in the IDL of program p
  Base58     \* Base58[d]: the bytes of a discriminator d that can be read as base58

FilterFields ==
  {"modulo", "signerAccountKey", "programId", "discriminator", "accounts",
   "includeFailed"}

\* The filter {}.
NoFields == [ k \in FilterFields |-> Undef ]

\* Fields that a filter defines.
Defined(f) == { k \in FilterFields : f[k] # Undef }

\* Does data begin with the bytes d?  (Buffer.indexOf(d) = 0)
StartsWith(data, d) == Len(d) <= Len(data) /\ SubSeq(data, 1, Len(d)) = d

------------------------------------------------------------------------------
(* Decoder *)

\* parseDiscriminator(input, programId).  It throws without an IDL, and for
\* what is neither hex, nor an instruction of the IDL, nor base58.
ParseDiscriminator(input, programId) ==
  IF input \in DOMAIN Hex THEN Hex[input]
  ELSE IF programId \notin DOMAIN Idls THEN Thrown
  ELSE IF input \in DOMAIN Idls[programId] THEN Idls[programId][input]
  ELSE IF input \in DOMAIN Base58 THEN Base58[input]
  ELSE Thrown

------------------------------------------------------------------------------
(* Filters at run time.  An item is a transaction, an instruction or a log.  *)

\* accountKeys of the message, then the addresses loaded from lookup tables.
AllAccounts(tx) == tx.accountKeys \o tx.loadedAddresses

\* Element i, counted from 0; a read past the end is undefined.
At(keys, i) == IF i + 1 \in DOMAIN keys THEN keys[i + 1] ELSE Undef

GetProgramId(inst) == At(AllAccounts(inst.transaction), inst.programIdIndex)

\* Signature i belongs to account key i.
FilterTransactionsProcessor(tx, f) ==
  f = Undef \/ f.signerAccountKey = Undef
  \/ \E i \in 1..tx.signatures : At(tx.accountKeys, i - 1) = f.signerAccountKey

\* The loop over filter.accounts: entry i restricts account i of the
\* instruction, an absent entry restricts nothing.
AccountsMatch(inst, accounts) ==
  \A i \in DOMAIN accounts : accounts[i] # Undef =>
    /\ i \in DOMAIN inst.accounts
    /\ At(inst.transaction.accountKeys, inst.accounts[i]) \in accounts[i]

\* Does the data begin with the discriminator?  When it cannot be parsed the
\* exception ends the process and nothing is handled.
DiscriminatorMatches(inst, input) ==
  LET d == ParseDiscriminator(input, GetProgramId(inst))
  IN  d # Thrown /\ StartsWith(inst.data, d)

FilterInstructionsProcessor(inst, f) ==
  \/ f = Undef
  \/ /\ f.includeFailed = TRUE \/ ~inst.transaction.err
     /\ f.programId \in {Undef, GetProgramId(inst)}
     /\ f.accounts = Undef \/ AccountsMatch(inst, f.accounts)
     /\ f.discriminator = Undef \/ DiscriminatorMatches(inst, f.discriminator)

FilterLogsProcessor(log, f) == f = Undef \/ f.programId \in {Undef, log.programId}

\* getFilterTypeMap: is handler h called with the item?
Accepts(h, item) ==
  /\ h.kind = item.kind
  /\ CASE h.kind = "Transaction" -> FilterTransactionsProcessor(item, h.filter)
       [] h.kind = "Instruction" -> FilterInstructionsProcessor(item, h.filter)
       [] h.kind = "Log"         -> FilterLogsProcessor(item, h.filter)

------------------------------------------------------------------------------
(* Validation of handlers in manifests and dynamic data sources. *)

\* Fields that may be given.  Those of a Transaction, Instruction or Log filter
\* are the ones its class declares (InstructionFilter spells the last one
\* includeFalied); the filter of a BlockHandler is not validated.
Whitelist(kind) ==
  CASE kind = "Block"       -> FilterFields
    [] kind = "Transaction" -> {"signerAccountKey"}
    [] kind = "Instruction" -> {"programId", "discriminator", "accounts"}
    [] kind = "Log"         -> {"programId"}

\* Faulty variant: a discriminator stands without its program.
ProgramIdOptional(h) == TRUE

\* The decorators on InstructionFilter.programId.
ProgramIdRequired(h) ==
  h.kind = "Instruction" /\ h.filter # Undef /\ h.filter.discriminator # Undef
    => h.filter.programId # Undef

\* validateSync(ds, {whitelist: true, forbidNonWhitelisted}): no errors.
ValidateSync(hs, forbidNonWhitelisted) ==
  \A i \in DOMAIN hs :
    /\ ProgramIdRequired(hs[i])
    /\ forbidNonWhitelisted /\ hs[i].filter # Undef
         => Defined(hs[i].filter) \subseteq Whitelist(hs[i].kind)
==============================================================================
