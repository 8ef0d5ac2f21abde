-------------------------- MODULE MCDictionaryQuery --------------------------
(* Projects and chain data for the runs of DictionaryQuery.  Program p1 has an *)
(* IDL, p2 has none.                                                         *)
EXTENDS DictionaryQuery

CONSTANTS p1, p2, a1, a2

MCHex == [ d \in {"0x00"} |-> <<0>> ]
MCIdls == [ p \in {p1} |-> [ d \in {"swap"} |-> <<0, 1>> ] ]
\* The character 0 is none of base58.
MCBase58 == [ d \in {"swap", "A"} |-> <<1>> ]

Filter(fields) == [ k \in FilterFields |-> IF k \in DOMAIN fields THEN fields[k] ELSE Undef ]
Handler(kind, filter) == [ kind |-> kind, filter |-> filter ]

ProgramFilters == { Filter([programId |-> p]) : p \in {p1, p2} }
SignerFilter == Filter([signerAccountKey |-> a1])

InstructionFilters ==
  { Filter([programId |-> p, discriminator |-> d, accounts |-> a, includeFailed |-> i]) :
      p \in {Undef, p1}, d \in {Undef, "0x00", "swap", "A", "swap0"},
      a \in {Undef, <<{a1}>>, <<Undef, {a2}>>, <<{}>>}, i \in {Undef, TRUE} }

AllHandlers ==
     { Handler("Block", f) : f \in {Undef, Filter([modulo |-> 2])} \cup ProgramFilters }
  \cup { Handler("Transaction", f) : f \in {Undef, SignerFilter} }
  \cup { Handler("Log", f) : f \in {Undef} \cup ProgramFilters }
  \cup { Handler("Instruction", f) : f \in ({Undef} \cup ProgramFilters \cup InstructionFilters
           \cup {Filter([programId |-> p2, discriminator |-> "swap"])}) }

FewHandlers ==
  { Handler("Block", Filter([modulo |-> 2])),
    Handler("Transaction", SignerFilter),
    Handler("Log", Undef),
    Handler("Log", Filter([programId |-> p1])),
    Handler("Instruction", Filter([programId |-> p1, discriminator |-> "swap"])) }

MCManifests ==
  { <<h>> : h \in AllHandlers } \cup { <<g, h>> : g \in FewHandlers, h \in AllHandlers }

MCTemplates ==
  { <<h>> : h \in FewHandlers \cup { Handler(k, Undef) : k \in {"Block", "Transaction"} } }
  \cup { <<Handler("Instruction", Filter([programId |-> p2])), Handler("Log", Undef)>> }

SomeArgs ==
  ProgramFilters \cup
  { SignerFilter, Filter([discriminator |-> "0x00"]), Filter([includeFailed |-> TRUE]),
    Filter([accounts |-> <<Undef, {a1}>>]), NoFields }

\* Transactions with two accounts and the program, loaded ones behind.
Txs(loaded) ==
  { [ kind |-> "Transaction", accountKeys |-> <<k[1], k[2], p>>, loadedAddresses |-> l,
      signatures |-> n, err |-> e ] :
      k \in {<<a1, a2>>, <<a2, a1>>}, p \in {p1, p2}, l \in loaded, n \in {1, 2},
      e \in BOOLEAN }

Instructions(txs) ==
  { [ kind |-> "Instruction", transaction |-> t, programIdIndex |-> 2,
      accounts |-> a, data |-> d ] :
      t \in { x \in txs : x.signatures = 1 },
      a \in {<<0>>, <<1, 0>>, <<0, 3>>}, d \in {<<0, 0>>, <<0, 1>>, <<1, 0>>} }

Logs == { [ kind |-> "Log", programId |-> p ] : p \in {p1, p2} }

MCItems == LET txs == Txs({<<>>, <<a1>>}) IN txs \cup Instructions(txs) \cup Logs
==============================================================================
