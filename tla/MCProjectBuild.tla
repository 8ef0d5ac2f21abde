--------------------------- MODULE MCProjectBuild ---------------------------
(* Manifests and IDLs for TLC. *)
EXTENDS ProjectBuild

Filter(program, disc) == [programId |-> program, discriminator |-> disc]
Handler(kind, filter) == [kind |-> kind, filter |-> filter]
Claim == Handler("solana/InstructionHandler", Filter("jup", "claim_token"))
Route == Handler("solana/InstructionHandler", Filter("swap", "route"))
Hex   == Handler("solana/InstructionHandler", Filter("jup", "0x74"))
Loose == Handler("solana/InstructionHandler", Filter(None, "route"))
Plain == Handler("solana/InstructionHandler", None)
Log   == Handler("solana/LogHandler", Filter("jup", None))
Odd   == Handler("cosmos/EventHandler", Filter("jup", None))

Asset(name, file) == [name |-> name, file |-> file]
Runtime(assets, handlers) ==
  [kind |-> "solana/Runtime", processor |-> FALSE, assets |-> assets, handlers |-> handlers]
Custom(processor, assets) ==
  [kind |-> "custom/Processor", processor |-> processor, assets |-> assets, handlers |-> <<Odd>>]

Manifest(chain, genesis, sources) ==
  [specVersion |-> "1.0.0", runner |-> "@subql/node-solana", chainId |-> chain,
   genesisHash |-> genesis, dataSources |-> sources]

Jup == <<Asset("jup", "a")>>
MCProjects == {
  \* two programs, handlers of several kinds, one behind a handler without filter
  Manifest("main", None, <<Runtime(<<Asset("jup", "a"), Asset("swap", "b")>>, <<Log, Claim, Route, Plain, Hex>>)>>),
  \* data sources that disagree about a file, and a custom one
  Manifest(None, "main", <<Runtime(Jup, <<Claim>>), Runtime(<<Asset("jup", "b")>>, <<Claim>>), Custom(TRUE, <<>>)>>),
  \* discriminators without a file, without a program, and as bytes
  Manifest("main", None, <<Runtime(<<>>, <<Route>>)>>),
  Manifest("main", None, <<Runtime(Jup, <<Loose>>)>>),
  Manifest("main", None, <<Runtime(Jup, <<Hex>>)>>),
  \* what validation of the manifest has to find
  Manifest("main", None, <<Custom(FALSE, Jup)>>),
  Manifest("main", None, <<Runtime(Jup, <<Odd, Claim>>)>>),
  Manifest(None, None, <<Runtime(Jup, <<Claim>>)>>),
  [Manifest("main", None, <<Runtime(Jup, <<>>)>>) EXCEPT !.specVersion = "0.9.0"],
  [Manifest("main", None, <<Runtime(Jup, <<>>)>>) EXCEPT !.runner = "@subql/node"] }

Inst(name, kind) == [name |-> name, discriminator |-> kind]

\* An instruction may be there under both of its names.
MCIdls == {
  <<Inst("claimToken", "bytesValueNode"), Inst("route", "numberValueNode")>>,
  <<Inst("claim_token", "publicKeyValueNode"), Inst("claimToken", "bytesValueNode"),
    Inst("route", "bytesValueNode")>>,
  <<Inst("claimToken", "bytesValueNode")>>,
  <<Inst("route", "bytesValueNode")>> }

\* The bytes of a discriminator are not the name of an instruction.
MCCamelCase == [n \in {"claim_token", "route", "0x74"} |->
                  IF n = "claim_token" THEN "claimToken" ELSE n]
==============================================================================
