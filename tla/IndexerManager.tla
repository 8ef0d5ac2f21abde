---------------------------- MODULE IndexerManager ----------------------------
(***************************************************************************)
(* How a block is walked and what the handlers are given.  The manager      *)
(* offers every part of a block to every data source, in order; the filter  *)
(* may need an IDL to read a discriminator, and what the handler gets is    *)
(* decoded with the IDL of its program.  IDLs are read from files at        *)
(* awaits, when the project starts or is upgraded and again before a        *)
(* handler is called; what was read or decoded once is kept.                *)
(*                                                                         *)
(* A data source stands for one of its handlers: a record with its kind,    *)
(* the fields of its filter, and its assets, a sequence of records with the *)
(* program an IDL is for and its file.  accounts is what the filter wants   *)
(* of one account; includeFailed is TRUE also for a handler without filter. *)
(***************************************************************************)
EXTENDS Integers, FiniteSets, FiniteSetsExt, SequencesExt

CONSTANTS
  Undefined,   \* absent
  Null,        \* the result of decoding that failed
  Programs,    \* program ids
  Inputs,      \* discriminators as filters write them
  Histories,   \* projects that follow each other in upgrades
  Content,     \* Content[file]: the IDL in a file; a file not listed is missing
  Bytes,       \* Bytes[idl][d]: the discriminator of the instruction or event d of an IDL
  Hex,         \* Hex[d]: the bytes of a discriminator d that is written in hex
  Base58,      \* Base58[d]: the bytes of a discriminator d that can be read as base58
  Block,       \* the transactions of a block, see IndexBlockData
  MaxBlocks,   \* bound on the blocks handled
  MaxDynamic   \* bound on the dynamic data sources created

ASSUME IndexerConstants ==
  /\ MaxBlocks \in Nat /\ MaxDynamic \in Nat
  /\ Undefined \notin {Null, "Failed to load datasource IDL", "Unable to find IDL",
                       "Non-base58 character"}

\* An IDL is an object, and hex is read as bytes.
ASSUME IdlValues == Undefined \notin Range(Content) /\ Undefined \notin Range(Hex)

\* Projects consist of lists.  A project has data sources, and an upgrade keeps
\* the number of templates.
ASSUME ProjectShape ==
  \A h \in Histories :
    /\ h \in Seq(Range(h)) /\ h # <<>>
    /\ \A n \in Range(h) :
         /\ n.dataSources \in Seq(Range(n.dataSources)) /\ n.dataSources # <<>>
         /\ n.templates \in Seq(Range(n.templates))
         /\ \A source \in Range(n.dataSources) \cup Range(n.templates) :
              /\ source.assets \in Seq(Range(source.assets))
              /\ \A a \in Range(source.assets) : a.program \in Programs
              /\ source.discriminator \in Inputs \cup {Undefined}
    /\ \A m, n \in Range(h) : Len(m.templates) = Len(n.templates)

\* A block consists of lists; calls are made by an instruction of the transaction.
ASSUME BlockShape ==
  /\ Block \in Seq(Range(Block))
  /\ \A tx \in Range(Block) :
       /\ tx.instructions \in Seq(Range(tx.instructions))
       /\ tx.innerInstructions \in Seq(Range(tx.innerInstructions))
       /\ tx.logs \in Seq(Range(tx.logs))
       /\ \A i \in Range(tx.instructions) : i.program \in Programs
       /\ \A g \in Range(tx.innerInstructions) :
            /\ g.index \in DOMAIN tx.instructions
            /\ g.instructions \in Seq(Range(g.instructions))
            /\ \A i \in Range(g.instructions) : i.program \in Programs

VARIABLES
  history,     \* the member of Histories this process lives through
  project,     \* number of the project in force
  dynamic,     \* the templates that dynamic data sources were created from
  phase,       \* "dataSources", "templates" (onProjectChange), "indexing", "failed"
  error,       \* the exception that ended the process, Undefined if none
  loads,       \* running calls of loadIdls: the assets each has left to read
  idls,        \* SolanaDecoder.idls
  memo,        \* the cache of Memoize on parseDiscriminator
  blocks,      \* number of the block in process
  item, ds,    \* the loop variables of the walk
  preparing,   \* has the item passed the filter of the data source?
  decoded,     \* pendingDecode of the items of the block
  calls        \* handler calls for the block: which item, which data source

vars == <<history, project, dynamic, phase, error, loads, idls, memo, blocks,
          item, ds, preparing, decoded, calls>>

decoder  == <<idls, memo>>
walk     == <<blocks, item, ds, preparing, decoded, calls>>
manifest == <<history, project, dynamic>>

Project == history[project]

\* The data sources a block is handled with, dynamic ones behind.
DataSources ==
  Project.dataSources \o [ i \in DOMAIN dynamic |-> Project.templates[dynamic[i]] ]

-------------------------------------------------------------------------------
(* The walk *)

\* Parts of a block.  where is the place of a part: transaction, then 1 and the
\* number of an instruction, followed for one that it called by the numbers of
\* its group and in it; or 2 and the number of a log.
BlockItem == [kind |-> "Block", where |-> <<>>, decodes |-> FALSE]
TxItem(t) == [kind |-> "Transaction", where |-> <<t>>, decodes |-> FALSE]
InstructionItem(where, inst) ==
  [kind |-> "Instruction", where |-> where, decodes |-> TRUE,
   program |-> inst.program, data |-> inst.data, account |-> inst.account,
   failed |-> Block[where[1]].err]
LogItem(where, log) ==
  [kind |-> "Log", where |-> where, decodes |-> log.type # "log",
   program |-> log.program, data |-> log.data]

\* The items of group g of a transaction.
GroupItems(t, g, group) ==
  [ j \in DOMAIN group.instructions |->
      InstructionItem(<<t, 1, group.index, g, j>>, group.instructions[j]) ]

\* Faulty variant: only the first group of an instruction is looked up.
InnerItemsOneGroup(t, tx, i) ==
  FlattenSeq([ g \in DOMAIN tx.innerInstructions |->
    IF /\ tx.innerInstructions[g].index = i
       /\ \A h \in 1..(g - 1) : tx.innerInstructions[h].index # i
      THEN GroupItems(t, g, tx.innerInstructions[g]) ELSE <<>> ])

\* The instructions that instruction i called, group by group.
InnerItems(t, tx, i) ==
  FlattenSeq([ g \in DOMAIN tx.innerInstructions |->
    IF tx.innerInstructions[g].index = i
      THEN GroupItems(t, g, tx.innerInstructions[g]) ELSE <<>> ])

LogItems(t, tx) == [ l \in DOMAIN tx.logs |-> LogItem(<<t, 2, l>>, tx.logs[l]) ]

\* Faulty variant: the calls of all instructions follow the last instruction.
TransactionItemsInnerLast(t, tx) ==
  LET outer == [ i \in DOMAIN tx.instructions |->
                   InstructionItem(<<t, 1, i>>, tx.instructions[i]) ]
      inner == [ i \in DOMAIN tx.instructions |-> InnerItems(t, tx, i) ]
  IN  <<TxItem(t)>> \o outer \o FlattenSeq(inner) \o LogItems(t, tx)

\* An instruction and the ones it called.
InstructionItems(t, tx, i) ==
  <<InstructionItem(<<t, 1, i>>, tx.instructions[i])>> \o InnerItems(t, tx, i)

\* A transaction, each of its instructions followed by the ones it called, logs.
TransactionItems(t, tx) ==
  <<TxItem(t)>>
    \o FlattenSeq([ i \in DOMAIN tx.instructions |-> InstructionItems(t, tx, i) ])
    \o LogItems(t, tx)

\* indexBlockData: the order in which the parts are offered.
IndexBlockData ==
  <<BlockItem>> \o FlattenSeq([ t \in DOMAIN Block |-> TransactionItems(t, Block[t]) ])

Item == IndexBlockData[item]

-------------------------------------------------------------------------------
(* SolanaDecoder *)

\* Faulty variant: what is loaded is read again.
ReadAgain(assets, cache) == assets

\* loadIdls up to its next await: assets that are loaded are passed over.
StillToRead(assets, cache) ==
  LET missing == { i \in DOMAIN assets : cache[assets[i].program] = Undefined }
  IN  IF missing = {} THEN <<>> ELSE SubSeq(assets, Min(missing), Len(assets))

\* The calls of loadIdls for several data sources at once.
LoadIdls(sources) ==
  loads' = [ i \in DOMAIN sources |-> StillToRead(sources[i].assets, idls) ]

Loaded == \A i \in DOMAIN loads : loads[i] = <<>>

\* A file has been read, or is missing, and the call goes on.
ReadFile(i) ==
  /\ loads[i] # <<>>
  /\ LET asset == Head(loads[i]) IN
       \/ /\ asset.file \in DOMAIN Content
          /\ idls' = [idls EXCEPT ![asset.program] = Content[asset.file]]
          /\ loads' = [loads EXCEPT ![i] = StillToRead(Tail(loads[i]), idls')]
          /\ UNCHANGED <<phase, error>>
       \/ /\ asset.file \notin DOMAIN Content
          /\ phase' = "failed"
          /\ error' = "Failed to load datasource IDL"
          /\ UNCHANGED <<idls, loads>>

\* The body of parseDiscriminator; Undefined if it throws: without an IDL, or for
\* what is neither the name of an instruction nor base58.
ParseDiscriminator(input, program) ==
  IF input \in DOMAIN Hex THEN Hex[input]
  ELSE IF idls[program] = Undefined THEN Undefined
  ELSE IF input \in DOMAIN Bytes[idls[program]] THEN Bytes[idls[program]][input]
  ELSE IF input \in DOMAIN Base58 THEN Base58[input]
  ELSE Undefined

\* Memoize: an earlier result for the same arguments is returned.
Memoized(input, program) ==
  IF memo[<<input, program>>] # Undefined THEN memo[<<input, program>>]
                                      ELSE ParseDiscriminator(input, program)

\* decodeInstruction, decodeLog with an IDL: of its instructions and events the
\* one whose discriminator the data begins with decides; null if there is none.
DecodeData(idl, it) == IF it.data \in Range(Bytes[idl]) THEN idl ELSE Null

\* SolanaDecoder.decodeInstructionRaw, decodeLog.  Without an IDL getIdlFromChain
\* throws, which is caught, and the result is null.
Decode(it) ==
  IF idls[it.program] = Undefined THEN Null ELSE DecodeData(idls[it.program], it)

\* The getters decodedData and decodedMessage of the items in S.
Get(S) ==
  [ i \in DOMAIN decoded |->
      IF i \in S /\ decoded[i] = Undefined /\ IndexBlockData[i].decodes
        THEN Decode(IndexBlockData[i]) ELSE decoded[i] ]

-------------------------------------------------------------------------------
(* onProjectChange.  Nothing is indexed until it has returned. *)

\* Faulty variant: the IDLs of templates are left to be loaded when needed.
SkipTemplates ==
  /\ phase = "dataSources" /\ Loaded
  /\ phase' = "indexing" /\ loads' = <<>>
  /\ UNCHANGED <<manifest, error, decoder, walk>>

\* All data sources are loaded: the templates follow.
LoadTemplates ==
  /\ phase = "dataSources" /\ Loaded
  /\ phase' = "templates" /\ LoadIdls(Project.templates)
  /\ UNCHANGED <<manifest, error, decoder, walk>>

ProjectLoaded ==
  /\ phase = "templates" /\ Loaded
  /\ phase' = "indexing" /\ loads' = <<>>
  /\ UNCHANGED <<manifest, error, decoder, walk>>

\* A read of one of the running calls of loadIdls ends.
FileRead ==
  /\ phase # "failed"
  /\ \E i \in DOMAIN loads : ReadFile(i)
  /\ UNCHANGED <<manifest, memo, walk>>

-------------------------------------------------------------------------------
(* indexData: one data source is offered one item *)

Source == DataSources[ds]

AtItem == phase = "indexing" /\ item <= Len(IndexBlockData)

\* What filterInstructionsProcessor and filterLogsProcessor check before the
\* discriminator.
Eligible(it, source) ==
  /\ source.kind = it.kind
  /\ it.kind \in {"Instruction", "Log"} => source.programId \in {Undefined, it.program}
  /\ it.kind = "Instruction" =>
       /\ it.failed => source.includeFailed
       /\ source.accounts # Undefined => it.account \in source.accounts

\* Must the filter read a discriminator to decide?
ReadsDiscriminator ==
  Eligible(Item, Source) /\ Item.kind = "Instruction" /\ Source.discriminator # Undefined

\* The filter processors.
Accepts(it, source) ==
  /\ Eligible(it, source)
  /\ it.kind = "Instruction" /\ source.discriminator # Undefined =>
       Memoized(source.discriminator, it.program) = it.data

\* Faulty variant: the loop over the data sources runs one too far.
AdvanceTooFar(sources) ==
  IF ds <= Len(sources) THEN ds' = ds + 1 /\ UNCHANGED item
                        ELSE ds' = 1 /\ item' = item + 1

\* The loops go on; the list may have grown to sources.
Advance(sources) ==
  IF ds < Len(sources) THEN ds' = ds + 1 /\ UNCHANGED item
                       ELSE ds' = 1 /\ item' = item + 1

\* The filter throws: there is no IDL to read the discriminator with, or it is
\* neither a name in the IDL nor base58.
FilterThrows ==
  /\ AtItem /\ ~preparing
  /\ ReadsDiscriminator
  /\ Memoized(Source.discriminator, Item.program) = Undefined
  /\ phase' = "failed"
  /\ error' = IF idls[Item.program] = Undefined THEN "Unable to find IDL"
                                                ELSE "Non-base58 character"
  /\ UNCHANGED <<manifest, loads, decoder, walk>>

\* filterHandlers, then the start of prepareFilteredData.
Filter ==
  /\ AtItem /\ ~preparing
  /\ ReadsDiscriminator => Memoized(Source.discriminator, Item.program) # Undefined
  /\ memo' = IF ReadsDiscriminator
               THEN [memo EXCEPT ![<<Source.discriminator, Item.program>>] =
                       Memoized(Source.discriminator, Item.program)]
               ELSE memo
  /\ \/ /\ ~Accepts(Item, Source)
        /\ Advance(DataSources)
        /\ UNCHANGED <<preparing, loads>>
     \/ /\ Accepts(Item, Source)
        /\ preparing' = TRUE /\ LoadIdls(<<Source>>)
        /\ UNCHANGED <<item, ds>>
  /\ UNCHANGED <<manifest, phase, error, idls, blocks, decoded, calls>>

\* The IDLs are there: the item is decoded and the handler called, which may
\* read another item and create a data source for the rest of the block.
CallHandler ==
  /\ AtItem /\ preparing /\ Loaded
  /\ \E other \in DOMAIN IndexBlockData : decoded' = Get({item, other})
  /\ calls' = Append(calls, [item |-> item, ds |-> ds])
  /\ preparing' = FALSE /\ loads' = <<>>
  /\ \/ UNCHANGED dynamic /\ Advance(DataSources)
     \/ /\ Len(dynamic) < MaxDynamic
        /\ \E i \in DOMAIN Project.templates :
             /\ dynamic' = Append(dynamic, i)
             /\ Advance(Append(DataSources, Project.templates[i]))
  /\ UNCHANGED <<history, project, phase, error, decoder, blocks>>

-------------------------------------------------------------------------------
(* Between blocks *)

Done == phase = "indexing" /\ item > Len(IndexBlockData)

StartBlock ==
  /\ item' = 1 /\ ds' = 1 /\ preparing' = FALSE
  /\ decoded' = [ i \in DOMAIN IndexBlockData |-> Undefined ]
  /\ calls' = <<>>

NextBlock ==
  /\ Done /\ blocks < MaxBlocks
  /\ blocks' = blocks + 1 /\ StartBlock
  /\ UNCHANGED <<manifest, phase, error, loads, decoder>>

\* The project is upgraded: onProjectChange for the next one.
UpgradeProject ==
  /\ Done /\ project < Len(history) /\ blocks < MaxBlocks
  /\ project' = project + 1
  /\ phase' = "dataSources" /\ LoadIdls(history[project + 1].dataSources)
  /\ blocks' = blocks + 1 /\ StartBlock
  /\ UNCHANGED <<history, dynamic, error, decoder>>

Init ==
  /\ history \in Histories /\ project = 1 /\ dynamic = <<>>
  /\ phase = "dataSources" /\ error = Undefined
  /\ idls = [ p \in Programs |-> Undefined ]
  /\ memo = [ k \in Inputs \X Programs |-> Undefined ]
  /\ loads = [ i \in DOMAIN Project.dataSources |-> Project.dataSources[i].assets ]
  /\ blocks = 1 /\ item = 1 /\ ds = 1 /\ preparing = FALSE
  /\ decoded = [ i \in DOMAIN IndexBlockData |-> Undefined ]
  /\ calls = <<>>

Next ==
  \/ LoadTemplates \/ ProjectLoaded \/ FileRead
  \/ FilterThrows \/ Filter \/ CallHandler
  \/ NextBlock \/ UpgradeProject

Spec == Init /\ [][Next]_vars

-------------------------------------------------------------------------------
(* Properties *)

\* Calls of loadIdls run only while the project changes or an item is prepared,
\* and only a process that failed has an error.
TypeOK ==
  /\ history \in Histories /\ project \in DOMAIN history
  /\ \A i \in DOMAIN dynamic : dynamic[i] \in DOMAIN Project.templates
  /\ phase \in {"dataSources", "templates", "indexing", "failed"}
  /\ phase = "failed" <=> error # Undefined
  /\ phase = "indexing" /\ ~preparing => loads = <<>>
  /\ item \in 1..(Len(IndexBlockData) + 1) /\ ds \in DOMAIN DataSources

\* The assets that project n of the history has for program p.
AssetsFor(n, p) ==
  { a \in UNION { Range(source.assets) : source \in Range(history[n].dataSources)
                                             \cup Range(history[n].templates) } :
      a.program = p }

\* Does project n bring an IDL for program p?
Brings(n, p) == AssetsFor(n, p) # {}

\* Indexing never stops for want of an IDL that the project brings along: the
\* filter, which runs before prepareFilteredData loads IDLs, can rely on
\* onProjectChange, for dynamic data sources too.
FilterFindsIdl == error = "Unable to find IDL" => ~Brings(project, Item.program)

\* Is what a handler was given for an item decoded with an IDL that project n
\* brings for its program?
DecodedWith(n, it, data) ==
  \E a \in AssetsFor(n, it.program) :
    a.file \in DOMAIN Content /\ data = DecodeData(Content[a.file], it)

\* Project n is the first that brings an IDL for program p.
FirstBrings(n, p) == Brings(n, p) /\ \A m \in 1..(n - 1) : ~Brings(m, p)

\* A handler is given data decoded with an IDL of the first project that brought
\* one for the program, also when the handler of a data source without the IDL,
\* or user code, read the item first (decodedData, decodedMessage).  loadIdls
\* keeps what is loaded: whatever a later project brings is not used.  So the
\* IDL is the project's own if no superseded project brought one.
DecodedWithFirst ==
  \A c \in Range(calls), n \in 1..project :
    LET it == IndexBlockData[c.item] IN
      it.decodes /\ FirstBrings(n, it.program) => DecodedWith(n, it, decoded[c.item])

\* What was read with an IDL stays right: a memoised discriminator and the data
\* decoded in the current block are what the decoder would return now, although
\* loadIdls replaces IDLs at awaits and upgrades bring other files.
CachesCurrent ==
  /\ \A k \in DOMAIN memo :
       memo[k] \in {Undefined, ParseDiscriminator(k[1], k[2])}
  /\ \A i \in DOMAIN decoded :
       decoded[i] = Undefined \/ decoded[i] = Decode(IndexBlockData[i])

\* Place u comes before place v on the chain: they part at n, where u has ended
\* or has the smaller number.
Precedes(u, v) ==
  \E n \in DOMAIN v :
    /\ \A m \in 1..(n - 1) : m \in DOMAIN u /\ u[m] = v[m]
    /\ n \in DOMAIN u => u[n] < v[n]

\* Handlers are called in the order of the chain, an instruction before the
\* ones it called and those before the next one, and for one item in the order
\* of the data sources, each once; also when data sources are created on the
\* way (indexBlockData).
InChainOrder ==
  \A m, n \in DOMAIN calls : m < n =>
    \/ Precedes(IndexBlockData[calls[m].item].where, IndexBlockData[calls[n].item].where)
    \/ calls[m].item = calls[n].item /\ calls[m].ds < calls[n].ds

\* No part of the block is left out: when it is done, every part, instructions
\* that were called by others included, has been handled by every data source of
\* the manifest that accepts it.
NoneLeftOut ==
  Done => \A source \in DOMAIN Project.dataSources :
    LET Handled(it) == Accepts(it, Project.dataSources[source]) =>
          \E c \in Range(calls) : IndexBlockData[c.item] = it /\ c.ds = source
    IN  /\ Handled(BlockItem)
        /\ \A t \in DOMAIN Block :
             /\ Handled(TxItem(t))
             /\ \A i \in DOMAIN Block[t].instructions :
                  Handled(InstructionItem(<<t, 1, i>>, Block[t].instructions[i]))
             /\ \A g \in DOMAIN Block[t].innerInstructions :
                  \A it \in Range(GroupItems(t, g, Block[t].innerInstructions[g])) : Handled(it)
             /\ \A it \in Range(LogItems(t, Block[t])) : Handled(it)
===============================================================================
