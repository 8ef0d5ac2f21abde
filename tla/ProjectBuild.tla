---------------------------- MODULE ProjectBuild ----------------------------
(***************************************************************************)
(* From a project's files to a running node: generateIDLInterfaces         *)
(* (packages/common-solana, codegen) validates the discriminators of the   *)
(* handlers against the IDL files and writes two outputs for each program, *)
(* and the node validates the manifest and loads the IDLs.  Both read the  *)
(* files again, at every await the developer may have replaced one, and    *)
(* code generation may end in the middle and be repeated.                  *)
(*                                                                         *)
(* A file holds an IDL, the list of the instructions by name, each with    *)
(* the kind of its discriminator; or None: no file, or no JSON.            *)
(***************************************************************************)
EXTENDS Integers, SequencesExt

CONSTANTS
  None,
  Projects,     \* the manifests considered
  Files,        \* IDL files
  Idls,         \* what a file may hold: lists of [name, discriminator]
  CamelCase,    \* camelCase of the discriminators in the manifests
  HexNotation,  \* the discriminators that isHex accepts
  MaxEdits      \* bound: changes of a file

ASSUME ProjectConstants ==
  /\ None \notin Idls /\ MaxEdits \in Nat
  /\ \A i \in Idls, h \in HexNotation : \A k \in DOMAIN i : i[k].name \notin {h, CamelCase[h]}

\* Data sources, handlers and the entries of assets are lists.
ASSUME ProjectShape ==
  \A p \in Projects :
    /\ p.dataSources \in Seq(ToSet(p.dataSources))
    /\ \A d \in ToSet(p.dataSources) :
         /\ d.handlers \in Seq(ToSet(d.handlers))
         /\ d.assets \in Seq(ToSet(d.assets))
         /\ \A a \in ToSet(d.assets) : a.file \in Files

VARIABLES
  project,      \* the manifest
  files,        \* contents of the files
  edits,        \* changes made so far
  pc,           \* where generateIDLInterfaces is
  ds, handler,  \* loop variables of validateDiscriminators
  issues,       \* has it found any?
  asset,        \* loop variable of generateIDLInterfaces
  idl,          \* the IDL it has parsed for that asset
  interfaces,   \* src/types/program-interfaces
  inputs,       \* src/types/handler-inputs
  edited,       \* was a file changed since code generation began?
  node,         \* the node process
  idls          \* SolanaDecoder.idls

loops   == <<ds, handler, issues, asset, idl>>
output  == <<interfaces, inputs>>
runtime == <<node, idls>>
vars    == <<project, files, edits, pc, loops, output, edited, runtime>>

DataSources == project.dataSources
Names == UNION {{a.name : a \in ToSet(d.assets)} : d \in ToSet(DataSources)}

\* An interface: the IDL it was rendered from, and whether its imports are patched.
Interface(i, fixed) == [idl |-> i, fixed |-> fixed]

Init ==
  /\ project \in Projects
  /\ files \in [Files -> Idls \cup {None}] /\ edits = 0 /\ edited = FALSE
  /\ pc = "idle" /\ ds = 1 /\ handler = 1 /\ issues = FALSE /\ asset = 1 /\ idl = None
  /\ interfaces = [n \in Names |-> Interface(None, FALSE)]
  /\ inputs = [n \in Names |-> None]
  /\ node = "off" /\ idls = [n \in Names |-> None]

------------------------------------------------------------------------------
(* IDLs *)

\* Faulty variant: a file that can not be read counts as an IDL without instructions.
ReadOrEmpty(f) == IF files[f] = None THEN <<>> ELSE files[f]

\* parseIdlFromFile, with an Anchor or a Codama IDL; None: it throws.
ParseIdlFromFile(f) == files[f]

\* The discriminators getInstructionDiscriminatorBytes can turn into bytes.
Readable == {"numberValueNode", "bytesValueNode"}

\* The instructions with the name, as it is or in camel case.
Matching(i, name) == {k \in DOMAIN i : i[k].name \in {name, CamelCase[name]}}

\* findInstructionDiscriminatorByName: can the discriminator of the first of
\* them be read?
FindInstructionDiscriminatorByName(i, name) ==
  \E k \in Matching(i, name) :
    /\ \A m \in Matching(i, name) : k <= m
    /\ i[k].discriminator \in Readable

------------------------------------------------------------------------------
(* validateDiscriminators *)

\* ds.assets?.get(programId)
FileRef(d, program) == {a.file : a \in {b \in ToSet(d.assets) : b.name = program}}

\* Only these handlers are looked at.
Checked(h) ==
  /\ h.kind = "solana/InstructionHandler"
  /\ h.filter.discriminator # None /\ h.filter.programId # None

\* Faulty variant: only a missing reference is an issue.
NoFileIssue(d, h) == Checked(h) /\ FileRef(d, h.filter.programId) = {}

\* What validateDiscriminators complains about.
Issue(d, h) ==
  /\ Checked(h)
  /\ \A f \in FileRef(d, h.filter.programId) :
       ~FindInstructionDiscriminatorByName(ParseIdlFromFile(f), h.filter.discriminator)

\* The file it has to read can not be parsed.
Unreadable(d, h) ==
  Checked(h) /\ \E f \in FileRef(d, h.filter.programId) : ParseIdlFromFile(f) = None

\* Each run starts from the beginning, over what earlier runs have written.
GenerateIDLInterfaces ==
  /\ pc \in {"idle", "done", "failed"} /\ node = "off"
  /\ pc' = "validate" /\ edited' = FALSE
  /\ ds' = 1 /\ handler' = 1 /\ issues' = FALSE /\ asset' = 1 /\ idl' = None
  /\ UNCHANGED <<project, files, edits, output, runtime>>

Reject == pc' = "failed" /\ UNCHANGED loops

DataSourcesLeft == ds <= Len(DataSources)

NextDataSource == ds' = ds + 1 /\ handler' = 1 /\ UNCHANGED <<pc, issues, asset, idl>>

\* One handler of one data source.  A data source of another kind is filtered
\* out; a handler without filter ends the loop over its data source.
ValidateHandler ==
  /\ pc = "validate" /\ DataSourcesLeft
  /\ LET d == DataSources[ds] IN
       IF d.kind # "solana/Runtime" \/ handler > Len(d.handlers) THEN NextDataSource
       ELSE LET h == d.handlers[handler] IN
         IF h.filter = None THEN NextDataSource
         ELSE IF Unreadable(d, h) THEN Reject
         ELSE /\ issues' = (issues \/ Issue(d, h))
              /\ handler' = handler + 1 /\ UNCHANGED <<pc, ds, asset, idl>>
  /\ UNCHANGED <<project, files, edits, output, edited, runtime>>

\* assert(issues.length === 0)
AssertNoIssues ==
  /\ pc = "validate" /\ ~DataSourcesLeft
  /\ pc' = (IF issues THEN "failed" ELSE "parse")
  /\ UNCHANGED <<project, files, edits, loops, output, edited, runtime>>

------------------------------------------------------------------------------
(* generateIDLInterfaces, after the validation *)

\* Faulty variant: the first entry of a name is kept.
MapKeep(m, a) == IF \E i \in DOMAIN m : m[i].name = a.name THEN m ELSE Append(m, a)

\* new Map(entries): a later entry replaces the value of an earlier one.
MapSet(m, a) ==
  IF \E i \in DOMAIN m : m[i].name = a.name
    THEN [i \in DOMAIN m |-> IF m[i].name = a.name THEN a ELSE m[i]]
    ELSE Append(m, a)

Entries == FlattenSeq([d \in DOMAIN DataSources |-> DataSources[d].assets])

AllAssets ==
  LET map[i \in 0..Len(Entries)] == IF i = 0 THEN <<>> ELSE MapSet(map[i - 1], Entries[i])
  IN  map[Len(Entries)]

Name == AllAssets[asset].name

ParseIdl ==
  /\ pc = "parse"
  /\ IF asset > Len(AllAssets) THEN pc' = "done" /\ UNCHANGED loops
     ELSE LET read == ParseIdlFromFile(AllAssets[asset].file) IN
       IF read = None THEN Reject
       ELSE pc' = "render" /\ idl' = read /\ UNCHANGED <<ds, handler, issues, asset>>
  /\ UNCHANGED <<project, files, edits, output, edited, runtime>>

\* renderVisitor writes the interfaces of the program.
Render ==
  /\ pc = "render"
  /\ pc' = "fix" /\ interfaces' = [interfaces EXCEPT ![Name] = Interface(idl, FALSE)]
  /\ UNCHANGED <<project, files, edits, loops, inputs, edited, runtime>>

FixTypeImports ==
  /\ pc = "fix"
  /\ pc' = "template" /\ interfaces' = [interfaces EXCEPT ![Name].fixed = TRUE]
  /\ UNCHANGED <<project, files, edits, loops, inputs, edited, runtime>>

\* Faulty variant: handler inputs that exist are not written again.
RenderMissing ==
  /\ pc = "template"
  /\ pc' = "parse"
  /\ inputs' = [inputs EXCEPT ![Name] = IF inputs[Name] = None THEN idl ELSE inputs[Name]]
  /\ asset' = asset + 1 /\ UNCHANGED <<ds, handler, issues, idl>>
  /\ UNCHANGED <<project, files, edits, interfaces, edited, runtime>>

\* renderTemplate writes the handler inputs, from the IDL already parsed.
RenderTemplate ==
  /\ pc = "template"
  /\ pc' = "parse" /\ inputs' = [inputs EXCEPT ![Name] = idl]
  /\ asset' = asset + 1 /\ UNCHANGED <<ds, handler, issues, idl>>
  /\ UNCHANGED <<project, files, edits, interfaces, edited, runtime>>

\* Writing fails, or the developer stops the command.
Interrupted ==
  /\ pc \in {"validate", "parse", "render", "fix", "template"}
  /\ pc' = "failed"
  /\ UNCHANGED <<project, files, edits, loops, output, edited, runtime>>

EditFile(f) ==
  /\ edits < MaxEdits
  /\ \E i \in (Idls \cup {None}) \ {files[f]} : files' = [files EXCEPT ![f] = i]
  /\ edits' = edits + 1 /\ edited' = TRUE
  /\ UNCHANGED <<project, pc, loops, output, runtime>>

------------------------------------------------------------------------------
(* The node: parseSolanaProjectManifest, then loadIdls for each data source *)

HandlerKinds == {"solana/BlockHandler", "solana/TransactionHandler",
                 "solana/InstructionHandler", "solana/LogHandler"}

\* SolanaMapping: a handler of an unknown kind is an error; InstructionFilter:
\* a discriminator needs a program.
ValidRuntime(d) ==
  \A h \in ToSet(d.handlers) :
    /\ h.kind \in HandlerKinds
    /\ h.kind = "solana/InstructionHandler" /\ h.filter # None =>
         (h.filter.discriminator # None => h.filter.programId # None)

\* CustomDataSourceBase: there is a processor.
ValidCustom(d) == d.processor

\* The class is chosen by kind: 'solana/Runtime', or else a custom data source.
ValidDataSource(d) == IF d.kind = "solana/Runtime" THEN ValidRuntime(d) ELSE ValidCustom(d)

\* DeploymentV1_0_0: chainId, or genesisHash if there is none.
ChainId == IF project.chainId # None THEN project.chainId ELSE project.genesisHash

SupportedVersion == project.specVersion = "1.0.0"

\* SolanaRunnerNodeImpl
RunnerIsSolana == project.runner = "@subql/node-solana"

\* ProjectNetworkDeploymentV1_0_0
HasChainId == ChainId # None

ValidManifest ==
  /\ SupportedVersion /\ RunnerIsSolana /\ HasChainId
  /\ \A d \in ToSet(DataSources) : ValidDataSource(d)

IsRuntimeDs(d) == d.kind = "solana/Runtime"

\* Which of several files for one program is kept depends on the order in
\* which the parallel reads of onProjectChange end.
FilesOf(n) == {a.file : a \in {b \in UNION {ToSet(d.assets) : d \in ToSet(DataSources)} : b.name = n}}

StartNode ==
  /\ node = "off" /\ pc \in {"idle", "done", "failed"} /\ ValidManifest
  /\ \E from \in [Names -> Files] :
       /\ \A n \in Names : from[n] \in FilesOf(n) /\ files[from[n]] # None
       /\ idls' = [n \in Names |-> files[from[n]]]
  /\ node' = "running"
  /\ UNCHANGED <<project, files, edits, pc, loops, output, edited>>

\* A node whose manifest is not valid, or that can not load an IDL, does not
\* start; one that runs is stopped.
StopNode ==
  /\ node = "running"
  /\ node' = "off" /\ idls' = [n \in Names |-> None]
  /\ UNCHANGED <<project, files, edits, pc, loops, output, edited>>

\* parseDiscriminator: where the bytes of a discriminator come from; what is
\* taken for base58 and is none, fails.
ParseDiscriminator(name, program) ==
  IF name \in HexNotation THEN "hex"
  ELSE IF program \notin Names \/ idls[program] = None THEN "error"
  ELSE IF FindInstructionDiscriminatorByName(idls[program], name) THEN "idl"
  ELSE "base58"

Next ==
  \/ GenerateIDLInterfaces \/ ValidateHandler \/ AssertNoIssues
  \/ ParseIdl \/ Render \/ FixTypeImports \/ RenderTemplate \/ Interrupted
  \/ \E f \in Files : EditFile(f)
  \/ StartNode \/ StopNode

Spec == Init /\ [][Next]_vars

------------------------------------------------------------------------------
(* Properties *)

TypeOK ==
  /\ files \in [Files -> Idls \cup {None}] /\ edits \in 0..MaxEdits /\ edited \in BOOLEAN
  /\ pc \in {"idle", "validate", "parse", "render", "fix", "template", "done", "failed"}
  /\ ds \in 1..(Len(DataSources) + 1) /\ handler \in Nat /\ issues \in BOOLEAN
  /\ asset \in 1..(Len(AllAssets) + 1) /\ idl \in Idls \cup {None}
  /\ interfaces \in [Names -> [idl : Idls \cup {None}, fixed : BOOLEAN]]
  /\ inputs \in [Names -> Idls \cup {None}] /\ idls \in [Names -> Idls \cup {None}]
  /\ node \in {"off", "running"}

\* The handlers of a runtime data source before the first one without filter.
BeforeFilterless(d) ==
  {d.handlers[i] : i \in {j \in DOMAIN d.handlers : \A k \in 1..j : d.handlers[k].filter # None}}

\* Once code generation has succeeded and no file was changed since, the node,
\* which validates another way and reads the files again, takes the bytes of
\* the discriminators from the IDLs instead of failing or decoding a name as
\* base58: for handlers not behind one without filter, and as long as the data
\* sources name the same file for a program.
ResolvesAtRuntime ==
  node = "running" /\ pc = "done" /\ ~edited =>
    \A d \in ToSet(DataSources) : IsRuntimeDs(d) =>
      \A h \in BeforeFilterless(d) :
        /\ h.kind = "solana/InstructionHandler" /\ h.filter.discriminator # None
        /\ \A f, g \in FilesOf(h.filter.programId) : f = g
        => ParseDiscriminator(h.filter.discriminator, h.filter.programId) = "idl"

\* The types that handlers are compiled against are of the IDL that the node
\* decodes with, although code generation and the node read the files at
\* different times, one keeping the last data source's file for a program and
\* the other whichever is read last: once code generation has succeeded,
\* as long as no file was changed since and the data sources name one file.
TypesFitRuntime ==
  node = "running" /\ pc = "done" /\ ~edited =>
    \A n \in Names : (\A f, g \in FilesOf(n) : f = g) => inputs[n] = idls[n]

\* After a run that succeeds the two outputs for a program fit together,
\* whatever happened to the files meanwhile and wherever earlier runs ended,
\* and nothing is left of an older file or of another data source's.
OutputCurrent ==
  pc = "done" =>
    \A n \in Names :
      /\ interfaces[n] = Interface(inputs[n], TRUE) /\ inputs[n] # None
      /\ ~edited =>
           LET last == CHOOSE d \in DOMAIN DataSources :
                         /\ FileRef(DataSources[d], n) # {}
                         /\ \A c \in (d + 1)..Len(DataSources) : FileRef(DataSources[c], n) = {}
           IN  inputs[n] \in {files[f] : f \in FileRef(DataSources[last], n)}
==============================================================================
