# A TLA+ model of subql-solana

subql-solana is the Solana flavour of the SubQuery indexer.  It fetches blocks
from an RPC endpoint or from a *dictionary* (a service that pre-filters blocks),
hands the parts of each block that a project's handlers ask for to user code, and
stores what they return.  It may index blocks that are only *confirmed*; the
unfinalized blocks service then has to notice when such a block is abandoned and
name the block to rewind to.

Paths below are relative to `src/packages/node/src/` unless they say otherwise.
`@subql/node-core` is a dependency outside the repository; where its behaviour
matters it is modelled from how this code uses it and marked external.

## Inventory

| Component | State | Operations | Interacts with |
|---|---|---|---|
| Unfinalized blocks service (`indexer/unfinalizedBlocks.service.ts`) | records of unfinalized headers, finalized header, last checked height; two metadata entries in the database | `init`, `processUnfinalizedBlocks`, `registerFinalizedBlock`, `reset*` | called by the indexer manager per block, by the fetch service's finality timer, by `reindex`; asks the RPC client for headers |
| RPC client (`solana/api.solana.ts`) | endpoint, genesis hash, options | `getHeaderByHeight`, `getFinalizedBlockHeader`, `getBestBlockHeight`, `fetchBlocks`, `getAccountInfo` | read by everything; errors classified as "skipped slot" or failure |
| API service and connections (`solana/api.service.solana.ts`, `api.connection.ts`) | the pool of connections and the network they agree on | `init`, `fetchBlocks`, `handleError` | node-core's connection pool acts on the kind of an error |
| Blockchain service (`blockchain.service.ts`) | none of its own | adapter between node-core and the RPC client, dynamic data sources | |
| Block transformation (`solana/block.solana.ts`) | none | `transformBlock`, `wrapLogs`, `solanaBlockToHeader` | RPC client, dictionary |
| Filters (`solana/utils.solana.ts`) | none | one predicate per handler kind | indexer manager |
| Indexer manager (`indexer/indexer.manager.ts`) | none of its own | `indexBlock`: walks a block and calls handlers in order | filters, decoder, sandbox |
| Decoder (`solana/decoder.ts`, `utils/decorators.ts`) | cache of IDLs, memoised discriminators | `loadIdls`, `decodeData`, `decodeLog`, `parseDiscriminator` | fetches IDLs on demand while blocks are handled |
| Dictionary (`indexer/dictionary/`) | endpoints | `buildDictionaryV2QueryEntry`, `getData`, `convertResponseBlocks` | the fetch service's paging; its blocks bypass the RPC client |
| Worker (`indexer/worker/`) | block to slot map | `fetchChainBlock`, `toBlockResponse` | worker threads |
| Manifest (`packages/common-solana`, `project/`; `configure/SubqueryProject.ts`) | none | `parseSolanaProjectManifest`, `validate`, `isRuntimeDs`, `isCustomDs` | start of the node |
| Code generation (`packages/common-solana`, `codegen/`) | the generated files | `validateDiscriminators`, `generateIDLInterfaces` | called by the developer's tools; reads the IDL files the decoder reads later |

### What is hard in it

* Every `await` lets other code run: the chain moves, the finality timer calls
  `registerFinalizedBlock`, the process may be killed.  State read before an
  await is used after it (`hasForked`, then `deleteFinalizedBlock`).
* Slots may have no block.  "The parent is at height - 1" is false, a height may
  exist on one fork and not on the other, and `parentSlot + 1` need not be the
  slot of the block.
* Records live in memory and in two metadata entries that are written at
  different moments; a restart reads whatever combination the crash left.
* Blocks are fetched ahead of being processed, so the block at hand may be
  orphaned already.
* An endpoint is load balanced: two requests of one call go to two nodes, which
  may be behind, refuse, or not answer; "no block" may mean "not yet".
* The same IDL files are read by code generation, twice, and by the node, and
  validated by two independent rules.

### What makes a component correct

* Unfinalized blocks: an indexed block is final or still on record; records
  are dropped only when final; a fork that is found leads to a rewind, to a final
  block, that leaves nothing of the abandoned branch; orphaned data goes away.
* Dictionary: the query selects every item a handler would accept; the paging
  visits every block, once, and moves on.
* RPC calls: the pool is on one chain; what is called final is final; a lagging
  node is not taken for a skipped slot; a batch is whole or fails; calls end.
* Manifest and code generation: discriminators that were validated resolve in the
  node, the generated types are of the IDL it decodes with, and the outputs fit
  together.
* Log wrapping: every log line is attributed to the program that is running.
* Decoder: an IDL is loaded when the handler needs it, from whichever source
  comes first, and a cached result belongs to the program it was asked for.

## Modules

* `SolanaChain` - the block tree (constants), the confirmed tip `head` and the
  finalized `root` (variables), and the header calls of the RPC client.  A header
  is identified with its block; `Slot[b]` is `blockHeight`, `Parent[b]` stands for
  `parentHash`, and equality of blocks for equality of `blockHash`.  Blocks
  start at slot 1: slot 0 is the genesis block, which nobody indexes, and `0` is
  treated like "absent" by the code.
* `UnfinalizedBlocks` - `UnfinalizedBlocksService` over that chain.  One action
  is the code between two awaits; `pc` names the await.  `unfinalizedBlocks`,
  `finalizedHeader`, `lastChecked` are the fields, `savedBlocks`, `savedHeight`
  the metadata, `header`, `cursor`, `verifiable`, `checking`, `best`, `rewindTo`
  the local variables of the running call.  `indexed`, `processed` and `queue`
  are what the rest of the indexer keeps.  The list is kept as a set, since it is
  always ascending: `Sequential` is what keeps it so.  A write of metadata is
  durable when it is issued; a crash before that is a crash one step earlier.
  `Rewind` is node-core's `reindex`, one database transaction.
  Five named steps are the ones that can do harm: `Overtaken` (finality passes over
  an orphaned record in the middle of a call), `StaleBlock` (a block that was orphaned
  in the queue is processed), `StaleFork` (the records are searched against such a
  block), `ErasedUnchecked` (`init` erases a record that was not compared) and
  `NoTarget` (a fork is found, but no height was ever checked).  `HarmlessSpec` is the
  specification in any environment without these five, `FreshForkSpec` the one
  without `StaleFork` only.
  Definitions commented "Faulty variant" are used by no action: replacing a
  definition by its variant must violate a property, which shows that the
  property can fail.
* `MCUnfinalizedBlocks` - the block trees of the runs.
* `UnfinalizedBlocksProofs` - what holds in every environment, how a call can fail,
  what holds without the harmful steps, and the refinement of `ReorgSafeIndex`.
* `ReorgSafeIndex` - the abstract specification of a reorganisation-safe index:
  only the chain and the blocks whose data is stored.  Data is added on top of the
  stored branch, and removed only by going back to a final block.
  `UnfinalizedBlocks` maps its `indexed` to `store`; the records, metadata, awaits
  and rewinds of the service are how it keeps that promise
  (`ImplementsReorgSafeIndex`).
* `ApiService` - `SolanaApiService.init` (endpoints connect concurrently: `link`,
  `networkMeta`, `service`) and the calls of `SolanaApi`.  A call is the slots it
  asks for (`wanted`), the requests not answered (`waiting`), the results so far
  (`got`) and the attempt of `backoffRetry`.  Each request is answered by any node,
  from what that node has seen of the chain (`view`), or is refused, or times out;
  `outcome` is what the caller and, through `handleError`, the pool get.  The text
  of errors is abstracted to the cases the two handlers tell apart; any error that
  is neither stands for the rest (`HTTP_500`).  `transformBlock` throws for the blocks
  in `Unparsable`.  `StrayAnswer` is the answer for the finalized slot by a node that
  follows an abandoned branch.  `SolanaChain` takes the finalized header from the final
  branch (`FinalizedHeaders`), so `UnfinalizedBlocks` relies on `FinalizedAnswer` and on
  that answer not being given.
  `createConnections`, `backoffRetry` and the nodes are external.
* `MCApiService`, `ApiServiceProofs` - a forked chain and endpoints for TLC, its
  proofs.
* `DictionaryScan` - how the dictionary's answers (`getData`,
  `convertResponseBlocks`) and plain batches move the cursor of the fetch loop
  over the finalized chain, and what the handlers are given; with worker threads,
  which re-fetch a block by its height, and without (`workers`, chosen at the
  start, like the set `matching` of blocks that the query selects).
* `MCDictionaryScan`, `DictionaryScanProofs` - its chain for TLC, its proofs.
* `Filters` - the filter processors of `solana/utils.solana.ts`,
  `parseDiscriminator`, and the validation of handler filters in
  `packages/common-solana` (which does not look into a block filter).  What is neither
  hex, nor a name in the IDL, nor base58 makes `parseDiscriminator` throw.  Operators
  only.
* `DictionaryQuery` - a project is loaded, may create dynamic data sources from
  templates (`updateDynamicDs` merges arguments into filters), and the dictionary
  query is rebuilt from the handlers of all data sources each time.
  An item (transaction, instruction, log) is what a handler is called with; a
  discriminator is its bytes in each of the three notations it can be read in.
* `MCDictionaryQuery`, `DictionaryQueryProofs` - handlers, templates, arguments and
  items for TLC, its proofs.
* `IndexerManager` - `indexBlockData` walks a block (`item`, `ds` are its loop
  variables) and offers each part to each data source: filter, then `loadIdls`,
  then decoding and the handler.  A file is read at an await (`FileRead`), by the
  parallel calls of `onProjectChange` or by `prepareFilteredData`; `memo` is the
  cache of `Memoize`, `decoded` the `pendingDecode` of the items.  A data source
  stands for one of its handlers.  Of a filter only the program and the discriminator
  matter here, so a filter may throw also where the checks of failure or accounts would
  have ended it first.  Projects are upgraded between blocks, and
  handlers create data sources.
* `MCIndexerManager`, `IndexerManagerProofs` - a block and histories of projects for
  TLC, its proofs.
* `LogStack` - `wrapLogs` next to the runtime that writes the lines: one step is
  one line, written by the program that really runs (`running`) and attributed
  with `instructionPath`.  The runtime, with its limit on the log, is external.
* `LogStackProofs` - its proofs.
* `ProjectBuild` - code generation await by await (`pc`, the loop variables `ds`,
  `handler`, `asset`, the two outputs), the developer who changes files or stops
  the command, and the node that validates the manifest and loads the IDLs.  An IDL
  is a list of instructions, each with a name and the kind of its discriminator; the
  first one with a name, or its camel case, counts.
* `MCProjectBuild`, `ProjectBuildProofs` - manifests and IDLs for TLC, its proofs.
* `ListTheorems` - facts about numbers and lists that several proofs use: induction,
  and what `FlattenSeq` computes.

External behaviour that these modules rely on, from the way the code uses it:
node-core continues behind `lastBufferedHeight`, sets it to
the end of the request when an answer has no blocks, ignores the dictionary when
the query is empty, goes on to the next height after `BlockUnavailableError`, and
hands blocks to workers as heights (`blockchain.service.ts` 59-65); the server
answers with the first blocks of the range that match some condition, resolving
account indices as Solana does; class-validator rejects undeclared fields in
manifests and leaves them in place for dynamic data sources; node-core awaits
`onProjectChange` before it indexes, filters before it calls `prepareFilteredData`,
and adds a data source that a handler creates to the list being looped over;
`createConnections` returns when the first endpoint is connected, compares later
ones with it and rejects when none is left, and `backoffRetry` retries every error
a fixed number of times; `@solana/kit` asks for commitment "confirmed" when none
is given.

The environment of the unfinalized blocks service is a parameter:

| Constant | Meaning |
|---|---|
| `AsyncFinality` | `registerFinalizedBlock` may run while a call is suspended (it does in the program) |
| `MaxQueue` | blocks fetched ahead; 0: a block is fetched when it is processed |
| `Kills` | the process may die at every await; this also stands for an RPC call that throws |
| `Supervised` | a process that ended is started again |
| `LongTermSlots`, `TreatLongTermStorageSkipAsSkipped` | slots for which the endpoint answers with the ambiguous long-term-storage error, and the option that says how to read it |
| `Threshold` | `UNFINALIZED_THRESHOLD` (200 in the code) |

## Runs

Passing:

* `harmless` - finality during calls, one block fetched ahead, kills at every await and
  restarts, but none of the five harmful steps; tree `Twin`: one block has two children
  and the final branch skips slots of the others.  An indexed block is final or on
  record (`Tracked`), a rewind goes to a final block (`TargetFinal`) and leaves nothing
  of an abandoned branch (`RewindSafe`), only final records are dropped
  (`DroppedAreFinal`), and every step is one of the abstract index
  (`ImplementsReorgSafeIndex`).  Each of the five steps is needed in the list: with any
  one of them allowed one of these properties fails.
* `sequential` - no disturbance, tree `Wide`: three branches, slots 1 to 6, slot 5
  skipped, and every slot of a branch has a block on the others.  A fork yields a
  target (`ForkYieldsRewind`), no call ends in an uncaught error (`NoExit`), orphaned
  data is removed (`ForkResolved`) and the indexer reaches the tip (`CatchesUp`).
* `faults` - everything at once, harmful steps included, tree `Twin`: finality during
  calls, one block fetched ahead, kills, restarts, an endpoint that has lost a slot.
  What the service can rely on in spite of it: records form one branch, in order
  (`ListChained`, `Sequential`); the last checked height is final (`LastCheckedFinal`);
  a call fails only in one of three ways (`OnlyKnownExits`: the endpoint lost the slot,
  the final branch skipped the slot of the record that `hasForked` verifies, or the
  search for a parent passed the oldest slot).
* `dictionary_scan` - a chain of nine slots, three of them skipped, every query,
  both modes, any mixture of answers and batches: no selected block is passed over
  (`NoneLost`), a block whose slot is `parentSlot + 1` is delivered once
  (`NoneRepeated`), and the scan gets past every slot if all selected blocks are of
  that kind (`MovesOn`).
* `query_covers` - projects of one or two handlers plus dynamic data sources: the
  query selects every item that some handler would be called with (`Covered`), unless
  its filter is `{}`, and its construction does not fail on filters that validation
  accepted (`ValidatedBeforeQuery`).
* `block_walk` - five histories of projects (an upgrade with another IDL, data
  sources that disagree about an IDL, IDLs only in templates, a missing file, a
  program without IDL) over a block with nested calls in several groups: handlers
  are called in chain order, each once, and no part is left out (`InChainOrder`,
  `NoneLeftOut`); a filter finds the IDL that the project brings
  (`FilterFindsIdl`), a handler gets data decoded with an IDL of the first project that
  brought one for the program (`DecodedWithFirst`), and memoised results are what the
  decoder would return now (`CachesCurrent`).
* `log_attribution` - two programs, nested, failing, with a log that may be
  truncated: a message of a complete log is attributed to its author.
* `rpc_calls` - three endpoints, one of another network; two nodes that lag behind a
  forked chain with a slot that only one branch skips, a slot they no longer keep and
  a block that can not be transformed: `OneChain`, `FinalizedAnswer` (the header
  returned as finalized is final, although the two requests go to different nodes,
  unless the second one strays), `NoFalseSkip` (a slot reported as skipped is passed
  over by a branch), `BatchComplete`, `CauseRecognised`, and every call ends
  (`NothingHangs`).
* `project_build` - ten manifests (several programs, disagreeing data sources,
  discriminators without a file, without a program or in hex, and what validation
  has to reject), two files, four IDLs, one with an instruction under both
  spellings of its name:
  validated discriminators are resolved by the node (`ResolvesAtRuntime`), the generated
  types are of the IDL it decodes with (`TypesFitRuntime`), the outputs fit together
  and are current (`OutputCurrent`).

Violations.  Each drops a condition of a passing run and shows that it is needed,
against what a comment, a message or a test says:

* `finality_during_call` - `deleteFinalizedBlock` drops a record that
  `hasForked` did not look at.
* `orphan_in_skipped_slot` - `hasForked` never meets the height it looks for.
* `dictionary_stalls` - `lastBufferedHeight` of a block behind skipped slots is
  `parentSlot + 1`, so the next request starts at or before that block; if it is the
  only one selected in the range, the answer repeats for ever.  The trace ends in
  stuttering because fetching the same block again changes no variable.

Also met while modelling, not run:

* with restarts, `DroppedAreFinal` fails: `init` empties the whole record whenever it
  found no fork (line 111; `ErasedUnchecked`), the blocks above the finalized height
  included, which it could not validate ("Validate any previously unfinalized blocks",
  line 100);
* a fork that is found before a last checked height is stored, by `init` after a restart
  or by the first call when finality is registered during it, is not rewound (line 353;
  `NoTarget`), although `init` logs "rolling back to last finalized block" (line 105);
  `ForkYieldsRewind` fails then;
* an IDL that is loaded is not replaced when an upgrade brings another file for its
  program (`solana/decoder.ts` 173), so handlers get data decoded with the superseded
  one, or null where only the new one knows the instruction, against "any IDLs provided
  by the project" (`packages/types/src/solana.ts` 265); `DecodedWithFirst` says which
  IDL it is;
* `getHeaderByHeight` asks for a confirmed block (`api.solana.ts` 198), and a node that
  still follows an abandoned branch may answer with its block for the finalized slot
  (`StrayAnswer`), where line 136 expects at worst that it "doesn't yet have this block";
* `Covered` leaves out handlers whose filter is `{}`: a template handler without
  filter that is instantiated without arguments gets it (`blockchain.service.ts` 122),
  and for it `buildDictionaryV2QueryEntry` neither gives up ("No filters, cant use
  dictionary", `solanaDictionaryV2.ts` 152) nor adds a condition, so its blocks are
  not fetched;
* only `fetchBlock` passes its errors through `SolanaApi.handleError`; a rate limit or
  timeout of the other calls reaches the pool as an unspecific error, because
  `getFinalizedBlockHeight` and others wrap it in a text of their own, and
  `getHeaderByHeight` throws the 429 as it is; `CauseRecognised` therefore speaks
  of batches;
* `getAccountInfo` ignores the configured timeout (`api.solana.ts` 268), and
  `SolanaEndpointConfig` does not declare the documented `requestTimeout`
  (`packages/types/src/project.ts` 282) but `batchSize`;
* `validateDiscriminators` rejects every discriminator that is not the name of an
  instruction, although `packages/types/src/solana.ts` 213 allows hex and base58; it
  stops looking at a data source at its first handler without filter (`codegen.ts`
  25-27), so later handlers are not validated; and for a program that several data
  sources name, code generation uses the file of the last one, the node the one that
  was read last at start-up;
* an instruction whose name `isHex` accepts would be validated by name and read as
  bytes (`decoder.ts` 197); `ProjectConstants` assumes there is none;
* a numeric discriminator is cut to one byte (`codegen/idl.ts` 64, with a comment to
  that effect);
* with a block fetched ahead, a block that was orphaned while queued is indexed once
  finality has passed its slot (line 164; `StaleBlock`, with which `Tracked` and
  `ImplementsReorgSafeIndex` fail), and the target of a rewind may be an orphaned block
  (line 337; `StaleFork`, with which `TargetFinal` fails); nothing in the repository
  claims otherwise;
* with workers a dictionary block is fetched again by its guessed height
  (`blockchain.service.ts` 59-65, `indexer/worker/worker.service.ts` 24-25), which
  may be a skipped slot; `NoneLost` therefore claims such a block only for
  indexing without workers;
* of two data sources that disagree about the IDL of a program both use the file that
  was read last at start-up;
* a line that begins with "Program" and has an unknown third word makes the
  whole block fail (`solana/block.solana.ts` 145);
* `filterInstructionsProcessor` resolves `instruction.accounts` against the
  message's own keys (`solana/utils.solana.ts` 100), so accounts loaded from a
  lookup table never match, against `packages/types/src/solana.ts` 222;
* `InstructionFilter` declares `includeFalied` (`packages/common-solana`,
  `project/models.ts` 79), so a manifest with the documented `includeFailed`
  (`packages/types/src/solana.ts` 245) is rejected; arguments of a dynamic data
  source can still set it.

Bounds.  Six slots and two or three branches are enough for every control path:
a record below, at and above the finalized header, a fork found by link, by
backfill, by comparison at the finalized height, by lookup and by walk, matches
at the checked header, at its parent and in the fallback.  `Threshold = 1` makes
both the lookup and the walk happen on such a tree (5 in
`orphan_in_skipped_slot`, to show the walk).  One block fetched ahead suffices
for a stale one.  The chain of `dictionary_scan` has blocks with and without a
skipped slot before them, next to each other and at both ends of a request;
`Limit` 2 and `QuerySize` 3 make answers cut off, empty and complete.
`MaxHandlers` 3 in `DictionaryQuery` allows a project of two handlers and a data
source, or one and two, which is enough since a handler can disturb another only
by ending the construction of the query.
`IndexerManager` handles two blocks (`MaxBlocks`), so that one comes after an
upgrade or after data sources were created, and creates two (`MaxDynamic`), so
that one appears while the loop is at another.  `LogStack` has six lines and
three levels: a call that fails, one beside it, and messages between.
`ApiService` uses two branches, which share a skipped slot and a filled one and differ
in another, with one block that can not be transformed, batches of two (so
that one answer can arrive before, after or instead of the other) and two attempts;
two nodes suffice because a request is answered by one of them, up to date or not.
`ProjectBuild` allows two changes of a file (`MaxEdits`): one between two reads of a
run and one before the next run.  The proofs do not depend on these bounds.

Fairness.  `FairSpec` assumes that a suspended call is resumed (the event loop),
that the next block is processed when there is one (the fetch loop) and that the
finality timer's answers keep arriving.  It assumes nothing about the chain.
That of `DictionaryScan` assumes only that the fetch loop goes on asking the
dictionary while there is something to ask for: not that the dictionary ever
fails, nor that the chain grows.
That of `ApiService` assumes that a connection attempt ends and that a pending
request times out: each is sent with an `AbortSignal.timeout`, the one for the genesis
hash included.  It does not assume that a node answers or catches up.
`CHECK_DEADLOCK FALSE`: the trees are finite, so the chain comes to rest and the
indexer, having caught up, waits; an indexer that exited without a supervisor
stays down.

## Proofs

All theorems hold for every block tree that satisfies the assumptions of
`SolanaChain` (parents are in earlier slots; a branch contains the branches of
its members and is ordered by slot) and every value of the other constants.

`UnfinalizedBlocksProofs`, every environment:
* `TypeCorrect`.  `TypeOK` alone is not inductive; `Control` adds which local
  variable holds a block at which await.
* `RecordsAreOneBranch` (`ListChained`), by `ChainedPush`: a header is recorded
  only if its parent is the last record.
* `CheckedHeightIsFinal` (`LastCheckedFinal`): the height only ever comes from
  the finalized header, and what is final stays final.
* `RecordedInOrder` (`Sequential`), from `OrderInv`: during a call the records
  are not above the block in process, during a backfill below the cursor, and
  what is queued is above both.

* `ExitsAreKnown` (`OnlyKnownExits`): every way in which a call can fail.  `ExitInv`
  says what each request is about to ask for: a slot the confirmed branch has reached,
  above 0 in a backfill, and below the slot of the record to verify only when the final
  branch has no block there.  The first alternative is the endpoint's fault, the other
  two are the code's: `orphan_in_skipped_slot` shows the second; the third happens when
  finality is registered during a call, so that records become verifiable that are above
  the header in which the fork was found, and the search, stepping down in both, passes
  the header that would have matched.

There too, under `FreshForkSpec`, that is with kills at every await, finality during
calls and any number of blocks fetched ahead: `TargetIsFinal` (`TargetFinal`).
`MatchIsFinal` shows that a record which matches a block on one branch with the
finalized header is final, `FallbackIsFinal` that the header at the checked height is.

There too, under `HarmlessSpec`, in any environment: `IndexedIsTracked`, `RewindIsSafe`,
`DropsOnlyFinal`.  Nothing is assumed about when finality is registered, how far blocks
are fetched ahead or where the process dies; only the five steps themselves are left
out, and a violation run or a note above shows for each what it does.  The inductive
invariant `SafeInv` says what each phase of a call has established:
* `Recorded` - an indexed block is final or in the saved list, which the list in memory
  covers except between a deletion and its save;
* `CheckedFinal` - a record not above a checked height, in memory or saved, is final,
  so the fallback target leaves no orphan behind;
* `NotBehind` - the same for blocks still to be recorded, when a restarted process
  registers an older finalized header than the one checked last;
* `HeaderTracked` - while no fork is found the block in process is final or recorded;
* `Verifying` - what `hasForked` has compared: one equal hash vouches for everything
  below it because the records are one branch;
* `Searching`, `GoodTarget` - the search looks through records that finality has reached,
  and everything up to its result is on one branch (`FinalTarget`).

There too, under `HarmlessSpec`: `ServiceImplementsIndex`
(`ImplementsReorgSafeIndex`) - the initial states map to initial states and every
step to `Index`, `RewindToFinal`, a step of the chain or a stutter - and
`StoreIsOneBranch`, which the abstract specification implies.  `SafeInv` is not
enough: `StoreInv` adds that what is stored is not above the last processed height, that
stored blocks no longer on record are below the block in process and below what is
queued, and that when a call ends without fork everything stored is below its block;
hence a block is indexed only on top of the stored branch.

`ApiServiceProofs`, for every set of endpoints, nodes and lists of heights:
`CallsTypeCorrect`, `PoolIsOneChain` (`OneChain`: connections agree with
`networkMeta`, which the first one sets), `BatchIsComplete`, `CauseIsRecognised`
(`Progress`: what was received so far fits its request).  For every block tree:
`SkipsAreReal` (`NoFalseSkip`), because a node that reports a slot as skipped has seen a
branch past it (`PassedOver`); and `FinalizedHeaderIsFinal` (`FinalizedAnswer`): by
`ViewInv` the root a node knows is an ancestor of the cluster's root, and stays one, and a
confirmed block at its slot from a node that does not stray is that root
(`StraightAnswer`, since a branch has one block per slot).

`ProjectBuildProofs`, for any manifests, files and IDLs and any number of changes and
runs: `TypesAreOfRuntime` (`TypesFitRuntime`), `ValidatedResolves` (`ResolvesAtRuntime`).
`Validated` says what the two loops have established at each point as long as no file changed;
`Loaded` where the IDLs of a running node come from.  `BuildTypeCorrect` and
`OutputIsCurrent` (`OutputCurrent`) rest on `AssetFacts`: the Map that
`generateIDLInterfaces` goes through has each name once, with the file of the last data
source that names it (`MapFacts`, by induction over the entries, and `FlattenLast`).  So
no asset overwrites the output of another (`OthersWritten`), and `GenerateInv` can say that
the outputs of all assets passed are those of this run.

`DictionaryScanProofs`, for every chain (parents are earlier, and no block lies
between a block and its parent), query, limit and batch size: `ScanTypeCorrect`,
`NothingPassedOver` (`NoneLost`), `NothingDeliveredAgain` (`NoneRepeated`).  Each
property is inductive together with `TypeOK`; what the steps rest on is
`GuessIsLow` (a guessed height is at most the slot), `AnswerStep` (an answer holds
every selected block up to its last) and `Processed` (what a worker makes of a
block).  A cursor set back by a wrong guess stops right behind the parent of the
last block, hence behind everything delivered earlier.

`LogStackProofs`, for any programs, nesting and length: `LogTypeCorrect` and
`LogsAttributed` (`Attributed`).  The invariant is `StacksAgree`: until the log is
truncated the stack of `wrapLogs` is that of the runtime.

`DictionaryQueryProofs`, for any handlers, templates, arguments and chain data:
`QueryTypeCorrect`, `QueryCovers` (`Covered`), `QueryValidated`.  The invariant is that the
query in force is what `buildDictionaryV2QueryEntry` makes of the handlers in force and
that every handler passed validation.  `Covered` then follows kind by kind: each
condition of a filter is carried by one of the query, which compares less.  The assumptions
are that handlers, arguments and items have the form the types declare, and that a
transaction is signed.

`IndexerManagerProofs`, for any block, history of projects and files and any number of
data sources created on the way: `TypeCorrect`, `FiltersFindIdls` (`FilterFindsIdl`),
`DecodedWithIdl` (`DecodedWithFirst`), `CachesStayCurrent` (`CachesCurrent`),
`CalledInChainOrder` (`InChainOrder`), `AllHandled` (`NoneLeftOut`).  The invariant `Inv`:
* `Loading` - while IDLs are read nothing is decoded, and once indexing has begun all
  IDLs of the project are there, so that `loadIdls` in the middle of a block has nothing
  to wait for; and an IDL is only read while nothing is memoised for its program, which
  is why `Memo` and `DecodedNow` (cached results are what the decoder would return now)
  survive a read;
* `Kept`, `Origin`, `Missing`, `Given` - IDLs that earlier projects brought stay, an IDL
  comes from the first project that brought one, and what a handler was given had been
  decoded;
* `Order`, `Behind` - the calls are in the order of the walk, and what lies before its
  place has been handled.  That the walk is the order of the chain is `BlockFacts`:
  `IndexBlockData` holds every part of the block once, each behind its predecessors.

Induction.  The library's induction theorems take an operator as parameter, which the
installed provers can not instantiate.  `ListTheorems` states induction for a *set* of
numbers (`Induction`, from the least element of its complement); a recursive function is
first shown to exist (`FlattenDefined`, `MapDefined`: one up to n is extended to n + 1),
so that the equation that defines it can be used.

Only model-checked: `NothingHangs`, `MovesOn`, `ForkResolved` and `CatchesUp`, because
fairness and `ENABLED` are beyond the prover; `ForkYieldsRewind` and `NoExit`, which hold
in the environment and on the tree of `sequential` and not in general (`NoTarget`,
`orphan_in_skipped_slot`).  Every other invariant, action
property and refinement of a passing run is proved.

## Not modelled

* Dictionary service, configuration and wiring: start-up only, no state of their own.
* Choosing an endpoint for a request, failing over and backing off: node-core's pool;
  `ApiService` ends at the kind of error it is given.
* Endpoint options, schema, parent project: classes of `@subql/common`.
* Type declarations: no behaviour at run time.
* The block filter (modulo, timestamp): it works on heights that node-core picks.
* Custom data sources and their processors: code outside the repository.
* `findFinalizedUsingPOI`: read-only, not called here.

## Plan

Next, in this order:

1. The step from safety to progress that can be proved without fairness: in
   `UnfinalizedBlocks` and `ApiService`, a bound that every step of a running call
   lowers, so that only the scheduler stands between a call and its end.
2. `DictionaryScan` joined with `UnfinalizedBlocks` at the finalized height, where
   the fetch loop changes from the dictionary to plain batches.

A question that one of the present runs can answer is added to that run.
