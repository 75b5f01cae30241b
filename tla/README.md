# Verification of meking

meking keeps, per Zone, a corpus of documents and messages, formal Knowledge
extracted from it, a Community Structure and Reports derived from the Knowledge,
and Epochs that bind one consistent set of them for queries. One process owns one
SQLite database. Inside it the components talk through a durable event Journal:
every step of the pipeline is a consumer that handles an event, commits its result
together with the next event, and moves its position afterwards.

The TLA+ modules in this directory model that core. Paths below are relative to `src/`.

## The system

| Component | State | Operations | Talks to |
|---|---|---|---|
| Transaction scope (`transaction`) | the write mutex, one open `BEGIN IMMEDIATE` | `WithTx`, `Current` | everything that writes |
| Journal (`journal`) | events, numbered per EventType and per Stream; consumer positions | `Publish`, `Append`, `Advance`, `PendingZone`, `PendingEvents`, reads | every component |
| Dispatcher (`journal/dispatcher.go`) | none but its goroutines | one polling loop per Consumer, causal following | Journal, Consumers |
| Action runtime (`internal/actionruntime`) | requests, active and failed boundaries, wake channel - all in memory | `Start`, `Retry`, `Pending`, `Run` | Journal, handler of the Action |
| Control plane (`controlplane`) | Policies with revisions; wakeup channel | publish a Policy, automatic evaluation, manual invocation | Action runtimes, Journal publisher |
| Corpus (`corpus`) | content files, Documents, Texts, TextUnits, Corpora, Messages | upload, convert, chunk, assemble, append | Journal, semantic vectors |
| Knowledge (`knowledge`) | Versions of Entities, Relations, Claims; Sources and Evidence; Candidates; conflicts | submit, resolve, delete, extract, index, merge | Corpus evidence, Journal |
| Community (`community`) | Structures, StructureState, Reports, Report publications | derive, generate | Knowledge, Epoch, vectors |
| Epoch (`epoch`) | immutable Epochs, the Current selection | publish, read | Knowledge, Corpus, Community readiness |
| Memory (`memory`) | Observations and activation states | add, search, submit | Messages, Knowledge |
| Zone (`zone`) | the tree of Zones | create, resolve, merge into the parent | Corpus, Knowledge |
| Semantic (`semantic`) | vector Namespaces and a cache | add, search | model provider |
| Query, MCP, HTTP, project, analysis, agent | requests, files, a child process | read one Epoch; adapters | the services above |

Seven Actions run on the Action runtime: convert a document, create TextUnits,
extract Knowledge, index Entity vectors, derive the Community Structure, publish an
Epoch (two EventTypes), generate Reports. The Dispatcher serves one Consumer, the
TextUnit vectors. `assembly/process_runtime.go` runs all of them in one error group:
an error other than `ErrEventIncomplete` ends the process.

### What is hard, and what makes each part correct

* **Numbering under concurrency.** Sequences come from `MAX + 1` inside the writer's
  transaction. Correct when committed numbers have no gap, no repeat and never
  appear behind a reader, whatever is rolled back.
* **At-least-once delivery.** Result and position are two transactions. Correct when a
  position never passes an unhandled event, effects keep the log's order, and only a
  stop of the process redelivers.
* **In-memory scheduling.** Requests are computed from reads outside the mutex and
  handed over by a channel of capacity one. Correct when no request is forgotten and
  a failure rests until someone asks for it.
* **Early, lossy signals.** Wakeups are sent before the commit and dropped when the
  channel is full; a ticker makes up for it.
* **A two-sided join.** Entity vectors and Structure of one Manifest are derived
  independently; either may come last, in another EventType.
* **Decisions on what was read earlier.** An Agent resolves a conflict it read outside
  any transaction. Correct when nothing is decided that it has not seen, no conflict
  is overtaken, and what an object refers to stays active.
* **Answers rebuilt from rows.** A repeated Source is answered from what is stored by then.
* **Redelivery recognised by EventID.** An event published twice must be equal.
* **Non-transactional resources** (content files, vector Namespaces, model calls)
  beside transactional rows. Correct when no row is visible whose file or whose
  vectors are missing, whatever fails or stops between the two.
* **Work in several transactions.** A Corpora is assembled, a Memory added, a Report
  published and a conflict of a Child Zone resolved in steps between which others
  act, the call fails or the process stops.
* **Accumulated counters.** A Community Structure may reuse its Communities while few
  Relations have changed since they were detected.
* **Randomised search for structure.** Leiden moves, refines and aggregates in an order
  that a random generator decides; every level must stay a partition that is no worse.
* **Shared rows of vectors.** Namespaces share one cached vector per ID; it goes with the
  last of them, while others add it, page through it or search it.
* **A budget for a graph of calls.** A DRIFT request branches until its calls or tokens end
  and must still be able to answer, with Citations that mean the rows they were made for.
* **Validation before the transaction.** Observations are checked against Knowledge and
  a model that may be others when they are stored; what is stored is replayed at every
  start of the process.
* **The way down.** An interrupt meets a sidecar that is starting, handlers, HTTP requests
  and two callers of `Session.Close`; resources must be released once, and last.

PROJECT.json lists every hazard at its line, with the property that covers it or
the reason why none does.

## The modules

| Module | Models | Extends or uses |
|---|---|---|
| `EventLog` | abstract: one append-only log per Zone and EventType, no event twice | - |
| `Journal` | `WithTx`, `Publisher.Publish`, `Append`, `Advance`, crash and rollback | refines `EventLog` |
| `Delivery` | abstract: what a consumer is promised - effects at least once, positions behind effects | - |
| `ActionRuntime` | `request` step by step, `Run`, incomplete events, restart | refines `Delivery` |
| `Dispatcher` | the polling loop of one Consumer, causal following, restart | refines `Delivery` |
| `ControlPlane` | Policies, Automatic Evaluator, manual invocation, signals | the runtime by its boundaries |
| `Publication` | Knowledge extraction, vectors, Structure, Epoch publication of one Zone | four Actions as sequential consumers |
| `Knowledge` | Versions and Candidates of one Zone: submission, reviews, resolution, deletion | - |
| `KnowledgeRows` | the statements over the tables of one Zone, provenance, paged readers, the Manifest | - |
| `KnowledgeStore` | the same transactions as `Knowledge`, statement group by statement group, over `KnowledgeRows` | refines `Knowledge` |
| `Documents` | uploads of Documents: content files beside rows, the content store's mutex, crashes | - |
| `Corpora` | Document conversion, TextUnit creation, the vector consumer, activation, Child merge | three consumers of one Zone |
| `CorpusRows` | the statements over the tables of the Corpus: Documents, Texts, TextUnits, spans, progress, boundaries, Messages | - |
| `CorpusStore` | uploads, the consumers' transactions, the merge of a Child's Corpora and the Message Log over `CorpusRows` | refines `Corpora` |
| `ZoneMerge` | merging a Child's Knowledge, conflict assignment, Resolutions carried back and retried | conflicts as in `Knowledge`, abstracted |
| `Memory` | `Recorder.Add` over the Message Log and Knowledge submission | - |
| `Activation` | Observations, archived models, replay at a process start | - |
| `Communities` | Structures with their change count, Reports and their vectors | two Actions of one Zone |
| `CommunityRows` | the statements over the tables of CommunitySets, Structures, Reports and publications | - |
| `CommunityStore` | the transactions of both Actions over `CommunityRows`, statement group by statement group | refines `Communities` |
| `Service` | the process: sidecar, errgroup of runners, HTTP server, release | - |
| `Drift` | one DRIFT request: budget, Primer, graph of Local branches, Reduce | - |
| `Citations` | binding and rewriting of its Citations, the final audit | the candidates `Drift` admits, as reference lists |
| `GlobalSearch` | one Global request: dynamic selection, chunks, Map, Reduce, the scope of its Citations | - |
| `Lists` | the loops over lists that both searches have: picking, summing, joining | - |
| `Searches` | constants, variables and instances of `Drift` and `GlobalSearch` | what `Services` and the proofs share |
| `Detection` | edge preparation, Leiden, hierarchical splitting, the CommunitySet | the detection `Communities` asks for |
| `Vectors` | vector Namespaces, the shared cache, generation in batches, pages and search | what `Publication`, `Corpora` and `Communities` hold in Namespaces |
| `Services` | `Journal` beside `Documents`, `Corpora`, `ZoneMerge`, `Memory`, `Activation`, `Communities`, `Service`, `Drift`, `Citations` and `GlobalSearch`, for any values of their constants | composes the eleven |
| `Pipeline` | `Dispatcher` beside `Publication`, `Detection` and `Vectors`, for any values of their constants | composes the four |
| `MCActions` | `ActionRuntime` beside `ControlPlane`, with values for their constants | one run for both |
| `MCDispatcher`, `MCKnowledge`, `MCDetection` | constants for TLC | |
| `MCServices`, `MCPipeline` | values for the constants of `Services`, with `Journal`, and of `Pipeline` | one run for all of their parts |
| `MCStores` | `MCKnowledge` beside `KnowledgeStore`, `CommunityStore` and `CorpusStore` | one run for all of them |
| `ActionRuntimeProofs`, `KnowledgeProofs`, `ControlPlaneProofs` | theorems about the module of that name | |
| `DispatcherProofs` | theorems about `Dispatcher` and, in `Pipeline`, `Publication` and `Vectors` | |
| `DetectionProofs` | theorems about `Detection` and about the types of all of `Pipeline` | extends `DispatcherProofs` |
| `CorpusProofs` | theorems about `Journal`, and about `Documents` and `Corpora` in `Services` | |
| `SearchProofs` | lemmas about `Lists`, `Drift` and `GlobalSearch`: the two inductive invariants | extends `Searches` |
| `ServiceProofs` | theorems about `Service`, `Memory`, `Activation`, `ZoneMerge`, `Citations`, `Communities`, `Drift` and `GlobalSearch`, all in `Services` | extends `SearchProofs` |

The layers fit together by their abstractions: `Journal` shows that committed rows
read by EventType are `EventLog`'s logs, and `ActionRuntime` and `Dispatcher` start
from such logs (an event there is its schema version, its number its place).
`Publication` uses the delivery the runtime is shown to give - result first,
position later, redelivery after a stop.

### Correspondence

`Journal`. `rows` and `positions` are the two tables. `writer`/`phase`/`draft`/`queue`
are the goroutine inside `WithTx`, the rows it has inserted and the events of the
batch `Append` has still to visit, one insert per step. `sameEvent`'s comparison is
equality of identity fields and of one `content` value. A failed callback must end
in `Rollback`; a cancelled context may end any open transaction so. `Crash` is a
stop of the process: SQLite returns to the committed rows.

`ActionRuntime`. `call[c]` is one caller in `request`: `ReadPosition` and
`ReadPending` alternate over the keys, `Schedule` is the critical section, `Notify`
the non-blocking send. `runner` is the goroutine of `Run`; `Handle` commits a result,
`AdvancePosition` is the next transaction, so a `Restart` falls between them.
A map entry that is missing in Go is 0 here; no boundary is 0. Reads of events in
pages of `readLimit` show only committed, immutable rows below the boundary and are
not separate steps. Any other error of a handler is a `Restart`.

`Dispatcher`. `loop` is the goroutine of `runConsumer`. An event is known by its index
in the Zone's journal, from which its EventType sequence is counted. The order of
occurrence times between Zones in `PendingZone` is left open.

`ControlPlane`. `evaluator.pc` separates the reads of `InvokeAutomatic`: `now` and the
Policy, the pending input, `Start`. `draft` is a producer's open transaction; its
wakeup precedes the commit. The Action runtime appears as `scheduled`, `failed` and
`position` - a failing activation ends at once, the window in which a failed
boundary is still active is `ActionRuntime`'s. `stale` is a history variable.

`Publication`. A boundary is a Corpora and a Knowledge Manifest (named by the number of
changes before it). `published`, `indexed`, `structures` are EventTypes of the Journal,
`namespaces` the vector store, `epochs` the Epoch rows; the last is Current. An
Epoch-publication activation fixes `through` for both EventTypes and serves
Structures first. `IndexedEvent` carries the number of restarts, which tells the
clock readings of two deliveries apart. The completion of a Corpora and the changes
of formal Knowledge by agents and reviewers are its environment.

`Knowledge`. An object is the stable identity of an Entity, a Relation or a Claim,
`Refs` its endpoints or Subject: `submitEntities`, `submitRelations` and `submitClaims`
take the same steps, and so do the three resolutions and deletions. `versions[o]` are
the rows of `knowledge_versions` with `candidate_number` 0, `candidates` those above 0,
`sources` the rows of `knowledge_source_metadata` that support them. `Submit`, `Resolve`
and `Delete` are the write transactions (`BEGIN IMMEDIATE`); each either stores all
of its steps or, when a guard fails, nothing. A review is two reads outside any
transaction, `BeginReview` and `FinishReview`. `first` is the variant that normalisation sorts
first. `answers` is what the caller was told, a history variable; the answer to a repeated
Source is `StoredAnswer`. Preflight only reads.

`KnowledgeRows`, `KnowledgeStore`. A table is a set of rows and a statement an operator that reads
or changes tables; each stands for the three statements of the three kinds, which differ in
the identity table they join. `tables` is what is committed, `tx` the transaction of `WithTx`
with tables of its own and the work it has left: one step per object or variant of a
Submission, the decision and then one Candidate after another of a Resolution. `Rollback` may end
it anywhere. The conflict is read as in `Knowledge`; the supports of its Candidates are read
with their list. `ImplementsKnowledge` (checked as a part of `TransactionsAtomic`) maps the formal rows to `versions` and the others to
`candidates`: what is in `tx` is no step of `Knowledge`, its commit is one. `answers` is
compared with what the rows say later (`ResultOf`), `Preflight` with what `Submit` does, and the
readers of a View, page by page, with the whole.

`CommunityRows`, `CommunityStore`. As above: `open` statements in `tx`, committed rows in `tables`.
IDs are numbers, a Community's ID is its members. What a Builder reads - the Manifest, the last
Structure, the Reports - is committed before it begins to write, so it is read at `Begin`. Every
statement group of `SaveStructure`, `SaveReportSet` and the publication is a step, and a
rollback or a stop may fall between any two.

`CorpusRows`, `CorpusStore`. The same for Documents, Texts, TextUnits, spans, chunking and vector
progress, Child boundaries and Messages. Document and Text IDs are numbers, a TextUnit is
its text, a span's range its place in the Text. `ChildTables` is a Child Zone with a Current Corpora, which
shares Documents and Texts with this one. The refinement counts spans in write batches
and forgets registrations, boundaries, merged Documents and Messages, of which `Corpora` knows nothing;
a merge of TextUnits that are there already is its step too, since it begins a build. The
events, the positions and the memory of the consumers are those of `Corpora`.

`Documents`. `files` are the complete files of the content directory, `rows` the Document
rows by digest with the Location they name, `publishing` the uploads that hold the mutex
of `ContentStore` (one at most, and that is what the model shows to matter). `Publish` links the
staged file unless an equal one is there, `Record` is the transaction, `Confirm` and
`Discard` release the mutex. A staged file that a crash leaves behind has no path of
its own and is not represented.

`Corpora`. `recorded`, `prepared` and `units` are the three EventTypes, `converted`,
`chunked` and `assembled` the consumers' positions. `spans` are the rows of the building and
the activated Corpora by Document and batch, `progress` the chunking progress, `vectors` the
Namespaces, `vectored` the vector progress, `boundary` the Documents that the accepted Corpora of the
Children have Texts of, some of which may be uploaded here too. A delivery of TextUnit creation
(`chunker`) reads the boundaries and merges those Texts, one transaction each (`MergeTextUnits`), before it
opens the progress of its own Text. `WriteBatch` and `WriteFinal` are one
transaction each, `BuildVectors`, `RecordVectors` and `CompleteCorpora` the three steps of
the vector consumer. The branch of `CompleteCorpora` that finds another Corpora building
than the one it handled is kept, as the code has it, although no state reaches it.

`ZoneMerge`. `child` and `parent` give an object's Versions and Candidates in either Zone,
`assigned` is the table `zone_knowledge_conflicts`. A merge is a read of the Child and
then a transaction. `Resolve` carries the decision back at once when the Parent is as
assigned, else `Retry` and `Resume` take it through a resolved row, another merge and the mark
`parent_reconciled`; a call may be abandoned between any two of them and repeated under
the same Source. Objects have no references here (`Knowledge` has them). The code's
`ResolveEntity` of `knowledge/zonemerger` is called by library users; the MCP tools resolve in one Zone.

`Memory`. One call of `Add` is `Check` (both preflights), `AppendMessages`, `Verify` and `Submit`, each
its own transaction or read; `Fail` ends it after any of them. `log` is the Message Log
by Position, `accepted` the Evidence of every Source.

`Activation`. `submission[c]` is what a caller has validated (`Validate`) and not yet recorded
(`Record`). `observations` and `states` are the two tables, `archived` the models kept for
replay, `model` the one this process was started with; `Start` verifies all states
(`Replays`) and refuses when one differs. States are the sequence of Observations folded,
not the floating-point numbers of the memory formula.

`Communities`. `formal` is Knowledge with its Relations' Versions, `manifests` what was
published of it, `structures` and `pending` the Structures and the count of changes in `StructureState`.
`PrepareReports`, `AddReportVectors` (a page at a time) and `CompleteReports` are the steps of
a Report publication. Detection puts all endpoints of Relations into Communities.

`Service`. `start` is `analysis.Start` with its select over the ready message, the exit and
the timeout; `exit` the channel `wait`, which delivers one value; `stopping` the
goroutine in `terminateProcess` or `Close`; `runners`, `failure` and `dispatch` the errgroup; `server` and
`requests` the HTTP server with its Shutdown goroutine; `held` the database with its
lock and the analysis cache. `Process.Kill` may fail (`KillFails`): `Close` then returns at once
and the session counts as `abandoned`, while `terminateProcess` waits for the exit all the same. Timers are nondeterministic: whatever a timeout allows may
happen at any time.

`Drift`. `step` is where `Search` stands; `budget` is `requestBudget`, whose Reduce call and
output are held from the beginning, `folds` and `asked` the goroutines of a fan-out, which
reserve and settle in any order, while their results are looked at in order. `branches` and
`edges` are the graph of `TraversalResult`. Any read, model call or token count may fail, the
caller may leave (`gone`) and the duration end (`expired`). Prompts are sizes from a small
set: their texts and the ranking of the evidence are left out. Prompt tokens are not held for the Reduce:
a request may spend all its branches and end with "no room" for the answer.

`Citations`. A candidate is the list of references in its answer; `ledger` is
`citationLedger`. `Admit` binds the references that its own evidence supports and rewrites
the answer, or leaves the candidate out (`truncated`); `Audit` reads the response.

`GlobalSearch`. `at` is where `Searcher.Search` stands. `frontier` is the `queue` of `traverse`, whose Reports
are rated by concurrent calls in any order the errgroup's limit allows; `order` and `kept` are its
`order` and `selected`. Without dynamic selection all candidates are kept. `Build` numbers the rows, shuffles
them (every permutation), cuts them into chunks and arranges each. `results` are the batches of
`MapResult`: a call that fails, or is answered wrongly twice, leaves a placeholder, one that is
cancelled ends the request. A point is its score, the rows it cites and its tokens. `scope` is what
`acceptedReportCitationRecords` returns, `resolved` one reference of the answer. The conversation is part of the
texts and left out, as are the partial answers of `Stream`; weights are exact.

`Detection`. `edges` are what the preparation makes of the projection, `run` is one call of
`runLeiden` with its phases `move`, `refine` and `aggregate`, `hierarchy` the recursion of
`HierarchicalLeiden`. Weights are integers and modularity is multiplied by twice the total
weight, so comparisons are exact where the code's are floating point. The shuffles and the
sampled clusters of the refinement are choices: every target that the sampling could draw.

`Vectors`. `namespaces`, `members`, `embedding` and `indexed` are the tables
`namespace_config`, `namespace_vectors`, `vectors` and the vec0 index. `add[c]` is a call of `Add`:
the look into the cache, `Generate` with the answers to all batches, the transaction. `reader[r]` pages by
keyset or searches. `Restart` opens the store with another model, which it refuses.

`Services`, `Pipeline`. Their parts share no state of these models, so a behaviour is that of one part,
chosen initially and held in `part`; a step of another part leaves all of its variables alone. The
variables of the others rest at one initial state. What is proved of a part is proved of
`ServicesSpec` or `PipelineSpec`, the specifications that TLC checks.

## What TLC checks

| Run | Bounds | Distinct states | Shows |
|---|---|---|---|
| `services` | see below | 311 411 | the Journal: numbering, idempotence, atomic batches, positions, refines `EventLog`; and the properties of the ten modules beside it |
| `actions` | see below | 549 906 | the Action runtime: order, wake-ups, redelivery, failures, refines `Delivery`; the control plane: stale starts, early and lost signals; liveness |
| `action_runtime_retry` | 1 EventType, 1 event | - | finding: Retry of a boundary still active |
| `control_plane_clock` | 1 pair, 1 event, 1 clock tick | - | finding: the evaluator's clock |
| `pipeline` | see below | 387 840 | what following a Stream may reorder, refines `Delivery`; the join of an Epoch; detection; the vector store; liveness |
| `detection_frozen` | two triangles with a bridge | - | finding: a refined cluster loses the node it is named by |
| `publication_regress` | 2 Corpora, 1 change | - | finding: an Epoch of older Knowledge |
| `publication_redelivery` | 1 Corpora, 1 restart | - | finding: a redelivery that is a conflict |
| `knowledge` | `Knowledge`: an Entity, a Relation of it, 2 contents, 5 Sources, 2 Agents; `KnowledgeStore`: also a Claim about the Relation, 2 contents, 4 Sources, 1 Agent, 5 Submissions; `CommunityStore`: 2 Relations with a common Entity, threshold 2, 1 page, 3 changes, 2 Manifests, 1 stop; `CorpusStore`: 2 Documents to upload, one of which a Child has too, Texts of 1 and 3 TextUnits in batches of 2, 2 uploads or appends, 2 Corpora, 1 stop | 200 463 | active references, conflicts decided as read, replayed answers (`StoreSound`): the rows are sound and readers see all of them; (`TransactionsAtomic`): every transaction over them is a step of `Knowledge`, `Communities` or `Corpora` |
| `knowledge_stranded` | the same | - | finding: Candidates left behind by a deletion |
| `corpora_merged_over` | those of `services` | - | finding: the progress of a Text a Child has too |
| `zone_merge_unapplied` | 1 object, 3 contents, 1 Source, 4 writes | - | finding: a decision marked as applied that is not |

`services` runs the eleven parts of `Services`, `pipeline` the four of `Pipeline`, `actions` the runtime and
the control plane, `knowledge` four modules; the state count is the sum of the parts'. The bounds and what each property says:

| Part | Bounds | Property |
|---|---|---|
| Journal | 2 writers, 6 batches, 4 EventIDs, 2 Zones, 1 consumer | `WellNumbered` (with positions within the log), `CompletionVisible`, `ImplementsEventLog` |
| `Documents` | 2 contents, 2 extensions, 2 uploaders, 4 uploads, 1 crash | `ContentKept`: a recorded Document can be opened |
| `Corpora` | 2 Documents, of 3 batches and of 1, the first of which a Child may have too, 3 records, 4 Corpora, 1 restart | `CorporaWhole`: a Corpora becomes Current with all chunks and vectors, and progress counts what is stored, but where a Child's Text was merged over it; `EventuallyCurrent`: every Document gets into a Current Corpora, or TextUnit creation is blocked for ever (findings 8 and 9) |
| `ZoneMerge` | 1 object, 3 contents, 1 Source, 4 writes | `ReplacedAsAssigned`: Parent content is replaced only at the Version a pending assignment names and by what its command decided; it was reviewed in the Child unless the command is a repeated one (finding 10) |
| `Memory` | 2 agents, 2 Memories, 4 Message lists, 3 calls | `EvidenceStored`: accepted Evidence is in the Log with its text |
| `Activation` | 1 Subject, 2 IDs, 2 models, 2 callers, 2 Versions, 1 stop | `Restartable`: every start accepts the stored states |
| `Communities` | 2 Relations, threshold 2, 2 pages, 3 changes, 3 Manifests, 1 stop | `DriftBounded`, `ReadySearchable` |
| `Service` | 2 runners, 1 request | `ReleasedLast`: the database after the cache, runners and server, the cache after the sidecar or its failed `Kill`; `EventuallyExits` |
| `Drift` | 1 fold, prompts of 1 or 2, depth 2, batches of 2, 2 branches, 6 calls, 5 prompt and 4 output tokens | `RequestSound`: no limit is exceeded and the Reduce keeps what is held for it (`BudgetKept`); the graph returned is whole (`BranchesTraced`) |
| `Citations` | 3 answers, 1 of a fold, 2 datasets, 2 rows, 2 references each | `CitationsResolve`: a reference of an answer that the Reduce is shown means the row it meant in its own evidence; one that the audit accepts is a reference to at most one row of an answer shown |
| `GlobalSearch` | 4 Reports of 3 levels, 1 below the rank, 2 votes, 2 calls at once, 5 responses, 2 points of the Reduce | `RequestSound`: the selection is relevant and complete (`SelectionRelevant`) and in the chunks once (`ShownOnce`); the answer can cite what an accepted point's chunk showed, no more (`AnswerTraced`) |
| `ActionRuntime` (`actions`) | 1 Zone, 2 EventTypes, 2 versions, 2 callers, 2 events, 1 restart | `EffectsInOrder`, `NoLostWake`, `RedeliveredOnlyAfterRestart`, `FailedBoundaryRests`, `EventuallyDelivered`, `ImplementsDelivery` |
| `ControlPlane` (`actions`) | 2 Zones under 1 Policy, 3 settings, 2 editors, 1 operator, 2 revisions, 2 events | `AtMostOneStaleStart`, `EventuallyStarted` |
| Dispatcher (`pipeline`) | 1 Zone, 2 EventTypes, 2 versions, 2 Streams, 3 events, 1 restart | `AheadOnlyAsContinuation`, `WalkedOnce`, `ImplementsDelivery`, `EventuallyHandled` |
| `Publication` (`pipeline`) | 2 Corpora of 2 TextUnits, 1 change of Knowledge, 1 restart | `EpochsJoined` (nothing lost at the join, what an Epoch names exists, Manifests in order), `EventuallyCurrent` |
| `Detection` (`pipeline`) | 6 projections of up to 6 nodes, of one of which a cluster is split, a limit of 3, and of 1 where an Entity stays alone, the largest component | `DetectionSound`: no level is worse than the last, the CommunitySet is accepted, an Unsplittable Community is one that a run gave back as one (`UnsplittableMeant`; finding 11) |
| `Vectors` (`pipeline`) | 1 Namespace, 2 IDs, 3 samples of 2 dimensions, 2 callers, 1 reader, 2 adds, 1 delete, 1 restart | `VectorsKept`: members, vectors and index agree, one vector per ID |

Why the bounds are enough to meet the cases: two writers and a batch of two let one
writer's rollback or crash fall between any two inserts of its batch, a shared EventID
with equal and with other content meets both branches of `Append`. Two EventTypes are
what the widest Action has; two events let a failure, a skipped version or a
restart stand before another event. Three events on two Streams let a
continuation run ahead of an earlier event of its EventType, but do not keep one key busy for
long. Two Corpora let the
halves of different boundaries interleave. The two events of the control plane
fall into one Zone or into both, and the Automatic setting asks for two events or one that has waited, so
both branches of `ShouldInvoke` are met; the clock stops at 1 and inputs occur at 0,
so that the evaluator's own error, which `control_plane_clock` shows, does not hide
the rest.
Five Sources are what it takes to bring back a Relation whose Entity has gone: create
both, delete the Relation, submit it again, delete the Entity, resolve. Two
contents let a Submission agree, disagree and do both; two Agents decide on the
same conflict. Nothing orders Sources, so both parts use them in one order. A review of rows (`KnowledgeStore`) changes nothing until it is
decided, and each is decided under a Source of its own, so no more are open than Sources are
left (`ReviewsUseful`): whatever rows a behaviour with other reviews reaches, the same
behaviour without them reaches too. Four Sources
over the rows open a Candidate, resolve it into a Version or against Current, and open
the next one at the same base; a Submission of three objects in the wrong order meets the
sorting by kind. Over the rows of Community the Manifests come first, since nothing derived reads
formal Knowledge in any other way; two Relations of a common Entity make Communities that
share it. Over the rows of the Corpus a Text of three TextUnits takes two batches, the last one of which is
smaller, one TextUnit stands in two Texts and twice in one, one Text has been stored by another Zone before,
and a second build copies what the first one holds.
Two extensions give one content two paths, four uploads by two uploaders let a failed
upload fall between two others of the same bytes. Two Documents are a Text of several batches and one of a single batch; that a Child may have the first as
well lets its merge fall before, between and after the batches that are written here. Four writes let both Zones
change between assignment, decision and retry, and three contents tell a repeated decision from the Parent's change. Three Manifests let a change count below
the threshold be carried over two of them. One stop lets a process
with another model replay what was stored under the first.
Two callers that add one ID with answers of different dimension meet every race of the
cache; a page of one row lets a deletion fall between the pages of a reader. Six calls are
what one fold, two levels of branches and the Reduce take, so that the budget ends before, at and after
each of them. The bridge between two triangles is the smallest graph on which a node leaves a refined
cluster that another has joined; the self-loops and repeated edges are what the
preparation has to remove.
Deadlock is not checked: in every module the environment is bounded and the system may rest.

Each run evaluates the assumptions its theorems rest on: `Services` states those of its parts, `Pipeline` those of its parts beside the
Dispatcher's own, and `MCActions` those of `ActionRuntime` and `ControlPlane`, whose theorems have them as
a hypothesis.

Every passing property has a mutant in PROJECT.json, an operator `X_Something` next
to the definition it changes: a dropped check, a missing loop end, a position moved too
far or in memory only, a signal not sent. TLC finds the property violated under each.

### Findings

1. `Retry` schedules nothing while the failed boundary is still `active`
   (`internal/actionruntime/runtime.go:159`, comment at 123-124): the runner has
   marked the failure and not yet reached `finishRequest`. The caller gets nil.
2. The Epoch store does not reject a regressing set of Knowledge Versions
   (`epoch/adapter/sqlite/publish.go`, comment at 17-19): the pending Structure of
   Corpora 2 is served before the pending vectors of Corpora 1.
3. A stop between the commit of `EntityVectorsIndexedV1` and `Advance` cannot be
   recovered: the redelivery publishes the same EventID with a new `OccurredAt`
   (`knowledge/adapter/journal/entity_vector_action.go:131`), `Append` answers
   `ErrEventConflict`, and the process stops again at each start. The Manifest
   that extraction reads at its commit has the same effect when Knowledge changed.
4. `time.Now` is read before the pending input
   (`controlplane/application/automatic_evaluator.go:113`): an event that occurs and
   commits in between makes `ShouldInvoke` return `ErrInvalidPendingInput`, which ends
   the evaluator and the process.
5. Deletion leaves the Candidates of the Version it replaces pending
   (`knowledge/deletion/app_delete.go:157`). No review reaches them, since
   `EntityConflict` looks at the Current Version only, and listing the conflicts
   of the Zone fails with `ErrConflictNotFound` for the page that contains one.
6. A Resolution that finds the Parent with a pending conflict of its own is marked
   `parent_reconciled` although the Parent keeps its content
   (`knowledge/zonemerger/app_resolution.go:504`): the second merge finds the assignment
   made and nothing to submit. The schema says the mark "Becomes true only after the
   resolved Child result has been applied back to the parent".
7. The refinement of Leiden moves a node that others have joined
   (`community/internal/leiden/refinement.go:100`): the test `rAssign[u] != u` asks whether the
   node itself has moved. Its followers stay in a cluster whose mass is then set to 0,
   against "established R-clusters are never split or relocated" (lines 13-15).
8. A Document that is uploaded in a Zone and in a merged Child's Corpora as well: when a delivery fails, or the process
   stops, after its chunking progress was opened, the next one merges the Child's TextUnits first
   (`corpus/text_unit_preparation.go:121`), which
   finds no spans of the Text and writes them all; the resumed batch then violates the primary key of
   `text_unit_spans`, again and again, and its progress row keeps every later Corpora from being
   activated. "NextChunkIndex is the number of ordered chunks already committed" (line 20 there) does not hold then.

Findings 9 to 12 are exceptions that a passing property states, because the code does what its text denies; with the exception
left out TLC finds the property violated at the same bounds.

9. A stop between the final chunk transaction and `Advance`, with an activation before the redelivery, makes the chunks of one Text
   be written for the next Corpora, and the announcement, whose EventID is made of the source event alone
   (`corpus/text_unit_preparation.go:232`), fails with `ErrEventConflict` from then on: `Stranded` in `EventuallyCurrent` of
   `Corpora`. Finding 8 is the other exception there, `Unresumable`.
10. A repeated command of a Source finds the row that the second merge of its first call has assigned
   (`knowledge/zonemerger/app_resolution.go:21`) and overwrites a later Version of the Parent that nobody reviewed, against
   "later parent Versions trigger another review" in the schema: `Reviewed` in `ReplacedAsAssigned`.
11. At a `MaxClusterSize` of 1, which `Validate` accepts, a Community of one Entity is marked Unsplittable although Leiden
   never ran on it (`community/internal/leiden/hierarchical.go:172`), against "another Leiden run returned a single
   community" (`community/types.go:47-49`): `UnsplittableMeant` in `DetectionSound`.
12. The watcher of the interrupt closes the sidecar and its cache while HTTP drains and handlers run
   (`analysis/process.go:162`), so an ordinary interrupt may end with a handler's error; and after
   `shutdownWait`, or when the listener fails, the database is closed with requests in flight; the comment says
   "drains HTTP before releasing every owned resource" (`cmd/meking/internal/httpservice/service.go:41-42`): `ReleasedLast`.

Met while modelling, from reading and the models, without a run of their own:

* `mcp/toolset.go:30` resolves with the plain `resolution.Application`, so the row that
  assigned the conflict stays unresolved, and a later merge may fail with `ErrConflictChanged`.
* `Communities`: a CommunitySet is reused below the threshold even when a member Entity has
  been deleted; `validateReportCommunities` (`community/report/input_validation.go:57-149`) then
  fails each time Reports are generated, and the process with it. A Manifest without
  Relations that asks for detection ends in `ErrEmptyGraph`.
* `Corpora`: a Text merged
  from a Child between the vectors and the activation has its vectors in the next Corpora only.
* Global search keeps the *oldest* exchanges of a conversation (`query/global/conversation.go:26-28`), where
  `ConversationHistoryTurns` is the "maximum number of recent user turns"
  (`query/global/context_types.go:69`); Local search keeps the last.
* `Memory`: two calls that add one new ID with different Knowledge at once both
  succeed, the later with the earlier one's result.
* `Activation`: once the model is configured anew, Observations of a Subject that has a
  state under the old one are refused with `ErrModelMismatch`.
* `Vectors`: a Namespace added with no IDs exists, and cannot be opened until the first vector
  of any Namespace has fixed the dimension.
* `Drift`: a branch's output that is longer than its reservation takes output the Reduce holds
  (`lost`); a request ends with "no room" after it has paid for all its branches.
* `Service`: when `Process.Kill` fails, `Session.Close` returns with the child alive (`analysis/process.go:221-224`) and cache and database
  are closed under it, while `terminateProcess` waits for its exit without a limit.

### Fairness

`ActionRuntime`: the goroutine of `Run` and every call in progress keep running (weak);
`Take(z)` is strongly fair per Zone, because Go's map iteration picks any requested Zone
and no Zone is passed over for ever; `Request` by the evaluator is strongly fair, its loop
visits all Zones every tick. Nothing is assumed of manual callers, producers,
restarts or of the outcome of a handler. `Dispatcher`: the loop keeps running.
`ControlPlane`: the evaluator (its ticker never ends), the runtime, the end of a
transaction and time. `Publication`: each of the four Actions, under Automatic
Policies. Liveness is stated up to what the code gives up on: a failed boundary, a
Policy that is not Automatic, the errors of findings 3 and 4. `Corpora`: the three
consumers go on, which for TextUnit creation means that somebody retries what failed;
`EventuallyCurrent` is stated up to `Blocked` (findings 8 and 9). `Service`: a goroutine that can go on does
and a timer fires; a killed child exits and its pipes are closed by then, and
`EventuallyExits` excepts a `Start` that waits for a child whose `Kill` failed; a handler
returns when its context is done. Nothing is assumed of a child that is not killed, of
requests, or of handlers otherwise.

The parts of `Services` and `Pipeline` keep the fairness of their modules, as `WF_corpVars(part = "corpora" /\
Corp!Chunk)`: in the behaviours of another part the action is never enabled and nothing is asked.
The parts of `MCActions` do so too.
`EventuallyHandled`, `EventuallyCurrent`, `EventuallyDelivered` and `EventuallyStarted` have the form `[]<>(P => Q)` where `P ~> Q` is meant. They
are the same here, because `P` - an event is published, a Corpora completed - stays true once it
is: if `P` never holds the first is true in every state, and once it holds, `[]<>Q` and `P ~> Q`
say the same of what follows. TLC checks the first form in half the time.

## What is proved

TLAPS checks the theorems for every value of the constants: any number of
writers, Zones, EventTypes, callers, events, restarts, objects, Sources and Agents.

`CorpusProofs` has three parts. `Journal` (assumptions: batches are sequences of proposed events; the free lock
is no writer). The inductive invariant `IInv` says that the view of the open
transaction - committed rows and its own - is `Sound` (EventIDs unique, every EventType
numbered 0, 1, 2, ..., every Stream 1, 2, 3, ...), that nobody but the holder of the
lock has a draft, and that positions stay within the log. Numbering alone is not
inductive: `Commit` publishes a draft, so the draft must be right already; and it is
right only because no other transaction commits while it is open (`OneWriter`). From
`IInv`: `TypeCorrect`, `NumberingCorrect`, `PositionsCorrect`, `NoLateArrivalCorrect`
(what becomes readable stands behind what was) and `Refinement` to `EventLog`.
`CompletionCorrect` needs more, since a draft with a member and no completion is what every
atomic batch looks like half-way: `CompletionInv` says of the open transaction's view that
each member has its completion there or in what is left of the batch (`Completing`), and that
`Commit` comes when nothing is left. `Documents` and `Corpora` follow below.

`ActionRuntimeProofs` (`Assumptions`, a hypothesis of each theorem: there is a Zone, keys do not repeat, callers are
automatic or manual, the bounds are numbers). `IInv` has two parts. `Progress` ties the
runner's local position to the durable one, allows an effect at most one place
beyond the position, and keeps every boundary anyone holds within the log.
`Scheduling` orders the three tables: a request is for more than what is active, and
for more than what failed. `FailedBoundaryRests` needs the first of these, because
`markFailed` copies an active boundary into the failures while a request may
already wait. From `IInv`: `TypeCorrect`, `DeliveryCorrect`, `OrderCorrect`,
`WakeCorrect`, `FailureCorrect`, `BoundariesCorrect` and `Refinement` to `Delivery`.
`RedeliveryCorrect` rests on `EffectsBehind`: until the first restart, the only effect at or beyond a
position is that of the event the runner is about to pass.

`KnowledgeProofs` (assumptions: `Refs` relates objects, a batch offers content for
objects, NULL is no Source). `IInv` joins the properties to one more fact, that a
Candidate stands against a Version that exists: without it a first Version could slip
past a Candidate already waiting below it. `ReferencesActive` is inductive because
`Delete` sees every active dependent in its own transaction and `Resolve` checks the
references again in its own. From `IInv`: `TypeCorrect`, `ReferencesCorrect`, `KeysCorrect`,
`ReplacementCorrect` and `ReviewCorrect`. `ReplayCorrect`: the answer that is rebuilt from rows
(`StoredAnswer`) reads only what names the Source, and `ReplayInv` adds that a Source not used yet
is named nowhere (`Silent`); each transaction then adds rows in its own Source's name and changes
nothing that another Source's answer reads (`VersionsStep` and its like).

`DispatcherProofs` (assumptions: there is a Zone, keys are distinct and there is one, as
`dispatcher.go:107` checks). `IInv` holds, for every EventType, what is behind the position to be
handled and what has been handled ahead of it to be a continuation of a handled event of
the same Stream (`HandledWhy`); the walk of one iteration stays within the journal
(`WalkBounded`) and what it has passed is handled. From it: `TypeCorrect`,
`OnlyContinuationsAhead`, `WalkedAtMostOnce` and `Refinement` to `Delivery`. For the last one the log of an
EventType is read off the journal by sequence, which names an event because sequences are
unique (`SequenceUnique`) and have no gap (`NoGaps`, kept because an event gets the number of
those of its type before it). A walk or a continuation maps to `Effect`, moving the position to `Pass`,
whose condition is what `PassedHandled` says; everything else stutters.

The same module proves `EpochsAreJoined` of `PipelineSpec` (assumption: the bounds of `Publication` are
numbers). Two halves are served by two loops and each finds out by itself whether the other has
come, so that nothing is lost only if what `JoinEvent` found still holds when the transaction is
reached and its event passed. `PublicationInv` says so: before the transaction (`Publishing`) no Epoch
has the boundary and all it names exists; behind it (`Served`) the Epoch is there or no other half has
been served. `ManifestsExtracted` and `DerivedFromPublished` tie halves to Manifests, `CursorsBounded`
keeps an activation within what was committed when it started.

It also proves `VectorsCorrect` of `PipelineSpec` (assumptions: finitely many IDs, which are positive numbers, samples have
positive dimensions, pages are not empty). `VectorsInv` relates cache, members and index (`Cached`,
`Indexed`) and says how far a reader has come in its list (`Paging`). Lists are sorted by
counting, so a number's place is its rank, an injection of a finite set into as many numbers and therefore
onto them (`AscendingLists`; `AscendingOnly`: no other list is ascending). The loops of `Starts` and
`RetainAll` are recursive functions, whose facts have a least counterexample (`Least`): the
texts of a batch stand side by side (`BatchTogether`), so that every ID gets the answer to its own
text (`OwnAnswers`), and each vector that is retained keeps the database sound (`RetainKeeps`).

`DetectionProofs` (assumptions: the names of Entities are numbers, weights are not negative, as
`detection_graph.go:128` checks, and the limit of Communities that each detection is called with is positive): `DetectionIsSound`. The invariant
`DetectionInv` has three layers.

* A sum over a set is a recursive function (`Total`), whose facts have a least counterexample
  (`TotalStep`, `TotalUnion`, `TotalGrouped`). From them: a partition of the aggregated network has the same objective
  as the partition of the network before that it stands for (`AggregateKeeps`), and a
  local move changes the objective by its `MoveDelta` (`MoveGains`), so that `Best` never lowers it.
* `RunInv` of one call of `runLeiden`: the present network values every partition as the first one values what is
  composed with `orig` (`Faithful`), a refined cluster lies in one cluster (`RefinedWithin`), the levels climb and what the
  run holds is worth at least the last of them (`Climbs`), and levels number their clusters from 0.
* `HierarchyInv` of the recursion: the final clusters are the cells of the partition and every other cluster
  is a union of them (`Celled`), lies in its parent on a lower level (`Nested`), differs from all
  others and was large when it was split (`Divided`); what is queued is still a cell
  of that size, above the level of its parts, and queued once (`Queued`). `Waiting` ties the hierarchy to the
  run it waits for. `SplitDivides` is the step in which parts take the place of a cluster.

That a Community is marked Unsplittable only when a run gave it back as one is a fact of the hierarchy (`Judged`: what was
recorded as unsplittable; `Exhausted`: nothing else of the limit is left, clusters of one node apart), which `CollectedValid` carries over to the Communities (`Meant`).
That the CommunitySet is accepted (`CommunitiesValid`) follows from the hierarchy's invariant alone, whatever
the runs found, and that no level loses any of the objective from the run's.
`PipelineTypes` joins the types of the four parts.

`ControlPlaneProofs` (`Assumptions`, a hypothesis as well: the bounds are numbers). The inductive part is `OverlapUnused`: an
evaluation that a change of its Policy overlaps has started nothing yet, so that at most
the one start it is about to make is stale. From it: `TypeCorrect` and `StaleStartsBounded`.

`ServiceProofs` has seven parts. `Service` (no assumptions): the database is released last because `held` is given up
only in `exit` (`HeldUntilExit`), the group is awaited before it (`GroupAwaited`), and the server
and its requests end first on every path that the property does not name (`ServerDone`,
`RequestsServed`); `StartedFirst`, `ChildWatched` and `ExitClosed` tie the sidecar's goroutines to
the stage. The cache goes when the session ends, which the watcher does only after an interrupt and otherwise
only `Close`, behind the group (`CacheKept`, `ClosedAfter`). From it: `ReleasedLastCorrect`. `Memory` (assumption: within one list
of Messages an ID has one text): `AcceptedEvidenceStored`, because an ID has one text in the Log
(`IdsOnce`) and a call that has verified its batch has it stored (`Stored`). What `Append` leaves
out is a filter, a recursive function; its facts are proved by the least counterexample
(`NatLessThanWellFounded` and `WFMin`), which needs no theorem with an operator parameter.
`Activation` (assumptions: times and bounds are numbers): `AlwaysRestartable`. The stored state of a Subject is
what a replay of its Observations gives, for one more Observation is put behind all others of the
Subject, under an archived model (`Running`).
`ZoneMerge` (assumptions: a deletion is no content, the two reserved Sources are no Agent's): `ReplacedCorrect`.
Every assignment row, whether kept by the Child or still in the memory of a merge, names a Candidate of the Child
with the base and the content the Parent had (`Backed`), and stays so because Versions and Candidates are only
appended and decided (`Later`). What a merge replaces it has read before, so `ViewsRead` belongs to the invariant. That the
Candidate has been decided on follows from the same step for a first call, and a repeated one finds a row of its Source.
`Citations` (assumptions: bounds are numbers): `CitationsCorrect`. The ledger gives a row the number of
rows of its dataset before it (`Numbered`), so that a reference names one row (`GivenOnce`); the
loop of `bindCandidate` only adds rows of its own answer (`Grown`), and what an answer shows is
among them (`Traced`). `BindAll` and `Distinct` are recursive functions; `LoopRuns` and `LoopKeeps` say of any loop
that it has a run and keeps what its passes keep, with a set of states in place of a predicate.
`Communities` (`Assumptions`: finitely many Relations, a positive threshold, bounds
that are numbers). The count kept in `pending` bounds the number of Relations that
differ between the Manifest the CommunitySet was detected on and the Structure's own,
by the triangle inequality of `ChangedRelations`; detection sets both to zero. From it:
`DriftIsBounded`. `CompletedReportsSearchable`: a publication is marked complete only where the page
count has been reached in the running generation or found in the Namespace, and pages are
never taken away. The seventh part joins the two searches.

`SearchProofs` (`Drift!Assumptions`: numbers, and limits that `Configuration.Validate` accepts;
`GlobalSearch!Assumptions`: a parent is on a lower level, no rating is the -1 that stands for none, votes are
repeated at least once, as `DynamicSelectionConfig.Validate` asks) holds what `RequestsSound` rests on, for any
prompts, hierarchies, ratings and responses:

* Lists. What a loop picks, sums or joins is said once (`Picked`, `Summed`, `Flattened` of `Lists`): order,
  members, counts and what one more element adds. Each is a recursive function with a lemma for one pass;
  `LoopKeeps` and `LoopRuns` take the place of the induction.
* `DriftInv` of a DRIFT request. The limits alone are not inductive: a call in flight has used nothing, and what it
  will use is known when it ends. So `Counted` bounds the calls made with the one held for the Reduce, and the prompts; `Covered`
  bounds the output had, that of calls in flight at its worst (`Reserved`) and that held for the Reduce, together,
  unless an answer had more tokens than its request allows, which the code finds when the call is over (`Overran`). `DriftAccounted`: what is used is what the Primer
  and the branches report. Of the graph, `Traceable` has an edge from an answered question one level above, or
  from the root, to every branch and no answered parent further up; it stays true when a follow-up is asked again only because
  branches stand in the order of their depth (`InOrder`) and a batch is taken from the front of those that
  are pending (`Awaited`). The branch limit holds because what is tried or waits is at
  most what was counted (`processed`).
* `GlobalInv` of a Global request. Of the selection: what has been accepted and the frontier start on one level and go on with
  parts of what is accepted (`Descent`); what was rated relevant is accepted or about to be, and the parts of what is accepted
  have been rated or are in the frontier (`Looked`); a parent is left out only when a part of it was accepted (`Remaining`). Of the Map: the chunks are
  an arrangement of the numbered rows of the selection (`Chunked`), each within the limit or a single row, and a response counts only when it
  cites rows of its own chunk (`Sound`). Of the answer: what the Reduce reads are points of succeeded chunks and none that was left
  out has a higher score (`Best`); the scope holds what those points cite and nothing else (`ScopeTraced`).

From them, in `ServiceProofs`: `RequestsSound`.

The rest of `CorpusProofs`. `Documents` (no assumptions on the constants beyond the module's): a recorded row
keeps its file because a file that is going to be discarded was created by the upload
that holds the mutex, and as long as it holds it nobody else records that path
(`DiscardsOwn`). The invariant joins this to the fact that an upload between link and
outcome is the holder, and its published file is there. From it: `RecordedContentKept`.
`Corpora` (assumptions: every Text has a batch, bounds are numbers): `ActivatedWhole`. That chunks and vectors
are complete at the activation follows from nothing the activation looks at but the absence of
an incomplete row, so `CorporaInv` relates what the consumers left behind: a Text's row is that of
an event of its own and counts its batches (`RowsExact`); what the Current Corpora holds is in the building one or
chunked again (`Inherited`); an announced Text is activated or chunked completely (`Announced`); and once
the last announcement so far of a Corpora has been read, all its chunks have vectors (`Vectored`,
with `VectorsOfChunks` for redeliveries that announce a Text again). Any Document may be one of a Child too: a merged Text is
whole at once, so that it disturbs only the count of a row opened before it (`MergedOver`), and no such row is ever completed.

The type invariants of `ActionRuntime`, `Knowledge`, `Dispatcher` and `ControlPlane` are proved and
not listed in their runs; the other modules' are checked by TLC.

Only model-checked:

* Every liveness property: fairness and ENABLED are beyond the prover.
* `StoreSound` and `TransactionsAtomic`: the statements over rows (`KnowledgeStore`, `CommunityStore`,
  `CorpusStore`) number rows by folds and sort.
* `ServicesTypeOK`, which joins the types of parts of which some are proved (`Documents`,
  `Communities`, `Activation`, `Service`) and some are not.

## Not modelled

* Query, apart from DRIFT and Global search: the Basic and Local retrieval read one Epoch and call a
  model; ranking and prompts are data.
  Of DRIFT, `Stream`'s partial flag and the closing of the session are left out.
* The MCP tools and HTTP handlers: they convert arguments and call the applications
  that are modelled. Agent clients: calls of model providers and their retries, whose
  outcome is a choice in every model.
* Project workspace: configuration files and the lock of one service process per
  Project; every model assumes one process, as the lock ensures.
* The memory formula (floating point), chunking, prompts and texts: data. The Zone catalog: a tree of identifiers with create-only rows.
* Integer widths: sequences are int64 rows. Bodies and contents are single values.
  Occurrence times are numbers; their comparison as text is a listed hazard.
* `zone/merger` calls the Corpus and the Knowledge merge one after the other; the two are
  modelled separately.

## Plan

1. Done: every module above; proofs about Journal, ActionRuntime, Dispatcher, ControlPlane,
   Knowledge, Publication, Documents, Corpora, Communities, Service, Memory, Activation,
   ZoneMerge, Vectors, Citations, Drift, GlobalSearch and Detection; three refinements.
2. Proofs next: `StoreSound`, whose statements would have to be written without folds and sorting; the
   types of `Services`.
3. Later: ZoneMerge with references between objects and over its rows; the planning of
   Report contexts.
