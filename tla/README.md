# Brainledge: verification project

Brainledge keeps what an agent or a person has said (episodes), what follows
from it (facts about entities, in a graph that keeps its history) and answers
questions from both. The program is a TypeScript monorepo: `core` (services and
pure logic), `storage` (SQLite repositories), `server` (REST, MCP and worker),
`cli` and `web`. In the standalone profile everything shares **one SQLite file**,
which a server, a worker started on its own, an MCP server on stdio and CLI
commands may have open at the same time.

This directory holds TLA+ models of the parts where interleavings, crashes and
stale reads decide whether the program keeps its promises, TLC instances of
them, and TLAPS proofs. Paths below are relative to `src/packages/`.

## 1. The system

| Component | State | Operations | Interacts with |
|---|---|---|---|
| Job queue: `storage/src/sqlite/sqlite-job-repository.ts`, `core/src/jobs/runner.ts`, `server/src/runtime.ts` | table `jobs` (status, attempts, created_at, claimed_at); each worker's batch, job in hand and abort signal | enqueue, claim (BEGIN IMMEDIATE, 32 attempts), succeed, fail, requeueStaleRunning (only when a loop starts) | REST enqueues; handlers call ingestion, consolidation |
| Ingestion runs: `server/src/http/rest.ts`, `server/src/runtime.ts`, `storage/src/sqlite/sqlite-ingestion-repository.ts` | table `ingestions` (status, idempotency key) | POST with a URL (insert, enqueue) or with a body (insert, running, store, succeeded or failed); the `ingest-url` handler | job queue, ledger |
| Memory and fact ledger: `core/src/memory/memory-service.ts`, `core/src/knowledge/knowledge-service.ts`, SQLite repositories | tables of episodes, evidence, embeddings, facts, entities, lexical index | remember, ingestMarkdown, forget (hide, delete, retract, purge), consolidate, preview, accept | model providers (awaited), every front end |
| Entities and aliases: `storage/src/sqlite/sqlite-entity-repository.ts`, `core/src/knowledge/resolution.ts` | entities, aliases | insert by name-derived id, find by alias | ledger |
| Spaces, grants, authorization: `core/src/auth/`, `storage/src/sqlite/sqlite-space-repository.ts` | spaces, grants | create, patch, delete; authorize (the program wires `localAuthorizer`, which allows everything) | every service |
| Retrieval: `core/src/search/` | none (reads) | candidates, filter of the strategy, token budget, graph paths, context | ledger |
| Reasoning and ontology: `core/src/reasoning/`, `core/src/ontology/` | none | Datalog fixpoint, validation of predicates | none yet |
| Decisions, audit, provenance, RDF | append-only tables (no request writes an audit row) | insert, list, export | services |
| URL safety and fetching: `core/src/ingestion/ssrf.ts`, `server/src/ingest/` | a connection, a timer, the bytes read | validate, resolve and pin, connect, stream under a cap, abort | ingestion handler |
| REST, MCP, CLI | none of their own | parse, call a service, format | services |
| Backup and restore: `cli/src/commands/backup.ts` | database file, sidecars | checkpoint, copy, restore | any running process |
| Web workbench: `web/src/` | one page: selection, lists, review, ingestion poll, what the DOM shows; a canvas with layout, camera and pointer | loads, edits, polls, reviews, graph view | REST |
| In-memory and Postgres storage: `storage/src/memory/`, `storage/src/postgres/` | the same tables by other means | the same ports | services under test; another profile |
| Extension ports, sessions, retention: `core/src/plugins/` | stand-ins | not wired, but for `sessionEpisodes` | recall |

### What is hard

*Two or more processes on one file.* SQLite serialises statements and
`BEGIN IMMEDIATE` blocks; nothing serialises the operations made of them. No
busy timeout is set, so a statement that meets a lock throws at once.

*Awaits.* In one process, the SQLite calls are synchronous. A repository method
that is awaited has already resolved, so a sequence of them is not interleaved
with another request, but an operation that waits for a model or embedding
provider or for a fetch lets everything else run, and what it read before is
stale afterwards.

*No guard on settlement.* `succeed` and `fail` update by id whatever the status
is; `requeueStaleRunning` looks at the age of the claim, not at its holder. That
a job has one holder rests on handlers ending within 60 s.

*Recovery happens once.* A loop requeues stale jobs when it starts and never
again; the embedded loop is never restarted in its process.

*Several statements per operation.* Run and job; forget's hide, query and
retractions; purge's four deletes; remember and its embedding. Each can stop
between two of them.

*One page, many awaits.* The workbench's handlers are async functions over one
module state. An answer is not tied to the space it was asked for, each handler
renders what it changed, and the map is painted two frames later.

*Ids of names.* Entity ids derive from names and are unique over all spaces, but
entities belong to one.

*A file that is copied page by page* while the server may commit to its log or
checkpoint it.

*Re-extraction.* Consolidation extracts from every visible episode each time and
knows only the active facts, so what it does depends on what earlier ones did.

### What makes each part correct

Job queue: one holder at a time, one settlement, nothing left behind.
Ingestion: the status of a run is the truth about its episodes and agrees with
its job; a key stands for one run; an accepted request is not lost. Ledger:
active facts agree, the last thing said wins, history does not change, forget and
purge hold whatever else runs; at every instant a person lives in one place.
Spaces: a request changes the space in its path and no other; every fact has a
source that is shown and a subject that is known. Storage: three adapters answer
alike. Retrieval: the token budget is not exceeded, a path found is a shortest
path. Reasoning: the fixpoint is the least model. Fetching: every run is settled,
and a page is stored only whole and from a checked address. Backup: the copy is a
state the database was in. Workbench: when all is quiet the screen shows what the
page holds (the selected mark of the memory list is left out), and what the page
holds is the server's for the selected space, unless answers came late.

## 2. The modules

```
JobLease (abstract) <-- JobQueueLease (mapping) --> JobQueue <-- Ingestion
                              |                         |             |
                          MCJobQueue            JobQueue_proofs  MCIngestion
                                                        '-- Ingestion_proofs

Beliefs (abstract) <-- LedgerBeliefs (mapping) --> Ledger
                         |           |
                     MCLedger   Ledger_proofs

Stores <-- Spaces <-- MCSpaces              Workbench <-- MCWorkbench
              |                                 |
        Spaces_proofs                    Workbench_proofs

Datalog  GraphPath  Validity  Recall  Intake  Backup  GraphCanvas  <-- MCKernels
   |         |         |        |                |          |
   +---------+----+----+--------+        Backup_proofs  GraphCanvas_proofs
                  |
          Knowledge_proofs
```

`Slip...` definitions in the component modules are not part of the models: each is
a definition after a plausible programming mistake, and each property is tested
against one that it must reject.

### JobQueue

| Model | Code |
|---|---|
| `jobs[j]` | row of `jobs`: status, attempts, created_at, claimed_at; `"absent"` is no row yet |
| `worker[w]` | where one `runStandaloneWorker` / `runQueuedJobs` stands, with the record `claim` returned |
| `clock` | `Date.now()`, one host |
| `Enqueue`, `Claim`, `settle`, `requeueStaleRunning` | the statements of the repository |
| `Start` | start of `runStandaloneWorker`, including its requeue |
| `EndBatch` | `runQueuedJobs` returns: batch full or no queued job |
| `HandlerReturns`, `HandlerThrows` | the awaited handler |
| `Succeed`, `SucceedThrows`, `Fail`, `FailThrows` | `succeed` inside the try, `fail` in the catch |
| `ClaimThrows` | 32 attempts met a lock |
| `Crash` | the process dies, or `close()` ends the database under the loop |

A job of a type without handler (`Unknown`) goes from the claim to `fail`. A loop
in `Embedded` that throws stays `"dead"` until its whole process restarts; one in
`OneShot` stops when the queue is empty. A claim that finds no row leaves the
loop as it is, so it is a stutter.

`JobLease` is what the queue promises: a job is held by one worker, only its
holder completes it, once; a job whose holder died may be offered again.
`JobQueueLease` maps the table and the loops to it.

### Ingestion

Extends `JobQueue` with the `ingestions` table (`run`), the number of times a
request's segments were inserted (`stored`), the API processes (`api`) and where
each `ingest-url` handler stands (`step`). Requests and jobs share ids: the job
of a request carries its run id. `Post`, `InsertRun`, `EnqueueJob`, `MarkRunning`,
`Store`, `StoreRefused`, `CloseRun` and `FailRun` are the statements of the POST
handler, `UrlMarkRunning` to `UrlFailThrows` those of the job handler, each with
its failure. The fetch writes nothing: what it answers is the choice between
`UrlStore` and `UrlRefused`. `accepted` records which runs a client was answered
with, which no table does.

### Ledger

One knowledge space. An actor is a process, or one more operation of a process
whose other operation waits for a provider. A fact is its claim (subject,
predicate, object), source, time and state; `Key` is subject and predicate,
`Functional` the keys of `livesIn` and the like, `Says` what extraction finds in
an episode, in order. `Remember`/`Embed`, `IngestMarkdown`, `Forget` ..
`ForgetEnds`, `Purge` .. `PurgeEmbedding`, and `Consolidate` or
`ConsolidateAccepted` .. `Commit` or `Propose` are the services' statements;
`op[a]` holds what the operation has read and uses later (`known` is
`factsBySpo`, `rows` is `functionalBySp`). `draft` is the table as an open
transaction sees it. hide, delete and retract differ in one column and are one
action. Whether `forget` answered is recorded in `forgotten` and `purged`.

`Beliefs` is what a reader sees: a set of claims that agree with each other,
where new claims displace only rivals on their key. `LedgerBeliefs` maps the active
facts to it.

### Stores and Spaces

`Stores` holds the stores' queries as operators, side by side for the adapters:
`SqliteMatches`, `PartMatches` and `PgSearch` are the three `searchLexical`,
`SqliteFacts` and `MemoryFacts` the two lists of facts, `SqliteInsertEntity` is
INSERT OR IGNORE on an id made of the name, and so on. `Spaces` drives them with
the requests of REST and MCP, each of them one step (a request that waits for a
provider is in `Ledger`), on two adapters at once, and on Postgres for episodes,
which are all it has.

| Model | Code |
|---|---|
| `db`, `mem`, `pg` | the SQLite tables, the arrays of the in-memory adapter, Postgres' `episodes` |
| `Remember`, `IngestMarkdown`, `Forget` | `MemoryService` |
| `Consolidate`, `Preview`, `Accept`; `Candidates`, `applyExtract`, `Persist`, `NameSubject` | `KnowledgeService` |
| `CreateSpace`, `PatchSpace`, `DeleteSpace`, `Decide` | the routes of `server/src/http/rest.ts` |
| `Tool`, `parseMcpProfiles` | `server/src/mcp/profiles.ts`, `server.ts`: what the profiles offer |
| `Known`, `Implemented` | names of profiles, and those that have tools |

What a text says, its words, and which queries occur in it are tables
(`Says`, `Words`, `Parts`, `Holds`).

### Workbench

| Model | Code |
|---|---|
| `page` | the module state of `web/src/main.ts` and `extract-review.ts` |
| `screen`, `drawn`, `frames` | the DOM, the canvas, callbacks waiting for an animation frame |
| `tasks[t]` | an async handler under way, and the await it stands at |
| `net` | fetches asked for, with the space that was selected then |
| `timers` | live intervals of ingestion polls |
| `server` | what the routes read and write, as far as the page tells it apart |
| `SelectSpace` .. `Skip` | event handlers up to their first await |
| `Hear...` | what a handler does with an answer, up to its next await |
| `PollTick`, `RunFrame`, `WorkerEnds` | an interval fires, a frame runs, a run ends at the server |

`Hear` picks any request in flight: answers come in any order. An answer may be
a failure, and a write that failed may have been taken all the same. `Load`,
`Project` and `Join` are the two parallel parts of `loadSpaceProjections`.

`View` is what the screen shows of a page, one field per region; the count of a
list is the list's size. It has the selected mark of the timeline and not the
memory list's, which an inspection or a click on an edge leaves as it was
(`main.ts:219`, `main.ts:143`) until the list is rendered again.

`Now(L)` is what the server has for list L, the selected space and the as-of date,
`Held(L)` what the page holds of it. `hist.misled` are the lists that a late
answer (one asked for before a newer read of the list that has been answered), a
failed read, or an edit whose answer was lost has left other than `Now`, until an
answer leaves them so again (`Misled`).

### GraphCanvas

`web/src/graph-view.ts` after the page's `paintKnowledgeMap`: `Paint` empties the
inspector, `SetGraph` runs two frames later; between the two, and between a
`Resize` and its observer's `Relayout`, everything a pointer can do may happen
(`PointerDown`, `Pan`, `Hover`, `PointerUp`, `PointerCancel`, `Zoom`), as may
`FocusNode`, `FocusNothing` and `Fit`. A hit test is a choice among the nodes and
edges that have a place.

### Datalog, GraphPath, Validity, Recall

`Datalog` is `evaluateDatalog` rule by rule (`BeginPass`, `Derive`, `Pass`),
`GraphPath` is `graphPath` queue step by queue step (`Visit`, `Follow`, `Leave`,
`Exhaust`), `Recall` is `recall` text by text (`Keep`, `Omit`, `AnswerRecall`,
`BuildContext`). `Validity` is a history of facts with `validFrom`, `validUntil`
and `retractedAt` (`Tell` inserts and closes the rivals, `Withdraw` retracts) and
what a query as of an instant sees (`VisibleAt`, `factVisibleAt` in the code).

### Intake

The `ingest-url` handler between its two statements on the run: `CheckUrl`,
`Resolve`, `Connect` to a pinned address, `Respond`, `Close` of the dispatcher
(which waits for the body), `CheckStatus`, `ReadChunk`, `ReadEnds`, `StorePage`
or `Fail`, with the failure of each, the 30 s timer (`Abort`), and a web server
that sends, ends, breaks off or does nothing. `Ingestion` has its outcome as a
choice.

### Backup

`main`, `wal` and `history` are the database file, its log and the contents there
ever were; `Commit`, `BeginCheckpoint`, `MovePage`, `StopServer`, `KillServer`
and `StartServer` are the server and SQLite under it; `CheckpointSqlite`,
`CopyPage`, `BackedUp`, `BeginRestore`, `RestorePage`, `RemoveSidecars` are
`cli/src/commands/backup.ts`, and `KillCommand` ends either half way.

## 3. The runs

| Run (cfg) | Shows | Distinct states |
|---|---|---|
| `queue_exclusive` (JobQueueExclusive) | Two loops (one embedded, one started with once), two jobs, one of unknown type, two faults, handlers within the stale limit: shape, `ExclusiveExecution`, `SettledOnce`, and the refinement of `JobLease` | 154,000 |
| `queue_recovery` (JobQueueRecovery) | Handlers that may outlive the stale limit, and a supervisor that waits `StaleAfter` before a restart: `TakeoverOnlyWhenStale`, `EnqueuedIsSettled` | 97,000 |
| `queue_quick_restart` (JobQueueQuickRestart) | A supervisor that restarts at once: `EnqueuedIsSettled` is **violated** | 26,000 |
| `ingestion` (Ingestion) | One API process, two workers, a URL request, its retry under the same key and a body: shape, `SucceededIsStored`, `StoredOncePerAttempt`, `JobAndRunAgree`, `OneRunPerKey`, `SettledRunIsFinal`, and the composition is a `QueueSpec` | 678,000 |
| `ingestion_lost` (IngestionLost) | A crash between run and job: `AcceptedUrlHasJob` is **violated** | stops early |
| `ledger_solo` (LedgerSolo) | One process, three episodes, six operations, one failure anywhere, previews and accepted proposals: `ActiveFactsAgree`, `HistoryIsFrozen`, `LatestSaidIsActive`, `ForgottenIsSilent`, `PurgedIsGone`, and the refinement of `Beliefs` | 3,193,000 |
| `ledger_shared` (LedgerShared) | Two actors, fewer facts read than active: shape and `HistoryIsKept` | 864,000 |
| `ledger_replay` (LedgerReplay) | Consolidating again: `NothingNewNothingWritten` is **violated** | stops early |
| `ledger_purge_race` (LedgerPurgeRace) | A purge while another actor waits for a provider: `PurgedIsGone` is **violated** | stops early |
| `spaces` (Spaces) | Two spaces, three adapters, four requests of any kind: `SpacesAreApart`, `NoOrphans`, `SubjectsAreKnown`, `AdaptersAgree`, `SearchesAgree`, `PreviewTellsTheFuture` | 218,000 |
| `workbench` (Workbench) | One page, two handlers under way, three clicks or failures: `ScreenAgreesWhenQuiet`, `ListsAreCurrentWhenQuiet`, `NoProposalIsLost`, `LocksHaveOwners`, `NoTimerLeaks`, `SoleRunIsWatched` | 844,000 |
| `kernels` (Kernels) | Seven small machines, one of them in each behaviour: `DatalogIsLeastModel`, `PathIsShortest`, `OnePlaceAtATime`, `RecallFitsTheBudget`, `IntakesEnd`, `BackupIsASnapshot`, `CanvasSettles` | 1,023,000 |

`kernels` is one run for seven machines because they share nothing: `kernel`
says at the start which of them works, and the others rest. Each property
speaks of the variables of its machine alone, so it holds at rest and is checked
where the machine works.

What the passing properties except is what the program does not promise, and
each says it in its formula: a list may be of a space left behind when an older
answer came last (`misled`, `web/src/main.ts:751`); with two runs an older poll
stops the newer timer (`web/src/main.ts:865`); a selection made between a paint
and its frame is told although the new graph has dropped it; a backup that met a
checkpoint may mix two contents; a history told out of the order of the world
may show two places at one time; a fact keeps a source that was forgotten
through another space (`core/src/memory/memory-service.ts:184`); an answer of
recall whose texts repeat, or that nothing is left of, exceeds its budget.

The violated runs are the four findings of `PROJECT.json`:

1. **A job whose worker crashed and came back within 60 s stays running for ever**
   (`server/src/runtime.ts:167`). ADR 0009 says that a crash does not silently
   drop an enqueued ingestion.
2. **A URL request may be accepted on retry although it has no job**
   (`server/src/http/rest.ts:262`): run and job are two statements, and the retry
   is answered with the run whatever it is.
3. **Consolidating again writes facts again**
   (`core/src/knowledge/knowledge-service.ts:112`): once a functional fact was
   superseded, each further consolidation inserts the old and the new one anew.
   The test of that behaviour has one residence only.
4. **A purge does not stop an embedding on its way**
   (`core/src/memory/memory-service.ts:82`). The threat model says purge must
   delete derived embeddings. The same race exists with consolidation.

### Bounds, and why they are enough

Clock: `StaleAfter` is 2 ticks, so that a claim can be fresh, just fresh and
stale; `HandlerLimit` is 1 where handlers are on time and larger than
`StaleAfter` where they are not; `MaxTime` leaves room for a claim, its
staleness, a restart and one more execution. `Batch` is 1, so that the end of a batch
with jobs still queued happens; the proofs cover every batch. Two jobs suffice
to order claims, to hold one while another is settled, and for a queue that is
not empty; one for overtaking. `MaxFaults` and `MaxErrors` count crashes and
failed statements: 1 or 2 puts one at every step, and one on top of another in
`queue_exclusive`. Faults stop where a restart would no longer fit under
`MaxTime`: otherwise the end of time, not the program, would keep a job from
being settled.

Ledger: two episodes that contradict each other, a third that says the first
thing again, and one claim on a key that is not functional: the smallest text
in which moving back, superseding and repeating all occur. `FactLimit` is 1 in
`ledger_shared`, so that consolidation misses facts that are active. `MaxOps`
bounds the operations: six fit a remember of each episode, two consolidations
and a forget.

Spaces: `Stored` is one text that says something, `MaxEpisodes` three, so that a
second text of the same content and one that says nothing are remembered in
either space; four requests fit a remember, a consolidation, a forget through
the other space and one more consolidation. `ListLimit` 2 is reached and passed;
the other limits are not (`ledger_shared` passes that on facts). The queries are a word, two
words of which one is missing, and one without words.

Workbench: two spaces, `Slots` two handlers under way, two stored episodes of
which one is recorded, two more, and three events. An event is what the user does
or what fails; answers are not counted, so that every order of every answer is
explored. The shortest mix-up (two selections, whose loads overtake each other)
takes two events. Before the network goes on, what waits for a
frame is drawn: frames are sixteen milliseconds, and a page that draws late is in
GraphCanvas.

Kernels. Datalog: every program of up to three rules on four tuples, of which three
may be derived, with two passes, so that programs end before the limit, at it, and
before they are done. GraphPath: every
choice among eight facts on four nodes, with cycles, and depths 0 to 3. Validity:
two keys, one functional, three facts, instants 0 to 2. Recall: up to three
episodes with three texts (one empty, one of just two tokens, one of three),
budgets 4 and 3. Intake: `Cap` 2, a transport that holds 3 and a body of up to 4,
so that a body ends below, at and over the cap, and one stalls in the transport.
Backup: two pages, three contents, one kill: enough for a copy with one page
before and one after a commit or a checkpoint. GraphCanvas: two graphs that share
a node, two paints, two sizes; a resize is seen by its observer before the next,
since the observer runs in the same frame.

Deadlock is not looked for: all of these systems may stop, when the clock or the
operations are used up and the queue is empty.

### Fairness

`queue_recovery`, `queue_quick_restart` and `kernels` speak of liveness.
`QueueFairness` is weak fairness of `Tick` (time passes), `Start` (somebody
starts what is down again: `compose.yaml` runs a worker service but sets no
restart policy, so this is the deployment's part of ADR 0009's "survives process
restart"), `Claim` and `EndBatch` (the loop goes on: nothing in it waits for
anything but a timer), the end of a handler, whether it returns or throws
(fetches and model calls give up after 30 s), and `Succeed` and `Fail`. Nothing obliges a fault or an enqueue.
`HandlerReturns` and `HandlerThrows` are fair together, not one by one. Weak
fairness is enough: while one worker has reason to claim, only another worker's
claim can take the job away, and then that one is settled or crashes. The run
that holds has no embedded loop: when the claim of an embedded loop throws, the
loop is gone while its process lives on, and no fairness brings it back
(`server/src/runtime.ts:208`).

`IntakeSpec` is weakly fair to the handler (the process runs, and the resolver
answers or fails) and to the timer of `AbortSignal.timeout`. The web server owes
nothing: `Respond`, `Send`, `End` and `Break` may never happen, and the run is
settled all the same.

## 4. The proofs

All by TLAPS (SMT, Zenon, PTL), for every value of the constants that satisfies
the named assumptions.

**Assumptions.** `QueueConstants`: `NoJob` is no job, `Embedded`, `OneShot`,
`Unknown` are subsets, `Batch` and `StaleAfter` are positive.
`IngestionConstants`: URL requests are requests, `NoRequest` is none, and the one
job type of the composition has a handler. `NoWorkerIsNone`.
`BackupConstants`: pages are numbered from one without a gap. `CanvasConstants`:
graphs have nodes, and `Nothing` is none of them. `DatalogConstants`: tuples are
finitely many. `ValidityConstants`: `Unset` is no instant. `GraphPathConstants`:
facts are edges, and "no path" is no path. `RecallConstants`: texts have lengths,
and what is stored is a sequence of episodes. `LedgerConstants`,
`WorkbenchConstants`: nobody is no actor, space or episode, what is said is a
sequence of claims, and the default space exists. `StoresConstants`,
`SpacesConstants`: a word of a text and every token of a query that occurs in it
occur in the text; limits are numbers; extraction finds a claim or none in each
text. Theorems that need more say so: `HandlerLimit < StaleAfter` (handlers end before their claim is
stale: an assumption about deployments which the code does not enforce),
`IsFiniteSet(Workers)`, one API process.

**JobQueue_proofs.** `QueueTypeCorrect`: shape. `TakeoverCorrect`, without any
assumption on handlers. `TakeoverOnlyWhenStale` compares two loops and is not
inductive: a third loop's claim or a requeue changes the row that links them.
`LeaseInv` adds, for each loop with a job in hand, how its claim stands to the
row: either it is the row's last claim, and the row is queued only when that claim
is stale, or the row was claimed again at least `StaleAfter` later. A claim
starts on a queued row, so every other claim on it is stale. `ExclusiveCorrect`
and `SettledOnceCorrect` add `InTime` (nobody has had its job for longer than
`HandlerLimit`, the guard of `Tick`): with `HandlerLimit < StaleAfter` no row in
hand is stale, so no requeue takes it (`TimelyInv`).

`LeaseImplemented`: every step of the queue maps to a
step of `JobLease` or a stutter, from `TimelyInv`: exclusiveness makes the holder
unique, so that the `CHOOSE` of the mapping is the loop that takes the step.

**Ingestion_proofs.** `IngestionIsQueue`: the composition implements `QueueSpec`,
so everything above holds of it; from `ApiInv`, what an API process has in hand.
On it rest:

- `IngestTypeCorrect` (`Shape`).
- `SucceededIsStoredCorrect` (`StoredInv`): whoever is about to close a run has
  stored; needs nothing of the timing.
- `StoredOnceCorrect`: `PendingInv` counts the handlers that have still to
  store: stored + pending <= attempts. Attempts grow when one is added, and a
  store removes one, so the sum is kept even when several executions overlap.
  `OnceInv` is the half without jobs.
- `OneRunPerKeyCorrect` (`KeyInv`): a request on its way to its insert still has
  its key to itself; with two API processes this is false.
- `JobAndRunAgreeCorrect` (`AgreeInv`) and `SettledRunIsFinalCorrect`: from
  `RunInv` (no two requests in hand are the same; a run is inserted once, before
  its job) and `TimelyInv`: the run of a job in hand is written by its holder
  only.

`RunWriters` states once who writes a run, and the last three results use it
instead of the list of actions.

**Ledger_proofs.** `LedgerTypeCorrect` and `HistoryIsKeptCorrect` hold of any
number of overlapping operations. `LedgerInv`: the open transaction's draft is
the table with rows added or closed (`LockInv`), what an operation holds in
`rows` was in the table when read, and no id is given twice (`IdsInv`).

The other properties are false of two overlapping operations (the run
`ledger_purge_race` shows one of them) and are proved for `Alone`, one actor:
one process whose operations do not overlap, each of which may stop anywhere.
The code reads facts with limits, 500 in `forget` and 200 in `consolidate`, and
promises nothing of what lies beyond. So they assume `[]Roomy`: the active facts
never outnumber what the two queries return. That is a condition on the state of
the table, which `FewClaimsAreRoomy` derives for a constant condition: when no
more claims are ever extracted than the limits, since active facts have distinct
claims. `SmallLedgerCorrect` puts it together: no hypothesis on the behaviour is
left. `PurgedIsGoneCorrect` needs no `Roomy`, a purge deletes by source without
a limit; `LatestSaidIsActiveCorrect` needs `[]Listed` besides, that no more
episodes are shown than a consolidation reads.

- `ActiveFactsAgreeCorrect`, `HistoryIsFrozenCorrect`, `LedgerImplementsBeliefs`
  rest on `SoloInv`: active facts agree in the table and in the draft; what a
  consolidation holds (`known`, `rows`) is exactly the claims and functional rows
  active in the draft (`MapsInv`), which is where `Roomy` enters; the rows not
  active are those of the table as the transaction found it (`DraftInv`); the
  rows `forget` has still to write are facts of its episode (`RetractInv`).
- `ForgottenIsSilentCorrect` and `PurgedIsGoneCorrect` rest on `SourceInv`: a
  forgotten episode has no active fact and a purged one no trace, unless a client
  accepted an old proposal; a purge half way has deleted what it passed
  (`PlaceInv`); a consolidation on its way reads visible episodes only
  (`HeldInv`), so nothing it writes is of a forgotten one.
- `LatestSaidIsActiveCorrect` rests on `OrderInv`: of the claims a consolidation
  has looked at, the last on each functional key and all on other keys are active
  in the draft. Claims are taken in the order of `Precedes`, a strict order
  because times of observation differ (`ClockInv`).

**Knowledge_proofs.** The four machines that compute an answer; each loop has the
invariant that its programmer had in mind and the one that makes it inductive.

- `DatalogCorrect` (`DatalogIsLeastModel`). That what is derived follows is
  inductive (`Sound`). That all that follows is derived needs two more facts.
  `Counted`: every pass that changed something derived a tuple, so passes are at
  most one more than the new tuples, which are at most the derivable ones; hence
  the limit is met only after a pass without change. `Settled`: such a pass leaves
  no rule behind that would add something.
- `OnePlaceCorrect` (`OnePlaceAtATime`). `OneActive`: of a functional key no fact
  but the last is active. `InOrder`: of a key told in the order of the world each
  fact ends no later than the next one starts, and none starts after `frontier`.
  Out of order only the first is true, which is why no two facts contradict each
  other and yet two may be visible.
- `PathCorrect` (`PathIsShortest`), for any graph, depth and two nodes. `Chains`:
  every path queued, at hand or answered is made of facts, and no fewer links lead
  to its end. `ByLength`: the queue holds paths of one length and then paths one
  longer. `Covered`: a node once seen is still queued, or at hand, or led to
  nothing new, or lies at the limit of the depth. From the last two, `LevelsSeen`:
  when a path is taken from the queue, every node that fewer links lead to has been
  seen, so a node seen for the first time is reached by as few links as can be, and
  an empty queue means that nothing leads to the goal. `Levels` gives the recursion
  that the reference definition `Within` is.
- `RecallCorrect` (`RecallFitsTheBudget`). `LoopInv` is the invariant of the loop
  of `tokenBudgetTrim`: each text before the cursor is kept if and only if it fits
  beside those kept before it (`TrimInv`). `CostOfOneMore` says that the sum of a
  set of estimates grows by the estimate of what is added, whatever the order in
  which the recursion takes the members. `Answered`: the texts kept for an answer
  explain it as long as the answer is there, also while `buildContext` trims anew.

Two lemmas stand for inductions the library states with an operator as parameter:
`LeastNatural` (a set of numbers has a least one) and `SubsetInduction` (a family
of subsets closed under one more member has them all).

**Backup_proofs.** `BackupCorrect` (`BackupIsASnapshot`). `Checkpointing`: half
way through a checkpoint, pages not to be moved are what they will be and the
others are still in the log, so that moving one shows in no content. `Durable`:
but for a restore, the content is the last committed one. `Copied`: the pages
copied so far are the file's, and the file is one content of the history, as long
as no checkpoint moves pages.

**GraphCanvas_proofs.** `CanvasCorrect` (`CanvasSettles`). `Fitting`: a layout of
another size waits for the observer, and a camera that fits is of the size the
layout has. `Telling`: while a frame is due the inspector is empty, unless a
selection was made meanwhile. Every selection by pointer or search is one lemma,
`SelectionKeeps`.

**Workbench_proofs.** `WorkbenchInvariant`, for any number of handlers under way,
clicks, spaces and episodes, whatever is answered late or not at all. The one
assumption is that slots are numbers, since the model gives a handler the least
free one. `WorkbenchInv` is inductive; a step of the page is an answer to somebody,
so nothing can be said of it without saying who waits for what:

- `NetOk`: a handler waits only for what it asked (`Fits`), two questions are
  beside each other only where the code has a `Promise.all` (`Beside`), and the
  handler of a question is not a free slot. `Outcome` states once what an answer
  does to its handler: it goes on, finishes, waits for the others, or loads.
- `LockInv`: `busy` is held by the one extraction or acceptance under way,
  `loading` by a handler that loads. From it `LocksHaveOwnersCorrect`.
- `WatchInv`: timers and polls are of runs that were started, no interval runs but
  `page.timer`, and that of a sole run runs until the page has heard its end or a
  poll failed: `NoTimerLeaksCorrect`, `SoleRunIsWatchedCorrect`.
- `ReviewInv`: an acceptance of all has the whole review in hand, and one that has
  been answered and loads is settled: with `LockInv`, `NoProposalIsLostCorrect`.
- `ScreenInv`: the lists, the facts and the map are those of the page, but for
  what a handler that loads or reads a date has still to show, and for the frames
  not yet painted: `ScreenAgreesWhenQuietCorrect`.

`CurrentInvariant` adds what the lists and the server need of each other:

- `ListsInv`: each list is `Followed`. It will be asked for again (`Will`: the
  shelf, the memories or the facts are still under way), or its newest read is on
  time and brings what agrees with the server (`FreshIn`, `Agrees`), or every read
  of it is late (`LateIn`), or an edit was lost, and the page either holds what
  agrees with the server or was misled. `HeardAs` says once what an answer asks next
  (it loads again, projects, falls back, names the facts, or rests), `UserAsks` what
  a click asks; `HearLists` and `UserLists` go over these cases. A step that changes
  what the routes answer is a lost edit, or starts a load, or adds episodes of a run
  that no poll has told of, which `Agrees` leaves out (`OutcomeTold`, `AgreesKept`,
  `WorkerCurrent`).
- `ServerInv`: an episode of no space is as if it had never been, a run the page has
  seen end has ended, requests are about spaces that exist, no poll tells the end of
  a run that goes on, and each submission under way has an episode left (`RoomInv`),
  so that what it stores overwrites nothing. That the page cannot have seen the end
  of a run that still is queued is what makes the worker's step one that adds to the
  runs not told of.

When all is quiet no handler waits, so no request is out and only the third
disjunct of `Followed` is left: `ListsAreCurrentWhenQuietCorrect`. What this says
is that edits, polls, selections and dates each end in a read that saw them, however
handlers overlap; which lists it excuses is for `Misled` to say. The code does leave
such lists: select a space whose memories are slow, create another, and the answer
for the first comes last and stays (`web/src/main.ts:718` does not ask which space
is selected by then). `PromptListsAreCurrent` states where none is excused: if
every request is answered, and none after a newer read of the same list
(`PromptSpec`), all four lists agree with the server when all is quiet. Its
invariant is `CurrentInv` with `hist.misled` empty, which needs that no load falls
back (`PromptStage`).

**Spaces_proofs.** For any spaces, texts, limits and requests.

- The loop of `applyExtract` is a recursive function on the candidates. `Loop`
  gives its turns, `EveryTurn` the induction over them, `Persists` and `Previews`
  what one turn does on either adapter. `TurnInv` is the loop's invariant: what was
  added is of this space, current, of a claim that was not held, said by a
  candidate, about a subject with a name, and under an id of its own.
- `SpacesAreSound` (`SpacesInv`): the adapters hold the same episodes, evidence
  and decisions, ids are distinct, there is one entity of each name with an alias,
  and each fact is about one. The orders of the queries are strict on rows with
  ids of their own, so `SortedIs` says what `Sorted` answers. From it
  `SubjectsKnown`, `SearchesFind` and, with what each request does to each table,
  `ApartThroughout`.
- `NoOrphans` and `AdaptersAgree` are false where a space has more current facts
  than consolidation (200) or forgetting (500) reads: SQLite reads the newest, the
  array the oldest, so that the adapters find other claims held and other facts to
  retract. As in `Ledger_proofs` they are proved under `[]Roomy`, by `RoomyInv`:
  the facts and entities of both adapters are equal (`SameFacts`), no space states
  a claim twice (`Apart`), and facts are `Sourced`. Equal facts stay equal only
  while both adapters read the same claims as held, which is where `Roomy` enters;
  and forgetting reaches every fact of its episode. `FewClaimsLeaveRoom` derives
  `[]Roomy` when there are no more claims than the limits (from `Apart`: distinct
  facts have distinct claims), and then no hypothesis on the behaviour is left
  (`FewClaimsAgree`).
- `PreviewsTellTheFuture`: a preview and the run that writes agree on what they
  know after each candidate (`Agree`), so the proposals are the same. Given its
  own proposals, extraction keeps up with itself (`KeepsUp`): a candidate already
  known writes nothing, since its subject has a name (`Settled`), and one that is
  not known is the next proposal. Afterwards every candidate is held.

**Only model-checked.** `EnqueuedIsSettled` and `IntakesEnd` (liveness under
fairness is out of the prover's reach).

## 5. Not modelled

- *Authorization*: the program wires `localAuthorizer`, which allows everything.
  The database authorizer, delegations and private visibility are exported, and
  no request reaches them.
- *Extension ports, retention, manifests* (`core/src/plugins/`): stand-ins that
  nothing wires up; a model would be of a program that does not exist.
- *Vectors*: cosine scores are floating point. The embeddings' rows are in
  `Ledger`.
- *Geometry of the graph view*: layout by forces, hit tests, curves and colours;
  where it matters what a press hits, it may hit anything. Disclosure toggles and
  the highlights that graph-fit clears.
- *Text*: extraction of claims, html-to-text, the rule language, ontology checks,
  the text of addresses, and the parsing, validation and formatting of REST, MCP,
  CLI and RDF. Where the outcome matters it is a table or a choice.
- *Model providers*: an answer or a failure, some time later.
- *The blob store and Postgres' connections*: the standalone program uses neither.
- *Which space a proposal belongs to* once another space was selected: the
  workbench model takes the step, but no document says what it should do.

`PROJECT.json` lists, per hazard, the properties that cover it or why none does.

## 6. Plan

Done: JobQueue, JobLease, JobQueueLease, Ingestion, Ledger, Beliefs, Stores,
Spaces, Workbench, the seven small machines, and the proofs above.

Next, in this order:

1. A specification of a space as a memory of its own, which `Spaces` implements
   but for the exceptions of `SpacesAreApart`.
