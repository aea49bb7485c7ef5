# Personal Knowledge OS in TLA+

A model of the Personal Knowledge OS server: what it does to its PostgreSQL
database when requests, background workers, crashes, timeouts and retries
interleave. TLC checks small instances; TLAPS proves the main results for every
value of the constants. `PROJECT.json` lists runs, mutants, the map from
definitions to source lines, findings, hazards and theorems.

## The system

One Rust server (`src/src/`) serves an HTTP API and runs, in the same process,
one background worker; several processes may share a database. A small Node
gateway (`src/mcp/`) turns MCP tools into HTTP requests. All state is in the
database (`src/migrations/`).

| component | code | state | operations | what is hard |
|---|---|---|---|---|
| Job queue | `storage.rs` lease_jobs, complete_job, fail_job; `worker.rs` run; `main.rs` | `jobs`: status, attempts, available_at, lease_until; in memory the batch of each worker | enqueue, lease a batch, complete, fail with back-off, terminal failure | leases that expire under their holder, crashes, late reports, errors in the loop itself |
| Memory lifecycle | `storage.rs` create_memory_candidate, approve_memory, reject_memory; `api/memories.rs` | `memories`, `memory_evidence`, `audit_log`, embed_memory jobs | create, approve (perhaps superseding), reject, reinforce | races of approvals over row locks, statements that are not one transaction, a CHECK that refuses some supersessions |
| Extraction | `memory_extraction.rs` process_source | local variables of a run between its statements | list, call the model, then per proposal find, reinforce, resolve, create, approve | check-then-act across statements, at-least-once delivery, an answer that differs every time |
| Ingestion | `api/capture.rs`, `api/sources.rs`, `storage.rs` ingest_source | `sources`, `chunks`, `jobs`, `audit_log` | one transaction per event | clients that time out and send again, the unique index waiting for uncommitted rows, cut-off requests |
| Knowledge graph | `api/graph.rs`, `storage_graph.rs` | `entities`, `entity_aliases`, `relations` | create entity and relation, close a relation, read a graph as of an instant | overlapping closes, reads by two statements, ends of intervals |
| Timeline | `api/timeline.rs`, list_timeline | none | a page before a timestamp | ties, ingestion between pages |
| Retrieval | `retrieval.rs`, `api/search.rs` | `retrieval_runs` | lexical and dense search, fusion, fallback | a provider that fails half way |
| Embedding | `embedding.rs`, `worker.rs` process | `chunks.embedding`, `memories.embedding` | embed a chunk or a memory | rows that changed since the job was queued |
| Chunking | `chunking.rs` | none | split a text | progress and coverage at the bounds |
| Gateway | `mcp/src/` | none | remember, capture, search, read | its own timeout, shorter than the server's |
| Authentication, configuration, router, start-up | `auth.rs`, `config.rs`, `lib.rs`, `error.rs`, `main.rs` | none | per request, or once | the 30 second timeout of the router drops a handler anywhere |

How they interact: ingestion and approval insert rows into `jobs` in their own
transactions; workers lease them and call extraction, which uses the same
storage operations as the HTTP API; both write `memories` at the same time.
Nothing but the database is shared.

What makes each correct, in one line: a job is one worker's at a time and is
settled once and for good; memories form chains in which each has at most one
successor, and history stays; a fact is one memory and activates only on
sufficient evidence; an event is stored once and whole; the past of a relation
does not change; a page, a search and a chunk list miss nothing.

## The modules

| module | what it models |
|---|---|
| `JobQueue` | the jobs table and the workers that drain it, with time |
| `ExclusiveQueue` | what the queue promises: exclusive ownership, no time, no leases |
| `MemoryStore` | the memories, their evidence and audit records; one action per transaction or autocommit statement |
| `MemoryTx` | `MemoryStore` with approve_memory statement by statement: row locks, waiting, rollback |
| `Extraction` | runs of process_source on top of `MemoryStore`, statement by statement, with the users of the HTTP API |
| `Capture` | ingestion and its clients, statement by statement inside the transaction |
| `AtomicIngestion` | what ingestion promises: a request takes effect at one instant or not at all, no statements |
| `KnowledgeGraph` | entities, relations, closes with row locks, graph reads |
| `AtomicGraph` | what the graph promises about closes: each takes effect at one instant, no statements, no locks |
| `Embedding` | the rows a search can find, and the jobs that give them vectors, step by step |
| `Retrieval` | one search on top of `Embedding`, query by query: fallback, degradation, fusion |
| `Chunking` | the loop of chunk_text, a window a step |
| `MC...` | small instances: constants as functions, symmetry |
| `...Proofs` | theorems about the module they are named after |

`Extraction` EXTENDS `MemoryStore` and uses its actions; `MemoryStore` is at the
same time the abstract specification that extraction implements (`UsesStore`:
a worker's step is one of the store's operations or leaves the store alone).
`MemoryTx` EXTENDS `MemoryStore` too and implements it (`ImplementsStore`), so that
taking an approval as one step, as the other modules do, is justified.
`JobQueue` implements `ExclusiveQueue` under the mapping `Abstract`, `Capture`
implements `AtomicIngestion` and `KnowledgeGraph` implements `AtomicGraph`, each
under a mapping `Atomic`; the three abstract modules stand for no lines of the code,
and are not in the map. `MemoryStore!Search` is `Embedding` seen from the store:
`SearchSeesApprovals` says that the approvals of the one are those of the other.
`Retrieval` EXTENDS `Embedding`: rows come, are superseded and get vectors between
the queries of a search.

### Correspondence

**JobQueue.** `status`, `attempts`, `wait` (available_at) and `lease`
(lease_until) are the columns; times are countdowns relative to now(), so that
`Tick` lets them run down. `held[w][j]` is the attempts number of the JobRecord
worker `w` has in its batch, `busy` the time it has spent on the job in hand,
`up` whether worker::run still runs. `Lease` is one turn of the loop with a
batch, `Complete` and `Fail` a processed job and its report, which name the row
by id alone, as the code does. `Restart` is a process that dies and comes back;
`DbError` is an error of a queue statement, which leaves run by `?` and ends the
worker, with the statement applied or not. Every statement is a step of its own;
SKIP LOCKED makes overlapping leases behave as if one came after the other.

**MemoryStore.** A row is `status`, `statement` (normalised), `score` (does it
pass the two thresholds), `validFrom` (unset, past or future), `supersedes`,
`recurrence`, `closed` (valid_until is set), `evidence`, `audit`. `Approve` is
the whole transaction with its locks; `RejectRow` and `RejectAudit` are the two
statements of reject_memory, `AddEvidence` and `Recur` those of
reinforce_existing_memory. `unaudited` and `owed` say which second statements
are outstanding; with `Lossy` they may be lost.

**MemoryTx.** `stage[h]` says how far the transaction of handler `h` is: begun,
its candidate locked by SELECT ... FOR UPDATE, or ready, with the superseded row
updated and locked. A statement that finds its row locked by another transaction is
not enabled, and decides on the committed row afterwards (READ COMMITTED); the
UPDATE of the superseded row waits only for one that is active, since the WHERE
leaves others alone. Uncommitted changes are invisible, so the statements after
the last lock are part of `Commit`. now() is the time of BEGIN: `later[h]` are the
memories whose valid_from lies after it, which the CHECK refuses to supersede, and
`since[h]` the transactions that began before `h`. `Abort` is a failing statement or a
cancelled request, whose transaction rolls back.

**Extraction.** `pc[w]` is the next statement of process_source for worker `w`;
the other variables are its locals. The answer of the model is any sequence of
at most `MaxProposals` proposals; those validate_candidate drops leave no trace.
`StartJob` includes the reading of the source and of the active memories and the
call of the model, none of which writes anything. What was read binds the answer to
nothing: a proposal may ask to supersede any memory there is, as resolve_supersedes
takes any id, so memory_context_limit makes no difference here. A proposal is taken
from the answer (`Take`) in one step with the SELECT of find_existing_memory.
`Resolve`, `CreateCandidate` and `ApproveMemory` are statements or transactions of
their own, and the last checks again. `CutOff` is an error or a crash anywhere. The
queue appears as at-least-once delivery: a job is started until a run of it ends
well, by two workers at once if the queue lets them.

**Capture.** `pc[h]` is the next statement of the request on connection `h`,
`draft[h]` its uncommitted rows. `InsertSource` is a conflict when a committed row has
the key, and is not enabled while another transaction has an uncommitted one:
that is the wait of a unique index. `GiveUp` is the client's timeout (20 seconds
in the gateway), unnoticed by the server; `Drop` is everything that ends a
handler early, also when COMMIT was already sent and took effect. For
`AtomicIngestion` a request is open while it runs its statements (`Outcome`), and
takes effect when it commits or finds its key taken.

**Chunking.** `start`, `chunks` and the bounds of the last window are the variables
of the loop, `Window` one turn, `Return` the end. A character is a letter, a
blank, a line end or a full stop, which is all that the search for a cut and trim
tell apart; positions are those of the code. `MinTarget` is 128 in the code.

**KnowledgeGraph.** `row[r]` is the committed relation; `lock[r]` the
transaction that has updated it and not ended. `Update` evaluates the WHERE
clause on the committed row; when the row is locked, it waits and evaluates
again (READ COMMITTED). `before` remembers the rows at the start of a read, for
the property only. `PostRelation` is a request with the checks of its handler,
`CreateRelation` the transaction; the table's CHECKs are those of `Rows`. For
`AtomicGraph` a close is open while it runs its statements (`Outcome`, `Asked`), and
takes effect when it commits or finds that it cannot; graph reads are not seen there.

**Embedding.** `status[r]` is absent before the transaction that makes the row
visible, then live, and for a memory perhaps superseded; `Approve` is that of
`MemoryStore` seen from here: who is active, and the job. `lineage[m]` are the
memories `m` stands for. `job[r]` is where the row's job stands: queued, at one of
the statements of the handler, done or failed. `Fail` is an error that goes to
fail_job, `Crash` a worker that dies.

**Retrieval.** `pc` and `kind` name the next query of the search, `lexical` and
`dense` are the lists it has so far, which the code adds up in `merged`. A query
returns any ranking of the rows it may see (`Rankings`), so that every score is
possible. Scores are compared as exact fractions, and the order of equal ones is
left open; for ranks up to 200 different fractions are much further apart than the
rounding of f64. `before` and `embedded` remember the rows at the start, for the
properties only. The dense queries are taken as exact, though the vector index the
migrations create may be approximate. The row in `retrieval_runs`, whose failure is
ignored, and refused requests are left out.

Operators under a comment "Seeded fault" are variants of the operator after them
with a plausible bug. The specifications do not use them; substituting one must
make the property named in `PROJECT.json` fail.

## What the runs show

| run | instance | shows |
|---|---|---|
| `JobQueue_safe` | 2 workers, 3 jobs, batches of 2, lease = batch x job time, 1 restart, 1 database error | exclusion (`LeaseInv`), `AttemptsBounded`, `TerminalStable`, `LeaseRespected`, and the refinement `ImplementsExclusiveQueue` |
| `JobQueue_deployed` | the same with a lease shorter than a batch, as with the defaults (8 x 45 s against 60 s), 1 restart | leases are lost under their holders, yet `FreshAttempt`, `NoEarlyFailure`, `ReopenedAfterTakeover`, and `EventuallySettled` under fairness |
| `JobQueue_worker_stops` | 1 worker, 1 database error | violation of `EventuallySettled` |
| `MemoryTx_locks` | 2 approvals at a time of 3 memories, creations, rejections, aborts, valid_from in the future | `ReadsHold`, `NoDeadlock`, `OneSuccessor`, `HistoryHasOrigin`, `ValidityMatchesStatus`, and the refinement `ImplementsStore` |
| `MemoryStore_reject` | 1 memory | violation of `RejectionAudited` |
| `Extraction_one_worker` | 1 worker, 3 memories, 2 statements, 2 sources, every job started up to 3 times, cut off anywhere | `OneMemoryPerFact`, `ActivePassedThresholds`, `CheckedProposalsActivate`, `EvidenceCounted`; while no run was lost, also `NoCandidateLeftBehind` and `ActivatedOnEvidence` |
| `Extraction_shared` | 2 workers, users, 2 memories, 2 sources, every job started up to twice, cut off anywhere | `RecurrenceBacked`, `HistoryKept`, and the refinement `UsesStore` |
| `Extraction_keep` | low-score candidates kept for review | violation of `ActivePassedThresholds` |
| `Capture_retries` | 3 clients, 2 with the same event and 1 without a key, 2 connections, 2 chunks, 2 faults | `OneSourcePerEvent`, `WholeSources`, `AnswerIsTrue`, the refinement `ImplementsAtomicIngestion`, and `EventuallyStored` under fairness |
| `KnowledgeGraph_history` | 1 relation, 2 entities, 3 instants and NULL bounds, 2 handlers, 3 requests | `EarliestCloseStands`, `PastKept`, `ReadIsCurrent` |
| `Retrieval_concurrent` | 1 chunk, 2 memories, results limited to 2, a candidate limit below that, PGroonga that may fail and matches more than ILIKE, a provider, 2 attempts, 1 fault | `DoneIsEmbedded`, `GivenUpAfterRetries`, `HitsWereLive`, `MissesNothing`, `AgreementDecides` |
| `Chunking_texts` | every text of up to 7 characters, and of up to 13 letters and line ends, least target 4, 2 targets, 3 overlaps | `PhrasesWhole`, `FewWindows`, `NoChunkInAnother` |

Most runs set `CHECK_DEADLOCK FALSE`: their behaviours end when the bounded ids, runs or
requests are used up. Time in `JobQueue` never ends, and deadlock is checked there.

### Bounds, and why they are enough

- Two workers suffice for everything that is about a pair: a job in two batches,
  a late report, two counts. Batches of two have a second lease that can expire
  during the first job, and a third job makes the LIMIT and the order of
  lease_jobs matter; `MaxAttempts = 2` gives a first, a last and a too-late
  attempt. `MaxRestarts` and `MaxDbErrors` bound a fault, not the system.
- Three memories give a chain of two supersessions, and a cycle or a fork if there
  could be one. Two approvals at a time cross in every way a pair of locks can;
  longer circles of waiting are excluded by the proof. One score and one source are
  enough there, since approve_memory looks at neither. Two sources give a
  reinforcement and its redelivery.
- In `Extraction_one_worker`, three runs of a job are a redelivery that fails too,
  and two sources let one meet what a lost run of the other left behind. Two
  proposals let one answer contradict itself. In `Extraction_shared`, two runs of a
  job are both workers at it at once, or one after the crash of the other; with one
  proposal in an answer, the second run finds what the first one did to the fact.
- Two clients with one event and two connections overlap in every way a pair
  can; the third client shares the connections and has no key. Two faults allow
  a timeout and a cancelled request. With four ids no delivery runs out.
- Two memories are one supersession, the thing that can happen between two queries;
  with the chunk they make three rows for an answer of two, so that some answers are
  full, some are cut and some are not full. Three rows in four lists give every pair
  of rankings of two rows. A single fault covers each step of a handler; with two
  attempts, giving up needs one more, so `GivenUpAfterRetries` is tight.
- A least target of 4 makes windows with a second half of two characters, and
  texts of 13 take four windows and more; whether the code's 128 behaves alike is
  what the proof says. The overlap 9 exceeds half a target and is clamped.
- Relations do not interact (locks and conditions are per row), so one relation,
  with three requests and three instants, has every order of close, close and
  read; both entities of it are read.

### Divergences the runs exhibit

1. An error of a queue statement ends the worker for good while the server goes
   on serving (`JobQueue_worker_stops`).
2. reject_memory audits in a second statement outside a transaction
   (`MemoryStore_reject`).
3. With `memory_keep_unpromoted_candidates`, a proposal above the thresholds
   activates a stored candidate below them (`Extraction_keep`).

Seen while modelling, and stated as conditions of the properties or by the constants
of a run: a worker whose lease expired reports by job id alone and may put a job
that another worker marked failed back into the queue, or mark it done (it takes two
processes and a batch longer than a lease, which the defaults allow;
`TerminalStable` is checked with safe timing, and `ReopenedAfterTakeover` says what
is left without it); a model answer whose last `}` precedes its first `{` makes
parse_extraction panic, which ends the worker as a database error does; two workers
insert the same fact twice (find_existing_memory and the insert are not one
transaction; `OneMemoryPerFact` is checked with one worker); a candidate adopted
from another source's lost run is activated without the adopting source among its
evidence (`ActivatedOnEvidence` says so only while no run was lost); an active
memory with a valid_from in the future cannot be superseded yet, and the extraction
that tries fails on every retry (`CheckedProposalsActivate` excepts it); a crash between the
two statements of reinforce_existing_memory loses the count for good, as the retry
finds the evidence there (`EvidenceCounted` allows it for a source that lost a run).
`close_relation` accepts a second, earlier end for a closed relation; the earlier
end stands.

## Fairness

`JobQueue!Fairness`: time passes (`Tick`), and the loop of a worker that has not
returned goes on leasing and reporting. The code justifies it: run is a loop
with a sleep, and every provider call in a handler has a timeout. Each restart
brings a worker back. Nothing is assumed about which job is picked; created_at
decides.

`Capture!Fairness`: the server goes on with each request it can go on with
(a statement waiting for the unique index cannot), and a client that was not
answered sends again. The second is a duty of the client, which the README of the
program asks for ("stable event IDs so retries are idempotent"); the program
itself has no retry. Faults are bounded, so in the end a delivery is not disturbed.

The other specifications state safety only.

## What is proved

By TLAPS, for all values of the constants that satisfy the named assumptions of
the modules:

- **JobQueue.** `TypeCorrect`, `FreshAttemptCorrect`, `NoEarlyFailureCorrect`,
  `ReopenedAfterTakeoverCorrect`: no assumption on timing. `LeasesExclude`,
  `SoleHolderCorrect`, `TerminalStableCorrect`, `LeaseRespectedCorrect`,
  `QueueImplementsExclusiveQueue`, `AttemptsBoundedCorrect`: under `Exclusive`, that
  is, when a lease lasts at least as long as a batch takes (`SafeTiming`) or there
  is a single worker process. The invariant is `LeaseInv`: a job in a batch is
  running under the number its worker was handed, in no other batch, and its lease
  outlasts the work left in the batch. Without the last part exclusion is not
  inductive: nothing would keep another worker from leasing a row whose holder is
  late. `BudgetInv` adds that a waiting job has an attempt left unless a worker
  died. `ContractExcludes`: the abstract queue alone implies `SoleHolder` and
  `TerminalStable`, so a reader can rely on `ExclusiveQueue` and forget the leases.
- **MemoryStore.** `OneSuccessorCorrect`, `HistoryHasOriginCorrect`,
  `ValidityCorrect`, `RecurrenceCorrect` and `HistoryKeptCorrect`, with `StoreInv`.
  That the history is a chain with an origin (no set of memories supersedes in a
  circle) needs `OneSuccessor`: approval makes a candidate, which has no
  successor, point to an active memory. The counts need `NewRowEmpty`.
  `CurrentVersionCorrect`: a memory that was ever active is active or has an active
  later version, so that no sequence of approvals loses a fact. `Lineage(m)` is the
  least set that goes back from `m`; an approval adds the set of the predecessor to
  that of the new version and changes no other (`ApproveLineage`), because nobody
  supersedes a candidate (`OneSuccessor`). `SearchSeesApprovalsCorrect` uses the same
  lemma: what `Embedding` takes as one step, with the lineage growing and the job
  queued, is what a step of the store does. These two properties are in no run; TLC
  agrees on them when they are added to `MemoryTx_locks`.
- **MemoryTx.** `ReadsHoldCorrect`, `NoDeadlockCorrect` and `StoreImplemented`, for any
  number of approvals at a time, with `TxInv`: a handler holds exactly the locks of
  the rows it has read (`LocksMatch`), and so what it read stays true (`ReadsHold`).
  There is no deadlock because a handler that waits for its candidate
  holds nothing, so that nobody waits for it, and one that waits for an active row
  waits for a handler that holds it as its second row, and that one waits for nobody.
  `LocksKeepHistory` carries what is proved of the store over, `CurrentVersion` and
  `SearchSeesApprovals` included.
- **Extraction.** `ExtractionUsesStore`: with any number of workers, users and
  faults every step is a store step or a stutter, from an invariant on the locals of
  process_source (`LocalInv`); so all that is proved of the store holds
  (`ExtractionKeepsStore`). `ThresholdsHold`: with auto-promotion on, review off and
  no user, nothing becomes active below the thresholds. `EvidenceCountedCorrect`:
  for any finite number of workers and no users, an active memory misses no more
  counts than sources of it lost a run or are being counted. It needs that what is
  lost stays lost (`RunsInv`: a run that was started is under way, ended well or was
  lost), and that a worker only counts for a memory that was active, so that its
  UPDATE misses a superseded one at most (`CountInv`). The run has one worker; TLC
  agrees with two workers and three sources, without users.
  `OneMemoryCorrect` and `CheckedCorrect` assume `Sole`, a single worker and no
  users, as the run does; `NoCandidateCorrect` and `ActivatedOnEvidenceCorrect` also
  that review is off. Their invariants follow the one worker through a proposal:
  what it has looked up still holds when it acts (`SoleInv`), and a candidate is the
  one in its hand or was left by a lost run (`LostInv`).
- **Capture.** `OneSourceCorrect`, `WholeSourcesCorrect` and `AnswersCorrect`, for
  any number of clients, connections, retries and faults. The invariant `CaptureInv`
  says how far each transaction has come (`Progress`), that an answer on its way is
  true (`Truthful`), and that an uncommitted source with a key excludes every other,
  committed or not (`KeyGuarded`). Without the latter, two inserts that both saw no
  committed row could both commit. `IngestionIsAtomic`: every step maps to a step of
  `AtomicIngestion` or to a stutter. This needs `IdsDiffer` besides: the abstract
  insert takes an id no committed source has, and a draft could only promise that if
  the ids of drafts and sources differ all along. `ContractKeepsPromises`: the
  abstract specification alone implies the three invariants, with `ContractInv`.
- **KnowledgeGraph.** `EarliestCloseCorrect`, `ReadsCorrect` and `PastKeptCorrect`.
  The invariant `GraphInv` says that a close that holds its row's lock still finds
  it closable (`Locked`), and what a half-finished read has seen relative to the
  rows when it began (`ReadSoFar`); rows only come to be or end earlier
  (`RowsLater`), which carries both over the steps of others. `ClosesAreAtomic`: every
  step maps to a step of `AtomicGraph` or to a stutter; at COMMIT the abstract close is
  possible since the lock kept the row closable. `AtomicClosesKeepEarliest`: the abstract
  specification alone implies `EarliestCloseStands`. TLC agrees on
  `ImplementsAtomicGraph` when it is added to the run `KnowledgeGraph_history`.
- **Retrieval** (with Embedding). `DoneCorrect` and `GivenUpCorrect`: while a row is
  live, a fault ended every attempt at its job but the one under way
  (`AttemptsUsed`). `HitsCorrect` and `NothingMissed`: for any rows, limits, matches
  and backend. `SearchInv` says that among the versions of a memory that was active
  one always is (`HasCurrent`), that rows only move forward (`Forward`), and what
  each list so far covers (`Covered`). That an answer that is not full lost nothing
  to the candidate limit needs that a list cut there has at least `Limit` rows, and
  a pigeonhole argument (`NotLonger`). `AgreementCorrect`: the score of a row is a sum
  of two fractions, each of which falls as the place in its list grows; with the
  fractions brought to one denominator, a row that is nowhere behind another and
  somewhere ahead has the greater sum (`TimesMonotone`, `SumOfTermsGrows`,
  `AboveIsHigher`), and an answer sorted by score then has it first.
- **Chunking.** `NoPhraseLost`, `LoopDoesNotCrawl` and `ChunksAdvance`, for every text,
  target and overlap, with `LoopInv`: the next window starts exactly an overlap before
  the end of the last, since a window that is not the last is longer than half a
  target (the `start + 1` of the code is never the greater), and a window cut short has
  no sentence end behind it within its full length. That is what bounds the number of
  windows: a single step may be one character, but the window after a short step
  reaches beyond the full length of the one before, so two steps make half a target.

Type correctness of every module is part of these inductive invariants, and proved
for all constants, so the runs do not repeat it (`JobQueue_safe` does, in `LeaseInv`).

Only model-checked: liveness (`EventuallySettled`, `EventuallyStored`), which is out
of the prover's reach. That a row's embedding job comes to an end is not stated a
second time: it is `EventuallySettled` of the queue.

## What is not modelled

- Wording, HTML, JSON, hashing, the text of prompts and answers, logging,
  authentication, routing and status codes other than success, conflict and
  failure.
- Isolation inside one SQL statement. What PostgreSQL promises of a statement
  under READ COMMITTED (row locks, unique indexes, re-evaluation) is taken as
  given.
- Several owners: a server has one, from its configuration.
- The timeline: list_timeline is one SELECT that keeps nothing, and paging is the
  client's affair. Pages go on strictly before a timestamp, so items that share it
  with the last item of a page are skipped; no document says what a client may
  expect.
- A batch size of 0 or less, which the configuration accepts: the modules assume
  a positive one (`BatchSizeAssumption`).
- What validate_candidate looks at (types, lengths, quotes, secrets): a proposal it
  drops changes nothing.

## Plan

What would come next: a client that pages through the timeline, once it is settled
what it may expect; find_existing_memory and rejected statements, once the code or
a document says whether a rejected statement may come back.
