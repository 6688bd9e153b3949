# donto in TLA+

TLA+ models of donto, the bitemporal, paraconsistent statement store, with the TLC
configurations that check them on small instances and TLAPS proofs of what matters most
for every instance. Two kinds of difficulty are modelled: what several transactions,
processes, HTTP handlers and clients do to one database (and one blob store, one Lean
process) at the same time, and what the long, branching readers of queries and files make
of their input.

`tlc -config X.cfg M` checks a module, `tlapm M.tla` checks the proofs of one. Paths below
are relative to the repository; migrations are named by number
(`packages/sql/migrations/0006_predicate.sql` is 0006).

## 1. The system

donto is a PostgreSQL schema (104 migrations that also hold much of the logic, as SQL and
plpgsql functions), a Rust client library, query languages, importers, a command line and an
HTTP server (`apps/dontosrv`) over it, a blob store, an optional Lean 4 process for shape
validation, and a Python service (`apps/donto-api`) that runs extraction as Temporal
workflows. All shared state is in the database, apart from the pool of connections of each
process, the pipes of the Lean process and the blob files.

| component | state | operations | interacts with | hard | what makes it correct |
|---|---|---|---|---|---|
| **Statement ledger** (0001, 0003, 0006, 0043) | statements with `tx_time`, audit log, lineage, contexts, predicates | assert, assert_batch, retract, correct, promote a candidate | everything | read-check-write between SQL statements, stamps of `now()`, unique index waits, deadlock, rollback | append-only; one open row per content; audit complete; settled times read the same |
| **Migration runner** (`donto-client/src/migrations.rs`, 0004) | ledger of hashes, advisory lock, function bodies | `apply_migrations` by several processes | pool, all SQL functions | crash between migrations, lock kept by a pooled session, order of redefinitions | one migrator; ledger true; success complete; no later clobbering |
| **Alignment and closure** (0048, 0051) | edges, closure table | register, retract, rebuild | registry, aligned reads | rebuild of 13 statements each with its own snapshot, row waits, deadlock | the table is what the edges say |
| **Trust kernel** (0111, 0112) | capsules, assignments, attestations | assign, attest, revoke, authorise | releases, route guards | policies changing between two questions | no release without clearance |
| **Releases** (`donto-release`, `donto-cli` release) | manifest, signature, tables | read, gate, sign, export | ledger, trust kernel | several reads at different snapshots | manifest cleared, reproducible |
| **Rule derivation** (`dontosrv/src/rules.rs`, 0009) | reports, derived statements, lineage | derive | ledger, pool | failing calls, dropped handlers, concurrent identical requests, pool exhaustion | derived = what the rule says, with lineage, once |
| **Lean sidecar** (`dontosrv/src/lean.rs`, `packages/lean`) | one child process and its pipes | validate a `lean:` shape | pool, shapes | cancellation, time limits, hung engine | each report answers its own request |
| **Query languages** (`donto-query`: dontoql.rs, sparql.rs, algebra.rs) | the text and a cursor | parse | evaluator, CLI, server | clauses in any order and number, a token taken before it is refused, nesting | what is read is what is written; every text comes to an end |
| **Query evaluator** (`donto-query/src/evaluator.rs`, 0005, 0052) | solutions so far | presets, match, overlays, filters, order, window, evidence | ledger, closure, policies | one call per pattern and solution, each with its own snapshot | the join of the clauses; nothing shown that never held; the past repeatable |
| **Ingest** (`donto-ingest`, `donto ingest`, `POST /assert/batch`) | batches, quarantine | read and send a file | ledger | a later batch fails, lost answers, repetition | what is stored is what the file means, once |
| **Linguistic importers** (`donto-ling-*`, `donto ling`) | losses reported | read CLDF, UD, UniMorph, LIFT, EAF | ledger | event-driven parsers with pending state; strict mode | as ingest, and every loss is reported |
| **Data migrators** (`donto-migrate`) | contexts, batches | genealogy, relink | ledger | contexts named before or after they exist; a row breaks the run off | as ingest; statements hang under the root |
| **Blob store** (`donto-blob`, `donto blob`, 0125) | files by hash, blob rows | put, register, sync, backfill | documents | crash in the middle of a write, shared temporary file, file edited while it is put | content matches name; addresses resolve |
| **Documents and revisions** (0023, 0024) | documents, numbered revisions | ensure, add_revision | extraction, blobs | max + 1 by calls that overlap | numbered without gaps; one per text |
| **Extraction by command** (`donto extract`) | facts, evidence links | put, revise, ask, assert, link | blobs, ledger | death between a fact and its link | a fact is linked to the revision of its text |
| Predicate registry, aliases, minting (0006, 0020, 0049, 0110) | predicates, alias rows over time | register, alias, mint, approve | ledger, closure | check-then-act on chains | no alias chains; approved definitions fixed |
| Contexts, scopes (0005, 0012, 0022, 0103, 0107) | tree of contexts, overlays | ensure, resolve | all reads | cycles, depth bound | resolution is the reachable set |
| Snapshots (0007) | member rows | create, read | ledger | re-creation | frozen |
| Overlays: arguments, annotations, confidence (0015, 0029, 0031, 0038, 0091, 0099-0104) | rows keyed by statement | close-and-open | ledger | upsert races | one open row per key |
| Obligations, reviews (0032, 0113, 0114) | status, decisions | open, assign, resolve | overlays | guards by status | legal transitions only |
| Alignment runs, shadows (0050, 0053, 0055) | canonical shadows | materialise | closure, ledger | stale cache | shadows agree with edges and statements |
| Shape reports, certificates (`shapes.rs`, `certificates.rs`, 0008, 0010, 0045) | cached verdicts | validate, attach, verify | ledger, sidecar | staleness, nested pool use | a verdict is of the statements it names |
| Extraction workflow (`donto-api`, 0028) | workflow history, runs | extract, ingest, align, rebuild | ledger, closure | retries, cancellation, swallowed errors | facts in exactly once |
| Entities and identity (0057-0061, 0093, 0108, 0109) | edges, hypotheses | link, split | reads | unguarded status | hypotheses partition entities |
| Analytics, findings, alerts, event log, maturity audit (0011, 0090, 0118-0122) | findings, copies of events | detect, deliver | reads | none of its own | idempotence |
| Interfaces (other server routes and commands, TUI, TypeScript, pg_donto, site) | none | pass on | all | opt-in guards | — |

The components in bold are modelled. PROJECT.json lists the same parts with their files, the
modules of those modelled and the reason for the others, and the hazards at the lines where
they bite.

## 2. The modules

| module | models | abstracts |
|---|---|---|
| `BeliefLog` | what the ledger promises its readers: beliefs that appear and cease by atomic publications | — |
| `Ledger` | the ledger, one SQL statement per action | contents are records of context, predicate and an opaque rest; ids are fresh names |
| `LedgerBeliefs` | the refinement mapping from `Ledger` to `BeliefLog` | |
| `Migrations` | the migration runner | a migration is the set of functions it defines |
| `Alignment` | edges and closure rebuild, statement by statement and row by row | confidence is below the floor of 0.8 or not |
| `TrustKernel` | capsules, assignments, attestations, `donto_authorise` | expiry and revocation of a capsule are one thing |
| `Releases` | `release pipeline` on top of `TrustKernel` and `BeliefLog` | hashes, files and signatures; maturity is 0 or 1 |
| `Derivation` | `POST /rules/derive` on a pool of connections | a statement is its content and a number |
| `Sidecar` | Lean validation requests, the mutex, the pipes and the engine's loop | envelopes are the requests they are of |
| `QueryAlgebra` | the algebra both languages compile to | filters are comparisons |
| `DontoQL` | lexer and parser of DontoQL | the characters inside a lexeme; letter case |
| `DontoQLGrammar` | what a text of DontoQL says, whatever reads it | — |
| `Sparql` | the SPARQL translator | the characters inside a word, string, number or IRI |
| `SparqlGrammar` | what a text of SPARQL says, whatever translates it | — |
| `QueryText` | which parser a text goes to, and what it should come to | |
| `Query` | the evaluator, call by call, while others edit | timestamps are numbers; a policy is the set of actions it allows |
| `QueryCommand` | `QueryText` composed with `Query`: a text, its parse, its evaluation, its answer | output formats |
| `IngestFormats` | what the readers of `donto-ingest` make of a file | the grammars of the RDF libraries; IRIs and texts are sequences of their parts |
| `LingFormats` | the same for the five linguistic formats | XML and CSV are events and rows |
| `MigrateFormats` | the same for the two migrations of a genealogy database | SQLite is tables of typed cells; days are numbers |
| `ImportRuns` | the calls an import makes and what becomes of them, while imports overlap, fail and are repeated | a batch is one transaction; what a file is read as is a parameter, `Reads` |
| `Import` | the calls each reader's output is sent in: `ProgramOf`, which `Reads` is | |
| `Blobs` | the blob store, documents, revisions, `donto blob` and `donto extract` | a blob is its bytes and its hash; a file is a few parts |
| `MC*` | values for the constants | |
| `*Proofs` | the theorems of the module they are named after; `LedgerProofs` those of `LedgerBeliefs` too, `QueryProofs` those of `QueryCommand`, `RerunProofs` those of `Migrations` and `ImportRuns` | |

Composition: `LedgerBeliefs` shows that `Ledger` implements `BeliefLog`; `Releases` takes
`BeliefLog` as its ledger (publications happen at a time the writer's transaction began, which
may be past), so that a release is checked against exactly what the ledger was shown to do
without the state of the transactions. `Derivation` and `ImportRuns` likewise take from `Ledger`
only that one statement of a content is open and that an assertion returns it; `Query` takes
`donto_match_aligned` over a closure that `Alignment` keeps, here a constant of the store.
`QueryCommand` is `QueryText` (itself `DontoQL` and an instance of `Sparql` on shared variables, each
with its grammar) and an instance of `Query` whose query is the one that was parsed. `Import` stands
on the three format modules and on `ImportRuns`, which knows nothing of the formats: its proofs hold for
readers of any kind that have the properties it lists (`FilesAreRead`).

### Ledger

Every call of the client is one autocommit SQL statement, so a call is a transaction; the
processes of `Ledger` are transactions. Within a plpgsql function every SQL statement runs with a
fresh READ COMMITTED snapshot and is one action: `EnsureContext`, `CheckMode`,
`ImplicitRegister`, `InsertStatement` / `SkipInsert`, `FetchOpen` (donto_assert), `CloseRow` /
`CloseRejected` / `NothingToClose` (donto_retract), `ReadOld`, `LinkLineage`, `LogReplacement`
(donto_correct, donto_promote_candidate), then `Commit`. A batch runs them once per statement.
Facts about PostgreSQL the model rests on:

- visibility follows from the status of the writing transaction, so a rollback or a crash is one
  change of `xact` and undoes nothing;
- `now()` is the beginning of the transaction;
- `on conflict do nothing` waits for a transaction that is inserting or closing a conflicting row
  and then decides again (`WaitsFor`); an update waits for the row lock and evaluates its condition
  again;
- `tstzrange(lo, hi)` with `lo` after `hi` raises an error, and with `lo = hi` the row's range
  check does (`CloseRejected`);
- the deadlock detector aborts one member of a cycle (`CancelDeadlock`).

### Migrations

`Get` takes a connection of the process's own pool, `Lock` the session advisory lock (re-entrant
in its session), then the check of the ledger, the loop, the backfill of the placeholder hashes of
the bootstrap migrations, and the unlock. Recycling is `RecyclingMethod::Fast`, which resets
nothing: a call that fails returns its connection with the lock still held, although
migrations.rs:449 expects the lock to be "released automatically when the connection is returned
to the pool". `Faults` are a failing statement and a lost connection, which releases the lock.

### Alignment

A rebuild is a delete and twelve insertions. Each computes its rows when it begins
(`NextStatement`) and treats them in any order (`TreatRow`), sleeping at a row that another
rebuild holds. `saw` records what was open since the rebuild began, which is what the properties
compare the table with; `alone` whether another rebuild overlapped.

### Trust kernel and releases

`donto_authorise` is a STABLE function: one snapshot, hence an operator. A build is a read, one
question to the gate per contributing context (the call may fail, which counts as no), the
decision and signature, and for CLDF a second read. Between any two of these, statements are
written and promoted and policies change.

### Derivation

One action per round trip. A handler keeps a connection from its query until its rows are emitted
and needs a second one for every assertion; lineage is written on the first. Any call may fail,
before or after its effect; a handler may be dropped anywhere. `seen` and `clean` record in a
report what its run read and whether anything failed.

### Sidecar

`Lock`, `WritePart`, `WriteRest`, `ReadLine` are the parts of `LeanClient::send` between its await
points; `Fails` and `Timeout` give the child up (it is never started again). `Disconnect` drops a
handler: its mutex guard and connection are released, but not what it has put into the pipes, and
what it has read of a line is lost. The mutex is granted to any waiter: its order matters to no
property, and every request takes it once.

### Query languages

`DontoQL` reads a text as a state machine: `Tokens` is `lex`, and after it one action reads a
clause, an item of a list, or a word of a scope, whatever `parse_query`'s loop dispatches on.
A construct is a *form*, the sequence of slots its tokens must fit. Which slot is only peeked at and
which takes its token first is part of the form, because the parser reports an error at the position
it has reached, and that is an index past the end of its vector when the offending token was the last
one: `status` is then `panic`. Narrowing conversions keep their width (`% 256`, `% U64`).
`DontoQLGrammar` says what the texts mean without reading them from left to right: a *layout* gives the
words of each clause and where the entries of a list or a scope begin among them, `IsClause` relates the
words of one clause to the field it sets, and `Say` has each field as the last clause that sets it. It is
not a model of code but what the parser is held to.

`Sparql` has no lexer to model; its cursor walks over pieces of text, and the rules of where blanks
and comments are skipped and where a local name ends are those of the code. `graphs` is the stack of
GRAPH blocks the recursive `parse_block` keeps on the call stack. A comment is not a piece: it is what
`skip_ws` finds from a "#" to the end of the line (`Skipped`), while `read_local` takes a "#" for a
character of the name. `SparqlGrammar` is to it what
`DontoQLGrammar` is to `DontoQL`: a layout cuts a text into *units* (a declaration, a variable, a pattern,
a filter, a full stop, the edges of a block, a limit) and each unit into parts with nothing but blanks and
comments (`Gap`) between them; `IsCut` says which units may follow each other and, of each, the GRAPH blocks
around it (`Around`) and the prefixes declared before it (`Declares`, the last declaration of a name
counts); `Spells` relates a part to its term, and `Mean` is the query the units say. The grammar keeps to
what the translator reads, and where the code is narrower than SPARQL it says so: no comment before PREFIX,
SELECT, LIMIT and OFFSET or after a star, a name with a local part that goes as far as it can (a full stop
or a "#" that touches it belongs to it), and no pattern that begins with a name whose prefix is `graph` or `filter`.

### Query evaluator

`ApplyPreset`, `LoadConcept`, `MatchRow` (one call per pattern and solution), `Retain` (one per
overlay, policy or lens clause and solution), `Extend`, `NextPattern`, `Order` (filters, sort,
window) and `LoadEvidence` are the calls and loops of `evaluate`. A solution carries its *trail*,
the statements it was matched with. SQL without an order by returns rows in any order, so a window is any set that `Windows` admits.
`Others` edits between any two calls: assertions, retractions, promotions, modalities, policies,
lenses, arguments, contexts. Periods are stamped with the beginning of the transaction that writes them,
as in `Ledger`: it began after the query or is one of the `older` ones that still ran then, so that
what is asserted or retracted may be stamped with a time the query asks about. `CallFails` ends the query wherever a call is made (`Asks` says where
one is). `past` records the stores there were since the query was submitted.

### Importing

The format modules are pure: what a reader makes of a file, as the list of statements in the order
they are emitted, the losses it reports, or a refusal. Parsers driven by XML events (LIFT, EAF) and
by lines (UD) are folds over the events, with the parser's pending fields as the accumulator.
`ProgramOf` in `Import` is the list of calls a run makes (contexts first, then batches, then the
source document of a CLDF dataset). In `ImportRuns` `Start` reads a file and `Call` is one of its calls,
with `CallIsRefused` for a batch the database does not take, `CallBreaks` and `AnswerIsLost` for a
connection or a process that dies before or after the call. A run that failed may be started again.

### Blobs

A job is one file, body or request on its way through a command; it goes from place to place, one
call or one system call at a time: `Hash`, `Look`, `Read` (put_file), `Check`, `Create`, `Write`,
`Rename` (local backend) or `Copy` (gcs), then `Register`, `EnsureDocument`, `Count`, `Insert` (sync),
`SetBucketUri` (backfill), or `FindRevision`, `NumberRevision`, `AddRevision`, `Stamp`, `Ask`,
`Assert`, `LinkEvidence` (extract). A temporary file is named after its blob in the file system and
after the job that made it in the model (`temp`, `bytes`), so that what a create truncates and what a
rename moves is explicit. `disturbed` records the blobs two jobs wrote at the same time or whose source
changed while it was put. `Fails`, `Edit` and `Crash` are an error of any call, an edit of a source
file, and the death of a process, which leaves its half-written files.

## 3. What the runs check

Passing runs:

- **ledger_calls** — three concurrent calls on a statement and its candidate, or two batches that
  insert the same contents in opposite orders and register contexts and predicates, crashing
  anywhere: rows are never lost or rewritten (`AppendOnly`), one open row per content
  (`OneOpenRowPerContent`), exactly one audit entry per assertion and retraction
  (`AuditTellsHistory`), a replaced statement is closed whoever closed it (`ReplacedIsClosed`), rows
  stay covered by the registry (`RegistryCoversLedger`), a returned id is of the statement asked for
  (`ReturnedRowIsTheStatement`), no statement of an assertion that succeeded is lost though it gave way to a
  call that could still roll back (`AssertedIsStored`), a time before all
  running transactions reads the same for ever (`PastIsSettled`), and readers see a `BeliefLog`
  (`ImplementsBeliefLog`).
- **migrations** — two processes, pools of two and one connections, five migrations, errors and
  lost connections: `OneMigrator`, `LedgerIsTrue`, `SuccessIsComplete`, `SettledSchema`, and
  `CallsReturn` unless a failed call has leaked the lock.
- **alignment_rebuild** — two sessions rebuild while edges change, one pair of predicates carrying
  several relations, an alias that is also an inverse: `HeldRowsAreKept`, `LoneRebuildIsFull`,
  `RebuildsEnd`.
- **releases_build** — two builds of the same or different specs: `PublicManifestIsCleared`,
  `RebuildRepeats`.
- **derivation_rules** — a transitive and a symmetric rule at once over a possible cycle, one edit,
  one fault: `ClosureIsReachability`, `LineageIsEvidence`, `ReportedIsDerived`, `RerunIsNoOp`,
  `RequestsEnd`.
- **sidecar_requests** — three requests, two connections: `TypeOK` (with the bound of the pool),
  `OwnUnlessCut`, `RequestsEnd`.
- **query_command** — some three thousand texts are parsed, and twenty-three of them, one for each
  clause and preset, asked of two stores while others edit twice: a text that renders a query is read
  as that query, whatever stands next to what (`ReadsWhatIsWritten`); every text comes to an end and
  what was asked is answered or fails (`TextsAreAnswered`); undisturbed, the rows are a window of the
  join the text means, and it is ill-typed just when that join is (`AnswerIsJoin`, where the join is
  defined by assignments of statements to patterns, not by the loop; queries the documentation promises
  other rows are left out by name, `Disputed`, see section 5); disturbed, each row was visible and
  admitted by each clause at some moment (`RowsWereVisible`), and a question about a time before
  every transaction that still runs has the same answer whatever is written meanwhile (`AsOfIsRepeatable`).
- **import_files** — a hundred and ninety files of fourteen formats, put together from pieces beside
  which `MCImport` writes what they mean, imported by two runs at once, each with one retry: whoever
  reports success has stored exactly what the file means, once, and reports what it left out
  (`ReadsTheFile`, of the files whose meaning is not `Disputed`, see section 5); before that, nothing
  else is stored, and a refused file leaves nothing behind
  (`NothingElse`); genealogy statements hang under the root context, unless their row names no source that
  has a row (`UnderTheRoot`).
- **blobs_jobs** — syncs, uploads, extractions, a backfill and a revision request on two files, with
  one fault anywhere: no address is recorded for bytes that were not stored (`AddressesResolve`), an
  undisturbed blob is whole whoever died writing it (`UndisturbedIsWhole`), facts are linked to the
  revision of the text they were extracted from (`LinksTellTheText`), an extraction that ends well has
  linked everything (`DoneMeansLinked`), revisions are numbered without gaps (`RevisionsAreNumbered`).

Runs that end in a violation, each a disagreement between the code and what the repository says:

- **migrations_clobber** — a process dies between 0006 and the backfill (migrations.rs:515); the
  retry applies 0003 again and with it an older donto_assert.
- **sidecar_answers** — a client disconnects between write and read (lean.rs:128); the next request
  is given the report of the lost one, and so on for all that follow.
- **blobs_shared** — two writers of one blob share its temporary file (local.rs:60): one moves into
  place what the other has just truncated.

### Bounds

Transactions, sessions, handlers, imports: two or three, enough for a reader between two writers and
for every cycle of waits of length two; conflicts in this code are between pairs of calls on one
content, row, lock or file. `ledger_calls` has three transactions because its hardest histories need
an assertion, a retraction and a correction; its constraint `Scenarios` says which calls meet.
Contents: a statement and its candidate, or two contents in opposite orders. Times: `MaxTime` 1 or
2, so that rows open before, with and after another transaction's beginning. Migrations: two before
the ledger, three after, one function defined before and after it, one only after. Derivation: two
nodes give chains, cycles and self-pairs; `PoolSize` 3 is one more than the handlers (with 2 the pool
deadlocks, see section 5). Query: every ordered pair of the twenty-four clause forms, all of them in
two orders, and clauses with one token missing, since a clause's reading depends on what was read
before it only through the fields it sets and the position; two patterns with a shared variable,
which is where a join differs from a match; two edits, one before and one after a call, by transactions begun since or, in half of the initial
states, by one that had begun at the time `as_of` is about. Import: files
of up to two pieces of each kind and batches of four statements, so that a file takes one batch or
several; the limits of relink (`ChunkMax`, `SpanMax`, `Flush`) are two or three instead of thousands,
with texts at, below and above them. Blobs: files of two parts, so that a half-written one exists; four
plans of jobs that meet on one blob, one document or one row. Every bound is a constant: `MaxTime`,
`MaxCalls`, `MaxRebuilds`, `MaxChanges`, `MaxEdits`, `MaxFaults`, `MaxTries`. No fault and no user
action is forced by them; they only stop.

`CHECK_DEADLOCK FALSE` everywhere: the calls of an instance are finitely many, and the system
stops when they are done. That calls do not wait for one another for ever is stated where they
wait: `CallsReturn`, `RebuildsEnd`, `RequestsEnd`, `TextsAreAnswered`.

Symmetry is used in runs without liveness only (transactions and ids of the ledger; builders and
ids of the releases).

### Fairness

Weak fairness of the steps of each call, process, session, handler or command: the server executes
a statement that is not blocked, the tokio executor polls a task that can go on, and timers fire.
A query (`WF_vars(Handle)`) is one task that nothing but the executor drives. Nothing is assumed of
clients, faults, crashes, edits or the Lean engine; nor is a call ever assumed to begin. Where
something waits, `WaitsFor`, `Free` or the lock is in the guard, so fairness alone does not let it
through.

## 4. What is proved

TLAPS proves, for all values of the constants that satisfy the modules' assumptions:

| theorem | module | argument |
|---|---|---|
| `Typing`, `Uniqueness`, `History`, `SettledPast` | `LedgerProofs` | `LedgerInv`: rows carry the times of their transactions, only committed rows are closed, and two live rows of a content exist only inside a transaction that closes one and opens the other (`OneLiveRow`). One open row per content is not inductive without it: before they commit, two rows of a content may both be in the table. |
| `Audited` | `LedgerProofs` | `AuditOK`: every row in the table has the entry of its insertion and, once somebody has closed it, that of its close; there is no other entry, except of closes that were rolled back. The status of the transactions then decides for rows and entries alike. |
| `Replaced` | `LedgerProofs` | `ReplacingInv`: the row a correction or a promotion begins on is committed (`TargetOK`), whoever has been through donto_retract sees it closed, by itself or by somebody who committed (`ReplacedOK`), and only a call that is done has logged a replacement (`ReplacementsOK`). |
| `Registered` | `LedgerProofs` | `RegistryInv`: a call sees the registrations it has been through (`RegisteringOK`), and whoever wrote a row sees its context and its predicate (`RegisteredOK`). A registration is taken over only from a transaction that came to nothing. |
| `Returned` | `LedgerProofs` | `ReturnOK`: what a call is about to return is a row it sees, of the last content it was given; `CommittedIsDone` carries this past the commit. |
| `Refinement` | `LedgerProofs` | every step but a commit leaves the beliefs as they are; a commit publishes the rows its transaction inserted and closed, at its `now()`. Rests on `LedgerInv`. |
| `NothingIsLost` | `LedgerProofs` | `PassedOK`: every content of a call's batch is still to be inserted or has a row the call sees (`HasRow`); once the last lookup found nothing open, that row has been closed (`HasClosed`). An insertion gives way only to a row whose transaction is no longer running (`WaitsFor`), which therefore has committed: what a call sees when it commits stays. |
| `Serialised`, `TrueLedger`, `Complete`, `Settled` | `RerunProofs` | `MigrationsInv`: a working call's session holds the lock and only one does, what a call has passed is applied, and a first install has recorded nothing of what is still to do. |
| `Imported`, `ImportedOnly`, `MigratedWhole` | `RerunProofs` | `ImportOK`: a run has done the first n calls of its reading and has the others before it, and what a call has done nothing takes back (`RunIsAt`); every statement stored is there once, as some reading was the first to state it (`StoreOK`); contexts are only added, none of them curated (`ContextsOK`); and a context a migration uses hangs under its root as soon as it is there, whichever try made it, and nothing makes a context of a source without a row but a statement in it (`HangingOK`). Two readings of a file name their blank nodes apart but agree on what they state first, so that it does not matter whose statement was stored. |
| `Typing`, `RowsAreKept` | `AlignmentProofs` | a row's holder is a running session, and a session treats only rows it can lock. |
| `LoneRebuildsAreFull` | `AlignmentProofs` | `LoneInv`: of a rebuild that is alone, the delete has marked every row it has not still to treat; afterwards each row comes from the first of the twelve statements that must have one for its pair, or from an earlier one that may, and a pair without a row has none from the edges open throughout. `LastRowsAreRight` says that a table of this kind is what the relations call for. |
| `Typing`, `PublicIsCleared` | `ReleasesProofs` | the rows listed never change their context, and what was probed covers them when the gate decides. |
| `Repeats` | `ReleasesProofs` | `RepeatInv`: what a build has read is what it would read now, listing and answers of the gate, as long as nothing it reads has changed (`Current`); an ended build has asked about every context it lists (`Ended`). |
| `Typing`, `ReportsAreDerived` | `DerivationProofs` | `Progress`: each row of what a clean run read is still to be emitted, is being emitted, or is in the ledger with its lineage. |
| `ClosureIsExact` | `DerivationProofs` | of the walks that join two nodes one is shortest, and a shortest walk has no two edges into one node: it is one of the chains the recursive query enumerates. Conversely a chain is a walk. |
| `RerunsAreNoOps`, `LineagesAreEvidence` | `DerivationProofs` | `InputsInv`: what a handler still has to emit are rows of its rule over what it read, and what it asserted last is the statement of one of them. |
| `Typing`, `ReportsAreMatched` | `SidecarProofs` | `Matched`: with no exchange cut, the pipes hold the exchange of the handler that has the mutex, in the place its progress says, or nothing. The mutex and the giving-up of the child on every failure make it inductive. |
| `RowsAreShown` | `QueryProofs` | `ShownInv`: every solution rests on statements each of which was shown at some moment since the query was asked, and the rows being treated have been admitted by every clause before this one, each at a moment of its own. |
| `SettledIsRepeatable`, `RowsAreJoin` | `QueryProofs` | `JoinInv`: the tables of all moments are tables and agree on what was in force at every time past when the query was asked (`StoresOK`); the loops have found just the solutions of the trails whose beginning they have already treated (`MatchedOK`), and the rows at hand are what the clauses so far have left of a match (`RowsOK`). It speaks of the present tables as long as nobody has edited them, or of a question no edit changes the answer to (`Steady`); that a settled question has one answer is its second half. The lemmas on facts and bindings say that the loop, which unifies one pattern after the other, and the join, which assigns statements to all patterns at once, agree. |
| `DontoQLIsRead` | `QueryProofs` | `TextInv`: between two clauses the parser stands where the layout begins the next one and holds what those before say (`Between`); in a list or a scope it holds besides what its entries so far say (`InList`, `InScope`). Every clause is followed by the end, a semicolon or a word that begins a clause, and none of these is what the parser looks for when it asks whether a clause goes on (`LexemesDiffer`): that is why no clause depends on its neighbours. `ValueIsRead`, `EntryIsRead` and `ScopeStandsThere` are the clauses one by one. |
| `SparqlIsRead`, `TextsAreRead` | `QueryProofs` | `SelectInv`: the translator has read some number of units (`HasRead`): it stands between the end of the last of them and the beginning of the next, with the prefixes they declare, the GRAPH blocks around, and what they say. It stands behind the last unit or at the beginning of the next one, as the code skips what is between them now before and now after a piece; a gap is blanks and whole comments, and no unit begins with either (`Starts`, `Followed`), so from either place it finds the next one (`SkipTo`, `PeekTo`). `TermIsRead` is the terms one by one, `UnitIsRead` the units. |
| `Addresses`, `Wholeness`, `Links`, `DoneIsLinked`, `Numbering` | `BlobsProofs` | `BlobsInv`: a job past its put has itself seen its blob stored, and nothing stored goes away. Wholeness adds `Written`: the temporary file of an undisturbed blob has one maker (`Alone`), a file is of the blob its maker puts (`Owned`), and a writer has written every part before the one it is at (`Filled`); and `Honest`: what is about to be written has the hash it is written under. The links rest on what an extraction knows of its revision from `stamp` on, and on (document, number) being a key of the revisions (`LinksInv`). The numbers of a document are an interval 1..n, and a number a call has taken is at most one past it (`NumbersInv`); with the key, their count is n. |

Assumptions: constants are what their comments say (names that stand for "none" differ from real
values, bounds are naturals, `Request` and `Elsewhere` are finite). `QueryCommand` assumes of an
instance that its stores are tables as the schema makes them (`StartsAreStores`; swapped rows of the
closure join distinct predicates, 0048 and 0051), that a promotion sets a number, and that a text which
is asked means something. `ImportRuns` assumes of the readers (`ReadersAreRight`) that each reads a
file as it means, that two readings of it state the same contents with the same first maturity, that a
reader that refuses a file has stated nothing before (relink excepted, which sends as it reads), and that
a migration makes its contexts under its root before it uses them, except those of sources that have no row,
which it makes nowhere. TLC evaluates this on each of the
hundred and ninety files, with the readers of `Import` in the place of `Reads`: it is the part of the
imports' correctness that is about parsing, and the theorems are the part that is about overlap, failure
and repetition. `QueryText` assumes that a text that is said to mean a query has a layout in the grammar of its language
that says so (`SourcesAreSpelled`): it is what "to mean" is, and TLC finds the layouts of its texts to be
such; and that the value that stands for "none" is not a keyword (`NoneIsNoWord`). The proofs treat the numbers of transactions, processes, predicates,
connections, jobs, blobs, statements, patterns and so on as arbitrary.

`RowsAreJoin` is about the queries that are not `Disputed`. It has no hypothesis on how a text is read: `TextsAreRead` gives it that the query asked is the
query that was written, and the rest is the evaluator's.

Only model-checked:

- liveness and everything under fairness (`CallsReturn`, `RebuildsEnd`, `RequestsEnd`,
  `TextsAreAnswered`): TLAPS does not reach it;
- what a reader makes of a file (`ReadersAreRight`): what it computes of every file would need an induction
  over data; besides, the readers of JSON-LD recurse with RECURSIVE operators, and no module with a theorem
  may use one.

Types are theorems (`Typing`) rather than invariants of runs, except for the sidecar's, which has the
bound of the pool in it.

## 5. Disagreements and observations

Besides the three runs that end in a violation, the models contain, or reading met, the following.
Where a property holds only because of one of them, its definition or its instance says so.

Ledger and releases:

- After a skipped insertion, a retraction by someone else and the lookup, donto_assert returns NULL
  (0006:175), which the Rust client cannot decode; 0003:82 declares that the id is returned.
  `ReturnedRowIsTheStatement` speaks of calls that return an id, `AssertedIsStored` of the others too. That a cycle
  of waits is broken is PostgreSQL's doing (`CancelDeadlock`) and no property of this code.
- Two corrections of one statement both succeed (0003:235) and leave two replacements, although
  0003:212 describes one; `ReplacedIsClosed` holds all the same.
- An as-of read of a past time may still change while a transaction that began before it runs
  (0003:191; the condition of `PastIsSettled`). A rebuild that overlaps another keeps rows of edges
  retracted before it began (0051:42; the condition `alone` of `LoneRebuildIsFull`).
- The CLDF export reads the statements again after the manifest was signed (donto-cli main.rs:2237),
  while export.rs:162 speaks of what the manifest lists. The release gate asks for the action `read`,
  which no capsule lists, so only an attestation ever clears a public release; an attestation under any
  assigned policy, even a revoked one, grants against all the others (0112:175). Maturity is updated in
  place, so a release "as of" a time changes with promotions.

Server:

- Derivation deadlocks when as many derivations run as the pool has connections: each holds one
  and waits for a second (rules.rs:130, 196; deadpool waits without limit). `RequestsEnd` is
  checked with a pool one larger than the handlers. certificates.rs:223 has the same shape.
- A derivation report is written whatever failed before it, and later requests are answered from it
  ("cached"); `ReportedIsDerived` and `RerunIsNoOp` therefore speak of clean runs. A cached report is
  not invalidated when edges change: the fingerprint is of rule, scope and output (rules.rs:46).
- A Lean child that hangs survives the client that gave it up: `kill_on_drop` is not set, although
  lean.rs:50 says "killed on Drop". Its stderr pipe is never read. While a handler waits for the
  engine it keeps a pooled connection (shapes.rs:138).

Queries:

- Predicate expansion is inert: the evaluator unifies a row's stored predicate with the pattern's
  (evaluator.rs:551-589) and so drops every row that was reached by expansion, although
  docs/DONTOQL.md:79 and :228 promise them. `Query` matches with expansion and unifies as the code does.
  `AnswerIsJoin` says nothing of a query whose patterns some statement reaches by expansion (`Aligned`).
- An identity lens never expands anything (docs/DONTOQL.md:217-218); `IN <graph>` (:94) and `GRAPH` are parsed
  and never used. The preset under_hypothesis without hypothesis
  contexts searches everywhere, although evaluator.rs:496 says "empty scope (returns no rows)". These three
  are the rest of `Disputed`.
- A maturity of 257 is read as 1 and a limit of -1 as none (dontoql.rs:351, 390); docs/DONTOQL.md:97 ends at 5 and no page says what they
  mean, so the grammar gives them no meaning and `ReadsWhatIsWritten` does not speak of them.
- The DontoQL parser panics on a text cut off inside a clause (dontoql.rs:292), although a test
  (dontoql.rs:926-928) says it "must not panic". The documented `concept(...)` is a lexical error.
- In SPARQL a local name takes a "." that follows it and the "#" of a comment that touches it
  (sparql.rs:367), a comment before LIMIT or ORDER BY makes the rest
  of the text ignored, prefixes named `graph` and `filter` are read as keywords, and a negative number is
  an error.
- The answer to a question about the past changes between two calls if a transaction that had begun before
  that time commits between them (0003:191); `AsOfIsRepeatable` speaks of times before all that still run.
- An as-of query with a maturity floor, an overlay, a policy or an order reads today's values
  (the conditions of `AsOfIsRepeatable`); 0052:110 expands an as-of read over the present closure.

Importing:

- `ReadsTheFile` leaves out three things of which the repository says two. Strict mode refuses after all
  batches are committed (donto-ling-cldf lib.rs:229; its comment at :68 says that strict aborts): the
  property is about imports that report success. The head of relink.rs (:15-16) has the full rows of hypotheses and events
  as `<root>/hypothesis/<id>` and `<root>/event/<id>`, the code puts them under `/hypothesis-full/` and
  `/event-full/`. That of donto-ling-cldf (lib.rs:10, :27) registers every parameter as a predicate, the
  code only those that a value uses. The latter two are `SaidTwice`; `NothingElse` takes them as coded. CLDF rows with an empty ID are dropped without a loss; LIFT loses an empty
  unknown element and a `<definition>` text outside a form the same way.
- A genealogy row without a source id, or with one that has no row, gets a context that hangs nowhere
  (genealogy.rs:128, 180, 211); `UnderTheRoot` leaves out just these contexts (`Unsourced`), and the instance
  has both kinds of row. Relink cuts the last one to three characters of a text just
  over its limit without saying so (relink.rs:151), and drops values that are not texts.
- One row whose validity ends before it begins, a year 0 or a NUL in a text makes a migration fail for
  good, with the batches before it kept. `--batch 0` panics; a maturity is kept modulo 8; reports count
  duplicates as inserted.
- Blank nodes are named by the file alone, so that two files share them; EAF tiers and annotations are not
  scoped by their document; `# text_en` in UD replaces the text; `iri_safe` maps different ids to one.

Blobs and extraction:

- donto_add_revision is "Idempotent on content_hash per document" (0024:8) unless two calls overlap, which
  leaves two revisions of one text. "A fresh revision per extraction run" (extract.rs) is not what it makes:
  the same text has the same revision.
- `blob sync --create-documents` (main.rs:424) never gives a binary file a revision: its body is null and
  the row's check refuses it, and the error is dropped. A sync whose count of revisions failed takes
  the count as none.
- put_file hashes a file and reads it again to put it (lib.rs:150), so that an edit in between is stored under
  the old hash; this is part of `disturbed`. Rows older than 0125 with a body and bytes carry a hash that is
  not of the body.
- Evidence links are not unique; an asserted statement whose link failed stays without one.

## 6. Not modelled

Listed component by component in PROJECT.json. In short: reads that only compute (claim cards,
analytics, search); Lean's shape library, which has proofs of its own; the synthetic generator;
routes and commands that pass on a call; and the components of section 7, which are next. Of the
components modelled: dontosrv's route guards, alignment runs and shadows, agent and rule registration,
the confidence and citation parts of a release, environment overlays and multiple parents of contexts,
donto_register_document, the fetch and listing commands of the blob store.

## 7. Plan

Done, in this order, because all else is written through the ledger: the ledger and its abstract
log; the migration runner, the closure, releases over the trust kernel, derivation, the sidecar; then
what users touch: the query languages and the evaluator, the importers, the blob store with documents
and extraction.

Next, in this order:

1. **Registry** — aliases over time, minting, deprecation: no chain of aliases, approved definitions
   fixed; abstract specification: a function from predicate to canonical at each time. Theorem: no
   chains, under the guard the code lacks or with the race as a finding.
2. **Extraction workflow** — activities as at-least-once calls of `Ledger`'s functions, with the swallowed
   errors of the last steps; refinement of "facts asserted once" as far as idempotence carries it,
   and what a retraction between two attempts does to it.
3. **Shadows** over `Alignment`: a cache of statements and closure, and when it is stale.
4. **Verdicts** — shape reports and certificates as caches beside the ledger.
5. **Overlays, obligations, snapshots** — close-and-open rows, the status machine and creation under a
   name, with the upsert races.

Proofs to add with them: the invariants of the new modules. Of the modules there are, what a run checks
and no theorem states is out of TLAPS's reach (section 4).
