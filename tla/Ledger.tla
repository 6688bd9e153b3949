------------------------------- MODULE Ledger -------------------------------
(***************************************************************************)
(* The bitemporal statement ledger: donto_assert, donto_assert_batch,      *)
(* donto_retract, donto_correct and donto_promote_candidate over the       *)
(* tables donto_statement, donto_context, donto_predicate, donto_audit and *)
(* donto_stmt_lineage, run by concurrent clients.                          *)
(*                                                                         *)
(* Every call of packages/donto-client is one autocommit SQL statement, so *)
(* a call IS a transaction: the processes of this module are transactions, *)
(* each of which runs one call.  A plpgsql function runs its SQL           *)
(* statements one after the other, each with a fresh READ COMMITTED        *)
(* snapshot; one such statement is one action here.  Visibility follows    *)
(* from the status of the transaction that wrote a row, as it does in the  *)
(* server: a rollback needs no undo, and a crash aborts what was running.  *)
(***************************************************************************)
EXTENDS Naturals, Sequences

CONSTANTS
  Tx,            \* transactions: the calls made while the model runs
  Id,            \* statement ids (gen_random_uuid)
  Ctx,           \* context IRIs
  Pred,          \* predicate IRIs
  Body,          \* the rest of a content hash: subject, object, polarity, valid time
  SeedCtx,       \* contexts that exist before the first call
  Curated,       \* the seeded contexts of mode 'curated'
  Candidate,     \* the seeded contexts of kind 'candidate'
  ActivePred,    \* predicates registered with status 'active'
  Batches,       \* the statement lists clients assert (length 1: donto_assert)
  Ops,           \* the functions clients call
  MaxTime,       \* bound on the clock
  Install,       \* the transaction that created the seeded rows
  NoTx, NoId, NoRow

Content == [ctx : Ctx, pred : Pred, body : Body]

ASSUME SeedsAreContexts == Curated \subseteq SeedCtx /\ Candidate \subseteq SeedCtx /\ SeedCtx \subseteq Ctx
ASSUME ActiveArePredicates == ActivePred \subseteq Pred
ASSUME BatchesAreLists == Batches \subseteq Seq(Content)
ASSUME TimeIsNatural == MaxTime \in Nat
ASSUME TxNames == Install \notin Tx /\ NoTx \notin Tx /\ NoTx # Install
ASSUME IdNames == NoId \notin Id
ASSUME RowName == NoRow \notin [content : Content, lo : Nat, by : Tx, hi : Nat, end : Tx \cup {NoTx}]

VARIABLES
  clock,      \* the server's clock
  xact,       \* status of each transaction
  now,        \* now() of each transaction: the clock when it began
  call,       \* the function it runs and its arguments
  pc,         \* the SQL statement it runs next
  todo,       \* the contents it has still to assert
  old,        \* v_old.statement_id of a correction or a promotion
  ret,        \* the value the function returns (NoId for NULL or false)
  stmt,       \* donto_statement
  ctxBy,      \* donto_context: the transaction that inserted each row
  predBy,     \* donto_predicate: the transaction that inserted each row
  audit,      \* donto_audit
  lineage     \* donto_stmt_lineage

locals == <<call, todo, old, ret>>
registry == <<ctxBy, predBy>>
vars == <<clock, xact, now, pc, locals, stmt, registry, audit, lineage>>

NoCall == [op |-> "none"]
Calls ==
  [op : {"assert"}, stmts : Batches]
    \cup [op : {"retract"}, id : Id]
    \cup [op : {"correct"}, id : Id, new : Content]
    \cup [op : {"promote"}, id : Id, ctx : Ctx]

Row == [content : Content, lo : Nat, by : Tx, hi : Nat, end : Tx \cup {NoTx}]
Entry == [tx : Tx, action : {"assert", "retract", "correct", "promote_candidate"},
          id : Id \cup {NoId}, of : Id \cup {NoId}]

-----------------------------------------------------------------------------
(* Visibility *)

Committed(u) == u = Install \/ (u \in Tx /\ xact[u] = "committed")
Running(u) == u \in Tx /\ xact[u] = "running"

\* What transaction t sees of the work of u: its own and what is committed.
Sees(t, u) == u = t \/ Committed(u)

\* Row i exists and is open (upper(tx_time) is null) for transaction t.
SeesOpen(t, i) ==
  /\ stmt[i] # NoRow
  /\ Sees(t, stmt[i].by)
  /\ ~ Sees(t, stmt[i].end)

\* Row i may still be open when every running transaction has ended: it holds
\* its place in donto_statement_open_content_uniq.
Live(i) ==
  /\ stmt[i] # NoRow
  /\ Committed(stmt[i].by) \/ Running(stmt[i].by)
  /\ ~ Committed(stmt[i].end)

\* Mutated: an existence check that sees only committed rows.
Rivals_committedOnly(t, c) ==
  {i \in Id : SeesOpen(t, i) /\ stmt[i].content = c}

\* The rows an insertion of c by t has to reckon with.
Rivals(t, c) ==
  {i \in Id : Live(i) /\ stmt[i].content = c /\ stmt[i].end # t}

\* The running transactions whose outcome t must know before its next SQL
\* statement can go on: the inserter or the closer of a row it conflicts with,
\* or the holder of the row lock it needs.
WaitsFor(t) ==
  {u \in Tx \ {t} :
    /\ Running(u)
    /\ \/ pc[t] = "ctx" /\ ctxBy[Head(todo[t]).ctx] = u
       \/ pc[t] = "pred" /\ predBy[Head(todo[t]).pred] = u
       \/ pc[t] = "insert" /\ \E i \in Rivals(t, Head(todo[t])) : u \in {stmt[i].by, stmt[i].end}
       \/ pc[t] = "retract" /\ SeesOpen(t, call[t].id) /\ stmt[call[t].id].end = u}

\* t is on a cycle of waiting transactions.
Deadlocked(t) ==
  \E S \in SUBSET Tx :
    /\ t \in S
    /\ \A u \in S : /\ Running(u)
                    /\ WaitsFor(u) \cap S # {}
                    /\ \E v \in S : u \in WaitsFor(v)
-----------------------------------------------------------------------------
Init ==
  /\ clock = 0
  /\ xact = [t \in Tx |-> "idle"]
  /\ now = [t \in Tx |-> 0]
  /\ call = [t \in Tx |-> NoCall]
  /\ pc = [t \in Tx |-> "start"]
  /\ todo = [t \in Tx |-> <<>>]
  /\ old = [t \in Tx |-> NoId]
  /\ ret = [t \in Tx |-> NoId]
  /\ stmt = [i \in Id |-> NoRow]
  /\ ctxBy = [c \in Ctx |-> IF c \in SeedCtx THEN Install ELSE NoTx]
  /\ predBy = [p \in Pred |-> IF p \in ActivePred THEN Install ELSE NoTx]
  /\ audit = {}
  /\ lineage = {}

Goto(t, label) == pc' = [pc EXCEPT ![t] = label]

At(t, label) == xact[t] = "running" /\ pc[t] = label /\ WaitsFor(t) = {}

\* An exception rolls the transaction back.
Raise(t) ==
  /\ xact' = [xact EXCEPT ![t] = "aborted"]
  /\ UNCHANGED <<clock, now, pc, locals, stmt, registry, audit, lineage>>

\* The label a call starts at.
First == [assert |-> "ctx", retract |-> "retract", correct |-> "read", promote |-> "read"]

\* A client makes a call; an id it passes is one an earlier call returned.
Begin(t) ==
  /\ xact[t] = "idle"
  /\ \E c \in Calls :
       /\ c.op \in Ops
       /\ c.op # "assert" => stmt[c.id] # NoRow /\ Committed(stmt[c.id].by)
       /\ c.op = "assert" => c.stmts # <<>>
       /\ call' = [call EXCEPT ![t] = c]
       /\ todo' = [todo EXCEPT ![t] = IF c.op = "assert" THEN c.stmts ELSE <<>>]
       /\ Goto(t, First[c.op])
  /\ xact' = [xact EXCEPT ![t] = "running"]
  /\ now' = [now EXCEPT ![t] = clock]
  /\ UNCHANGED <<clock, old, ret, stmt, registry, audit, lineage>>

\* donto_ensure_context: insert ... on conflict (iri) do nothing.
EnsureContext(t) ==
  LET c == Head(todo[t]).ctx IN
  /\ At(t, "ctx")
  /\ ctxBy' = [ctxBy EXCEPT ![c] = IF Sees(t, @) THEN @ ELSE t]
  /\ Goto(t, "mode")
  /\ UNCHANGED <<clock, xact, now, locals, stmt, predBy, audit, lineage>>

\* The curated-mode gate of donto_assert.
CheckMode(t) ==
  LET c == Head(todo[t]) IN
  /\ At(t, "mode")
  /\ \/ /\ c.ctx \in Curated => c.pred \in ActivePred
        /\ Goto(t, IF c.ctx \in Curated THEN "insert" ELSE "pred")
        /\ UNCHANGED <<clock, xact, now, locals, stmt, registry, audit, lineage>>
     \/ /\ c.ctx \in Curated /\ c.pred \notin ActivePred
        /\ Raise(t)

\* Mutated: skipped when anybody's row is there, committed or not.
ImplicitRegister_dirtyRead(t) ==
  LET p == Head(todo[t]).pred IN
  /\ xact[t] = "running" /\ pc[t] = "pred"
  /\ predBy' = [predBy EXCEPT ![p] = IF @ # NoTx THEN @ ELSE t]
  /\ Goto(t, "insert")
  /\ UNCHANGED <<clock, xact, now, locals, stmt, ctxBy, audit, lineage>>

\* donto_implicit_register: insert ... on conflict (iri) do nothing.
ImplicitRegister(t) ==
  LET p == Head(todo[t]).pred IN
  /\ At(t, "pred")
  /\ predBy' = [predBy EXCEPT ![p] = IF Sees(t, @) THEN @ ELSE t]
  /\ Goto(t, "insert")
  /\ UNCHANGED <<clock, xact, now, locals, stmt, ctxBy, audit, lineage>>

\* Where a call goes on once donto_assert has returned.
AfterAssert(t) ==
  IF Tail(todo[t]) # <<>> THEN "ctx"
  ELSE [assert |-> "done", correct |-> "log", promote |-> "lineage"][call[t].op]

\* Mutated: the row is stamped with the time of installation.
InsertStatement_backdated(t) ==
  LET c == Head(todo[t]) IN
  /\ At(t, "insert")
  /\ Rivals(t, c) = {}
  /\ \E i \in Id :
       /\ stmt[i] = NoRow
       /\ stmt' = [stmt EXCEPT ![i] =
                     [content |-> c, lo |-> 0, by |-> t, hi |-> 0, end |-> NoTx]]
       /\ ret' = [ret EXCEPT ![t] = i]
       /\ audit' = audit \cup {[tx |-> t, action |-> "assert", id |-> i, of |-> NoId]}
  /\ todo' = [todo EXCEPT ![t] = Tail(@)]
  /\ Goto(t, AfterAssert(t))
  /\ UNCHANGED <<clock, xact, now, call, old, registry, lineage>>

\* The insertion of a statement that meets no open row of its content, with
\* the 'assert' audit entry that follows it.
InsertStatement(t) ==
  LET c == Head(todo[t]) IN
  /\ At(t, "insert")
  /\ Rivals(t, c) = {}
  /\ \E i \in Id :
       /\ stmt[i] = NoRow
       /\ stmt' = [stmt EXCEPT ![i] =
                     [content |-> c, lo |-> now[t], by |-> t, hi |-> 0, end |-> NoTx]]
       /\ ret' = [ret EXCEPT ![t] = i]
       /\ audit' = audit \cup {[tx |-> t, action |-> "assert", id |-> i, of |-> NoId]}
  /\ todo' = [todo EXCEPT ![t] = Tail(@)]
  /\ Goto(t, AfterAssert(t))
  /\ UNCHANGED <<clock, xact, now, call, old, registry, lineage>>

\* Mutated: gives way to a row whose insertion may still be rolled back.
SkipInsert_noWait(t) ==
  /\ xact[t] = "running" /\ pc[t] = "insert"
  /\ Rivals(t, Head(todo[t])) # {}
  /\ Goto(t, "fetch")
  /\ UNCHANGED <<clock, xact, now, locals, stmt, registry, audit, lineage>>

\* on conflict (content_hash) where upper(tx_time) is null do nothing.
SkipInsert(t) ==
  /\ At(t, "insert")
  /\ Rivals(t, Head(todo[t])) # {}
  /\ Goto(t, "fetch")
  /\ UNCHANGED <<clock, xact, now, locals, stmt, registry, audit, lineage>>

\* Mutated: any open row is fetched.
FetchOpen_anyRow(t) ==
  LET found == {i \in Id : SeesOpen(t, i)} IN
  /\ At(t, "fetch")
  /\ \/ \E i \in found : ret' = [ret EXCEPT ![t] = i]
     \/ found = {} /\ ret' = [ret EXCEPT ![t] = NoId]
  /\ todo' = [todo EXCEPT ![t] = Tail(@)]
  /\ Goto(t, AfterAssert(t))
  /\ UNCHANGED <<clock, xact, now, call, old, stmt, registry, audit, lineage>>

\* The row the insertion gave way to is looked up with a new snapshot: NULL
\* when it has been closed in between.
FetchOpen(t) ==
  LET found == {i \in Id : SeesOpen(t, i) /\ stmt[i].content = Head(todo[t])} IN
  /\ At(t, "fetch")
  /\ \/ \E i \in found : ret' = [ret EXCEPT ![t] = i]
     \/ found = {} /\ ret' = [ret EXCEPT ![t] = NoId]
  /\ todo' = [todo EXCEPT ![t] = Tail(@)]
  /\ Goto(t, AfterAssert(t))
  /\ UNCHANGED <<clock, xact, now, call, old, stmt, registry, audit, lineage>>

\* Where a call goes on once donto_retract has returned.
AfterRetract(t) ==
  [retract |-> "done", correct |-> "ctx", promote |-> "log"][call[t].op]

\* Mutated: without the test that the row is still open.
CloseRow_again(t) ==
  LET i == call[t].id IN
  /\ At(t, "retract")
  /\ stmt[i] # NoRow /\ Sees(t, stmt[i].by)
  /\ stmt[i].lo < now[t]
  /\ stmt' = [stmt EXCEPT ![i].hi = now[t], ![i].end = t]
  /\ audit' = audit \cup {[tx |-> t, action |-> "retract", id |-> i, of |-> NoId]}
  /\ ret' = [ret EXCEPT ![t] = IF call[t].op = "retract" THEN i ELSE @]
  /\ Goto(t, AfterRetract(t))
  /\ UNCHANGED <<clock, xact, now, call, todo, old, registry, lineage>>

\* donto_retract closes the row at the transaction's now() and logs it.  A row
\* opened at or after that time cannot be closed: the range is rejected.
CloseRow(t) ==
  LET i == call[t].id IN
  /\ At(t, "retract")
  /\ SeesOpen(t, i)
  /\ stmt[i].lo < now[t]
  /\ stmt' = [stmt EXCEPT ![i].hi = now[t], ![i].end = t]
  /\ audit' = audit \cup {[tx |-> t, action |-> "retract", id |-> i, of |-> NoId]}
  /\ ret' = [ret EXCEPT ![t] = IF call[t].op = "retract" THEN i ELSE @]
  /\ Goto(t, AfterRetract(t))
  /\ UNCHANGED <<clock, xact, now, call, todo, old, registry, lineage>>

CloseRejected(t) ==
  /\ At(t, "retract")
  /\ SeesOpen(t, call[t].id)
  /\ stmt[call[t].id].lo >= now[t]
  /\ Raise(t)

\* Mutated: the retraction is logged without a look at the row count.
NothingToClose_logged(t) ==
  /\ At(t, "retract")
  /\ ~ SeesOpen(t, call[t].id)
  /\ audit' = audit \cup {[tx |-> t, action |-> "retract", id |-> call[t].id, of |-> NoId]}
  /\ Goto(t, AfterRetract(t))
  /\ UNCHANGED <<clock, xact, now, locals, stmt, registry, lineage>>

\* The row is closed already: false, which donto_correct and
\* donto_promote_candidate do not look at.
NothingToClose(t) ==
  /\ At(t, "retract")
  /\ ~ SeesOpen(t, call[t].id)
  /\ Goto(t, AfterRetract(t))
  /\ UNCHANGED <<clock, xact, now, locals, stmt, registry, audit, lineage>>

\* select * into v_old ...: the row is read, not locked.  What is read fixes
\* the content to assert.
ReadOld(t) ==
  LET i == call[t].id IN
  /\ At(t, "read")
  /\ SeesOpen(t, i)
  /\ \/ /\ call[t].op = "correct"
        /\ todo' = [todo EXCEPT ![t] = <<[call[t].new EXCEPT !.ctx = stmt[i].content.ctx]>>]
        /\ Goto(t, "retract")
     \/ /\ call[t].op = "promote"
        /\ stmt[i].content.ctx \in Candidate
        /\ todo' = [todo EXCEPT ![t] = <<[stmt[i].content EXCEPT !.ctx = call[t].ctx]>>]
        /\ Goto(t, "ctx")
  /\ old' = [old EXCEPT ![t] = i]
  /\ UNCHANGED <<clock, xact, now, call, ret, stmt, registry, audit, lineage>>

\* No open statement, or not a candidate: an exception.
ReadRejected(t) ==
  LET i == call[t].id IN
  /\ At(t, "read")
  /\ \/ ~ SeesOpen(t, i)
     \/ SeesOpen(t, i) /\ call[t].op = "promote" /\ stmt[i].content.ctx \notin Candidate
  /\ Raise(t)

\* Mutated: the candidate is not retracted.
LinkLineage_keepsCandidate(t) ==
  /\ At(t, "lineage")
  /\ \/ /\ ret[t] # NoId
        /\ lineage' = lineage \cup {[tx |-> t, new |-> ret[t], source |-> old[t]]}
        /\ Goto(t, "log")
        /\ UNCHANGED <<clock, xact, now, locals, stmt, registry, audit>>
     \/ ret[t] = NoId /\ Raise(t)

\* donto_promote_candidate links the new row to the candidate; a NULL new id
\* breaks the primary key of donto_stmt_lineage.
LinkLineage(t) ==
  /\ At(t, "lineage")
  /\ \/ /\ ret[t] # NoId
        /\ lineage' = lineage \cup {[tx |-> t, new |-> ret[t], source |-> old[t]]}
        /\ Goto(t, "retract")
        /\ UNCHANGED <<clock, xact, now, locals, stmt, registry, audit>>
     \/ ret[t] = NoId /\ Raise(t)

\* The 'correct' or 'promote_candidate' audit entry.
LogReplacement(t) ==
  /\ At(t, "log")
  /\ audit' = audit \cup
       {[tx |-> t, id |-> ret[t], of |-> old[t],
         action |-> IF call[t].op = "correct" THEN "correct" ELSE "promote_candidate"]}
  /\ Goto(t, "done")
  /\ UNCHANGED <<clock, xact, now, locals, stmt, registry, lineage>>

Commit(t) ==
  /\ At(t, "done")
  /\ xact' = [xact EXCEPT ![t] = "committed"]
  /\ UNCHANGED <<clock, now, pc, locals, stmt, registry, audit, lineage>>

\* The deadlock detector cancels one transaction of the cycle.
CancelDeadlock(t) ==
  /\ Running(t)
  /\ Deadlocked(t)
  /\ Raise(t)

\* The connection drops or the server restarts before the commit.
Crash(t) ==
  /\ Running(t)
  /\ Raise(t)

Tick ==
  /\ clock < MaxTime
  /\ clock' = clock + 1
  /\ UNCHANGED <<xact, now, pc, locals, stmt, registry, audit, lineage>>

\* The SQL statements of a call.
Step(t) ==
  \/ EnsureContext(t) \/ CheckMode(t) \/ ImplicitRegister(t)
  \/ InsertStatement(t) \/ SkipInsert(t) \/ FetchOpen(t)
  \/ ReadOld(t) \/ ReadRejected(t)
  \/ CloseRow(t) \/ CloseRejected(t) \/ NothingToClose(t)
  \/ LinkLineage(t) \/ LogReplacement(t) \/ Commit(t)
  \/ CancelDeadlock(t)

Next == Tick \/ \E t \in Tx : Begin(t) \/ Step(t) \/ Crash(t)

Spec == Init /\ [][Next]_vars
-----------------------------------------------------------------------------
(* Reads *)

\* The rows everybody sees.
Stored(i) == stmt[i] # NoRow /\ Committed(stmt[i].by)
Closed(i) == Committed(stmt[i].end)

\* donto_match without p_as_of_tx: the current belief.
Current == {i \in Id : Stored(i) /\ ~ Closed(i)}

\* donto_match with p_as_of_tx = u: the rows with tx_time @> u.
AsOf(u) == {i \in Id : Stored(i) /\ stmt[i].lo <= u /\ (Closed(i) => u < stmt[i].hi)}
-----------------------------------------------------------------------------
(* Properties *)

TypeOK ==
  /\ clock \in 0..MaxTime
  /\ xact \in [Tx -> {"idle", "running", "committed", "aborted"}]
  /\ now \in [Tx -> 0..MaxTime]
  /\ call \in [Tx -> Calls \cup {NoCall}]
  /\ pc \in [Tx -> {"start", "ctx", "mode", "pred", "insert", "fetch", "read",
                    "retract", "lineage", "log", "done"}]
  /\ todo \in [Tx -> Seq(Content)]
  /\ old \in [Tx -> Id \cup {NoId}]
  /\ ret \in [Tx -> Id \cup {NoId}]
  /\ stmt \in [Id -> Row \cup {NoRow}]
  /\ ctxBy \in [Ctx -> Tx \cup {Install, NoTx}]
  /\ predBy \in [Pred -> Tx \cup {Install, NoTx}]
  /\ audit \subseteq Entry
  /\ lineage \subseteq [tx : Tx, new : Id, source : Id \cup {NoId}]

\* At most one open row per content, whatever the clients do at the same time:
\* the promise of donto_statement_open_content_uniq that every reader of the
\* current belief relies on.
OneOpenRowPerContent ==
  \A i, j \in Current : stmt[i].content = stmt[j].content => i = j

\* The audit log tells the whole history (PRD 22): every committed row has
\* exactly one committed 'assert' entry, every closed row exactly one committed
\* 'retract' entry, and no entry speaks of a row that is not there.
Logged(action, i) == {e \in audit : e.action = action /\ e.id = i /\ Committed(e.tx)}
AuditTellsHistory ==
  \A i \in Id :
    /\ IF Stored(i) THEN \E e \in audit : Logged("assert", i) = {e} /\ e.tx = stmt[i].by
       ELSE Logged("assert", i) = {}
    /\ IF Stored(i) /\ Closed(i)
       THEN \E e \in audit : Logged("retract", i) = {e} /\ e.tx = stmt[i].end
       ELSE Logged("retract", i) = {}

\* Every committed row is in a committed context; in a permissive context its
\* predicate has a committed registry row, in a curated one an active predicate:
\* although registration and insertion are separate statements of calls that
\* may wait for, or outlive, each other.
RegistryCoversLedger ==
  \A i \in Id : Stored(i) =>
    LET c == stmt[i].content IN
    /\ Committed(ctxBy[c.ctx])
    /\ Committed(predBy[c.pred])
    /\ c.ctx \in Curated => c.pred \in ActivePred

\* A correction or a promotion that has committed leaves the statement it
\* replaces closed, even when its own donto_retract came too late.
ReplacedIsClosed ==
  \A e \in audit :
    e.action \in {"correct", "promote_candidate"} /\ Committed(e.tx) => Stored(e.of) /\ Closed(e.of)

\* An assertion that returns an id returns a committed row of the content it
\* was given (the last one of a batch), its own or another call's.
ReturnedRowIsTheStatement ==
  \A t \in Tx :
    (xact[t] = "committed" /\ call[t].op = "assert" /\ ret[t] # NoId)
      => Stored(ret[t]) /\ stmt[ret[t]].content = call[t].stmts[Len(call[t].stmts)]

\* An assertion that has succeeded has not lost a statement: each statement of
\* its batch has a committed row, inserted by this call or by the call it gave
\* way to, although that one could still roll back; and NULL instead of an id
\* says that the row it gave way to has been retracted in between.
AssertedIsStored ==
  \A t \in Tx : xact[t] = "committed" /\ call[t].op = "assert" =>
    LET batch == call[t].stmts
        RowsOf(c) == {i \in Id : Stored(i) /\ stmt[i].content = c}
    IN /\ \A n \in 1..Len(batch) : RowsOf(batch[n]) # {}
       /\ ret[t] = NoId => \E i \in RowsOf(batch[Len(batch)]) : Closed(i)

\* Nothing is lost or rewritten: a committed row keeps its content and its
\* lower bound for ever, and once it is closed it keeps its upper bound.
AppendOnly ==
  [][\A i \in Id : Stored(i) =>
       /\ Stored(i)'
       /\ stmt'[i].content = stmt[i].content /\ stmt'[i].lo = stmt[i].lo
       /\ Closed(i) => Closed(i)' /\ stmt'[i].hi = stmt[i].hi]_vars

\* "Transaction-time reconstruction of what was believed and visible at any
\* prior system time" (DONTO-PRD.md:131-133), as far as the code grants it: an
\* as-of read of a time before every running transaction began gives the same
\* answer for ever.  (Of a time merely past it does not: rows are stamped with
\* the beginning of a transaction that commits later.)
PastIsSettled ==
  [][\A u \in 0..MaxTime :
       (u < clock /\ \A t \in Tx : Running(t) => u < now[t]) => AsOf(u)' = AsOf(u)]_vars
-----------------------------------------------------------------------------
(* Strengthenings the proofs of LedgerProofs rest on *)

\* The label a transaction is at fits the function it runs.
CallOK ==
  \A t \in Tx :
    /\ pc[t] \in {"ctx", "mode", "pred", "insert", "fetch"}
         => todo[t] # <<>> /\ call[t].op \in {"assert", "correct", "promote"}
    /\ pc[t] \in {"read", "log", "lineage"} => call[t].op \in {"correct", "promote"}
    /\ pc[t] = "lineage" => call[t].op = "promote"
    /\ pc[t] = "retract" =>
         /\ call[t].op \in {"retract", "correct", "promote"}
         /\ call[t].op = "correct" => todo[t] # <<>>

\* A transaction began at a time that has come.
BeganInThePast == \A t \in Tx : now[t] <= clock

\* Rows carry the times of the transactions that wrote them; only a row that
\* was committed first is ever closed, and later than it was opened.
RowsOK ==
  \A i \in Id : stmt[i] # NoRow =>
    /\ xact[stmt[i].by] # "idle"
    /\ stmt[i].lo = now[stmt[i].by]
    /\ stmt[i].end # NoTx =>
         /\ Committed(stmt[i].by)
         /\ xact[stmt[i].end] # "idle"
         /\ stmt[i].hi = now[stmt[i].end]
         /\ stmt[i].lo < stmt[i].hi

\* Two live rows of one content exist only inside a running transaction that
\* has closed the one and opened the other.
Handing(i, j) == Running(stmt[i].end) /\ stmt[j].by = stmt[i].end
OneLiveRow ==
  \A i, j \in Id :
    (Live(i) /\ Live(j) /\ stmt[i].content = stmt[j].content)
      => i = j \/ Handing(i, j) \/ Handing(j, i)

LedgerInv == TypeOK /\ CallOK /\ BeganInThePast /\ RowsOK /\ OneLiveRow
=============================================================================
