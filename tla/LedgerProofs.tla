---------------------------- MODULE LedgerProofs ----------------------------
(***************************************************************************)
(* Proofs about Ledger, for any set of transactions, statements, contexts, *)
(* predicates and batches.  The inductive invariant is LedgerInv.          *)
(***************************************************************************)
EXTENDS LedgerBeliefs, TLAPS

Typed == TypeOK /\ CallOK

USE SeedsAreContexts, ActiveArePredicates, BatchesAreLists, TimeIsNatural,
    TxNames, IdNames, RowName

\* What a call carries, by the function it runs.
LEMMA CallFields ==
  ASSUME TypeOK, NEW t \in Tx
  PROVE  /\ call[t].op \in {"retract", "correct", "promote"} => call[t].id \in Id
         /\ call[t].op = "correct" => call[t].new \in Content
         /\ call[t].op = "promote" => call[t].ctx \in Ctx
<1>1. call[t] \in Calls \cup {NoCall}
  BY DEF TypeOK
<1>. QED BY <1>1 DEF Calls, NoCall

\* A row that is there has the fields of a row.
LEMMA RowFields ==
  ASSUME TypeOK, NEW i \in Id, stmt[i] # NoRow
  PROVE  /\ stmt[i] \in Row
         /\ stmt[i].content \in Content /\ stmt[i].lo \in Nat /\ stmt[i].by \in Tx
         /\ stmt[i].hi \in Nat /\ stmt[i].end \in Tx \cup {NoTx}
<1>1. stmt[i] \in Row
  BY DEF TypeOK
<1>. QED BY <1>1 DEF Row

\* A content moved to another context is a content.
LEMMA MovedContent ==
  ASSUME NEW d \in Content, NEW c \in Ctx
  PROVE  <<[d EXCEPT !.ctx = c]>> \in Seq(Content)
<1>1. [d EXCEPT !.ctx = c] \in Content
  BY DEF Content
<1>. QED BY <1>1

LEMMA TypingInit == Init => Typed
<1>. SUFFICES ASSUME Init PROVE Typed
  OBVIOUS
<1>1. TypeOK
  BY DEF Init, TypeOK, Entry
<1>2. CallOK
  BY DEF Init, CallOK
<1>. QED BY <1>1, <1>2 DEF Typed

\* An exception changes the status of the transaction and nothing else.
LEMMA TypingRaise ==
  ASSUME Typed, NEW t \in Tx, Raise(t)
  PROVE  Typed'
<1>1. TypeOK'
  BY DEF Typed, TypeOK, Raise, locals, registry
<1>2. CallOK'
  BY DEF Typed, CallOK, Raise, locals, registry
<1>. QED BY <1>1, <1>2 DEF Typed

LEMMA TypingBegin ==
  ASSUME Typed, NEW t \in Tx, Begin(t)
  PROVE  Typed'
<1>1. PICK c \in Calls :
        /\ c.op = "assert" => c.stmts # <<>>
        /\ call' = [call EXCEPT ![t] = c]
        /\ todo' = [todo EXCEPT ![t] = IF c.op = "assert" THEN c.stmts ELSE <<>>]
        /\ Goto(t, First[c.op])
  BY DEF Begin
<1>2. c.op \in {"assert", "retract", "correct", "promote"} /\ (c.op = "assert" => c.stmts \in Seq(Content))
  BY DEF Calls
<1>3. First[c.op] = IF c.op = "assert" THEN "ctx" ELSE IF c.op = "retract" THEN "retract" ELSE "read"
  BY <1>2 DEF First
<1>4. todo' \in [Tx -> Seq(Content)]
  BY <1>1, <1>2 DEF Typed, TypeOK
<1>5. TypeOK'
  BY <1>1, <1>2, <1>3, <1>4 DEF Typed, TypeOK, Begin, Goto, registry
<1>6. CallOK'
  BY <1>1, <1>2, <1>3 DEF Typed, TypeOK, CallOK, Goto
<1>. QED BY <1>5, <1>6 DEF Typed

\* donto_assert: the labels of its statements are reached with a content left
\* to assert, and what follows it fits the function that called it.
LEMMA TypingAssert ==
  ASSUME Typed, NEW t \in Tx,
         \/ EnsureContext(t) \/ CheckMode(t) \/ ImplicitRegister(t)
         \/ InsertStatement(t) \/ SkipInsert(t) \/ FetchOpen(t)
  PROVE  Typed'
<1>. USE DEF Typed, TypeOK, CallOK, At, Goto, locals, registry
<1>1. CASE EnsureContext(t)
  BY <1>1 DEF EnsureContext
<1>2. CASE CheckMode(t)
  <2>1. CASE Raise(t)
    BY <2>1, TypingRaise
  <2>2. CASE ~ Raise(t)
    BY <1>2, <2>2 DEF CheckMode
  <2>. QED BY <2>1, <2>2
<1>3. CASE ImplicitRegister(t)
  BY <1>3 DEF ImplicitRegister
<1>4. ASSUME pc[t] \in {"insert", "fetch"}
      PROVE  /\ Head(todo[t]) \in Content /\ Tail(todo[t]) \in Seq(Content)
             /\ AfterAssert(t) = IF Tail(todo[t]) # <<>> THEN "ctx"
                                 ELSE IF call[t].op = "assert" THEN "done"
                                 ELSE IF call[t].op = "correct" THEN "log" ELSE "lineage"
  <2>1. todo[t] # <<>> /\ call[t].op \in {"assert", "correct", "promote"}
    BY <1>4
  <2>2. Head(todo[t]) \in Content /\ Tail(todo[t]) \in Seq(Content)
    BY <2>1
  <2>. QED BY <2>1, <2>2 DEF AfterAssert
<1>5. CASE InsertStatement(t)
  <2>1. PICK i \in Id :
          /\ stmt' = [stmt EXCEPT ![i] = [content |-> Head(todo[t]), lo |-> now[t],
                                          by |-> t, hi |-> 0, end |-> NoTx]]
          /\ ret' = [ret EXCEPT ![t] = i]
          /\ audit' = audit \cup {[tx |-> t, action |-> "assert", id |-> i, of |-> NoId]}
    BY <1>5 DEF InsertStatement
  <2>2. stmt' \in [Id -> Row \cup {NoRow}]
    BY <1>4, <1>5, <2>1 DEF Row, InsertStatement
  <2>3. audit' \subseteq Entry
    BY <2>1 DEF Entry
  <2>4. TypeOK'
    BY <1>4, <1>5, <2>1, <2>2, <2>3 DEF InsertStatement
  <2>5. CallOK'
    BY <1>4, <1>5, <2>1 DEF InsertStatement
  <2>. QED BY <2>4, <2>5
<1>6. CASE SkipInsert(t)
  BY <1>6 DEF SkipInsert
<1>7. CASE FetchOpen(t)
  <2>1. ret' \in [Tx -> Id \cup {NoId}]
    BY <1>7 DEF FetchOpen
  <2>2. TypeOK'
    BY <1>4, <1>7, <2>1 DEF FetchOpen
  <2>3. CallOK'
    BY <1>4, <1>7 DEF FetchOpen
  <2>. QED BY <2>2, <2>3
<1>. QED BY <1>1, <1>2, <1>3, <1>5, <1>6, <1>7

\* donto_retract, and what donto_correct and donto_promote_candidate do around
\* it.
LEMMA TypingReplace ==
  ASSUME Typed, NEW t \in Tx,
         \/ CloseRow(t) \/ CloseRejected(t) \/ NothingToClose(t)
         \/ ReadOld(t) \/ ReadRejected(t) \/ LinkLineage(t) \/ LogReplacement(t)
  PROVE  Typed'
<1>. USE DEF Typed, TypeOK, CallOK, At, Goto, locals, registry
<1>1. ASSUME pc[t] = "retract"
      PROVE  /\ call[t].id \in Id
             /\ AfterRetract(t) = IF call[t].op = "retract" THEN "done"
                                  ELSE IF call[t].op = "correct" THEN "ctx" ELSE "log"
  <2>1. call[t].op \in {"retract", "correct", "promote"}
    BY <1>1
  <2>. QED BY <2>1, CallFields DEF AfterRetract
<1>2. CASE CloseRow(t)
  <2>. DEFINE i == call[t].id
  <2>1. i \in Id /\ stmt[i] # NoRow /\ now[t] \in Nat
    BY <1>1, <1>2 DEF CloseRow, SeesOpen
  <2>2. stmt' \in [Id -> Row \cup {NoRow}]
    <3>1. stmt[i] \in Row
      BY <2>1
    <3>2. stmt' = [stmt EXCEPT ![i] = [stmt[i] EXCEPT !.hi = now[t], !.end = t]]
      BY <1>2, <2>1, <3>1 DEF CloseRow, Row
    <3>3. [stmt[i] EXCEPT !.hi = now[t], !.end = t] \in Row
      BY <2>1, <3>1 DEF Row
    <3>. QED BY <3>2, <3>3
  <2>3. audit' \subseteq Entry
    BY <1>2, <2>1 DEF CloseRow, Entry
  <2>4. ret' \in [Tx -> Id \cup {NoId}]
    BY <1>2, <2>1 DEF CloseRow
  <2>5. TypeOK'
    BY <1>1, <1>2, <2>2, <2>3, <2>4 DEF CloseRow
  <2>6. CallOK'
    BY <1>1, <1>2 DEF CloseRow
  <2>. QED BY <2>5, <2>6
<1>3. CASE CloseRejected(t)
  BY <1>3, TypingRaise DEF CloseRejected
<1>4. CASE NothingToClose(t)
  BY <1>1, <1>4 DEF NothingToClose
<1>5. CASE ReadOld(t)
  <2>. DEFINE i == call[t].id
  <2>1. call[t].op \in {"correct", "promote"} /\ i \in Id
    BY <1>5, CallFields DEF ReadOld
  <2>2. stmt[i].content \in Content
    BY <1>5, <2>1, RowFields DEF ReadOld, SeesOpen
  <2>3. PICK s \in Seq(Content) :
          /\ s # <<>>
          /\ todo' = [todo EXCEPT ![t] = s]
          /\ \/ call[t].op = "correct" /\ Goto(t, "retract")
             \/ call[t].op = "promote" /\ Goto(t, "ctx")
    <3>1. stmt[i].content.ctx \in Ctx
      BY <2>2 DEF Content
    <3>2. CASE call[t].op = "correct"
      <4>. DEFINE s == <<[call[t].new EXCEPT !.ctx = stmt[i].content.ctx]>>
      <4>1. s \in Seq(Content) /\ s # <<>>
        BY <3>1, <3>2, CallFields, MovedContent
      <4>. QED BY <1>5, <3>2, <4>1 DEF ReadOld
    <3>3. CASE call[t].op = "promote"
      <4>. DEFINE s == <<[stmt[i].content EXCEPT !.ctx = call[t].ctx]>>
      <4>1. s \in Seq(Content) /\ s # <<>>
        BY <2>2, <3>3, CallFields, MovedContent
      <4>. QED BY <1>5, <3>3, <4>1 DEF ReadOld
    <3>. QED BY <2>1, <3>2, <3>3
  <2>4. old' \in [Tx -> Id \cup {NoId}]
        /\ UNCHANGED <<clock, xact, now, call, ret, stmt, ctxBy, predBy, audit, lineage>>
    BY <1>5, <2>1 DEF ReadOld
  <2>. QED BY <2>3, <2>4
<1>6. CASE ReadRejected(t)
  BY <1>6, TypingRaise DEF ReadRejected
<1>7. CASE LinkLineage(t)
  <2>1. CASE Raise(t)
    BY <2>1, TypingRaise
  <2>2. CASE ~ Raise(t)
    <3>1. lineage' = lineage \cup {[tx |-> t, new |-> ret[t], source |-> old[t]]} /\ ret[t] \in Id
      BY <1>7, <2>2 DEF LinkLineage
    <3>2. lineage' \subseteq [tx : Tx, new : Id, source : Id \cup {NoId}]
      BY <3>1
    <3>3. TypeOK'
      BY <1>7, <2>2, <3>2 DEF LinkLineage
    <3>4. CallOK'
      BY <1>7, <2>2 DEF LinkLineage
    <3>. QED BY <3>3, <3>4
  <2>. QED BY <2>1, <2>2
<1>8. CASE LogReplacement(t)
  <2>1. audit' \subseteq Entry
    BY <1>8 DEF LogReplacement, Entry
  <2>. QED BY <1>8, <2>1 DEF LogReplacement
<1>. QED BY <1>2, <1>3, <1>4, <1>5, <1>6, <1>7, <1>8

LEMMA TypingNext == Typed /\ [Next]_vars => Typed'
<1>. SUFFICES ASSUME Typed, [Next]_vars PROVE Typed'
  OBVIOUS
<1>1. CASE Tick
  BY <1>1 DEF Typed, TypeOK, CallOK, Tick, locals, registry
<1>2. ASSUME NEW t \in Tx, Begin(t) PROVE Typed'
  BY <1>2, TypingBegin
<1>3. ASSUME NEW t \in Tx, Step(t) PROVE Typed'
  <2>1. CASE Commit(t)
    BY <2>1 DEF Typed, TypeOK, CallOK, Commit, locals, registry
  <2>2. CASE CancelDeadlock(t)
    BY <2>2, TypingRaise DEF CancelDeadlock
  <2>. QED BY <1>3, <2>1, <2>2, TypingAssert, TypingReplace DEF Step
<1>4. ASSUME NEW t \in Tx, Crash(t) PROVE Typed'
  BY <1>4, TypingRaise DEF Crash
<1>5. CASE UNCHANGED vars
  BY <1>5 DEF Typed, TypeOK, CallOK, vars, locals, registry
<1>. QED BY <1>1, <1>2, <1>3, <1>4, <1>5 DEF Next

\* Every reachable state is well typed, and every transaction is at a label of
\* the function it runs.
THEOREM Typing == Spec => []TypeOK
<1>1. Spec => []Typed
  BY TypingInit, TypingNext, PTL DEF Spec
<1>. QED BY <1>1, PTL DEF Typed
-----------------------------------------------------------------------------
(* What the steps do to the table of statements *)

\* The steps that write neither a statement nor the status of a transaction.
Elsewhere == UNCHANGED <<clock, xact, now, stmt>>

LEMMA StepKinds ==
  ASSUME [Next]_vars
  PROVE  \/ Elsewhere
         \/ Tick
         \/ \E t \in Tx : \/ Begin(t) \/ InsertStatement(t) \/ CloseRow(t)
                          \/ Commit(t) \/ (Running(t) /\ Raise(t))
<1>1. ASSUME NEW t \in Tx, Step(t)
      PROVE  Elsewhere \/ InsertStatement(t) \/ CloseRow(t) \/ Commit(t) \/ (Running(t) /\ Raise(t))
  BY <1>1 DEF Step, Elsewhere, At, Running, EnsureContext, CheckMode, ImplicitRegister, SkipInsert,
              FetchOpen, ReadOld, ReadRejected, CloseRejected, NothingToClose, LinkLineage,
              LogReplacement, CancelDeadlock
<1>. QED BY <1>1 DEF Next, Crash, Elsewhere, vars

\* The insertion and the closing of a row, field by field.
LEMMA InsertedRow ==
  ASSUME TypeOK, CallOK, NEW t \in Tx, InsertStatement(t)
  PROVE  \E i \in Id :
           /\ stmt[i] = NoRow /\ stmt'[i] # NoRow
           /\ stmt'[i].content = Head(todo[t]) /\ stmt'[i].lo = now[t]
           /\ stmt'[i].by = t /\ stmt'[i].end = NoTx
           /\ \A j \in Id \ {i} : stmt'[j] = stmt[j]
           /\ \A j \in Id : ~ (Live(j) /\ stmt[j].content = Head(todo[t]) /\ stmt[j].end # t)
           /\ xact[t] = "running" /\ UNCHANGED <<clock, xact, now>>
           /\ ret' = [ret EXCEPT ![t] = i]
           /\ audit' = audit \cup {[tx |-> t, action |-> "assert", id |-> i, of |-> NoId]}
<1>1. PICK i \in Id :
        /\ stmt[i] = NoRow
        /\ stmt' = [stmt EXCEPT ![i] = [content |-> Head(todo[t]), lo |-> now[t],
                                        by |-> t, hi |-> 0, end |-> NoTx]]
        /\ ret' = [ret EXCEPT ![t] = i]
        /\ audit' = audit \cup {[tx |-> t, action |-> "assert", id |-> i, of |-> NoId]}
  BY DEF InsertStatement
<1>2. stmt'[i] = [content |-> Head(todo[t]), lo |-> now[t], by |-> t, hi |-> 0, end |-> NoTx]
  BY <1>1 DEF TypeOK
<1>3. Head(todo[t]) \in Content
  BY DEF TypeOK, CallOK, InsertStatement, At
<1>4. now[t] \in Nat
  BY DEF TypeOK
<1>5. stmt'[i] \in Row
  BY <1>2, <1>3, <1>4 DEF Row
<1>6. stmt'[i] # NoRow
  BY <1>5 DEF Row
<1>7. \A j \in Id \ {i} : stmt'[j] = stmt[j]
  BY <1>1 DEF TypeOK
<1>8. \A j \in Id : ~ (Live(j) /\ stmt[j].content = Head(todo[t]) /\ stmt[j].end # t)
  BY DEF InsertStatement, Rivals
<1>9. xact[t] = "running" /\ UNCHANGED <<clock, xact, now>>
  BY DEF InsertStatement, At
<1>10. /\ stmt'[i].content = Head(todo[t]) /\ stmt'[i].lo = now[t]
       /\ stmt'[i].by = t /\ stmt'[i].end = NoTx
  BY <1>2
<1>. QED
  <2>. WITNESS i \in Id
  <2>. QED BY <1>1, <1>6, <1>7, <1>8, <1>9, <1>10

LEMMA ClosedRow ==
  ASSUME TypeOK, CallOK, NEW t \in Tx, CloseRow(t)
  PROVE  \E i \in Id :
           /\ stmt[i] # NoRow /\ stmt'[i] # NoRow
           /\ Sees(t, stmt[i].by) /\ ~ Sees(t, stmt[i].end) /\ stmt[i].lo < now[t]
           /\ ~ Running(stmt[i].end)
           /\ stmt'[i].content = stmt[i].content /\ stmt'[i].lo = stmt[i].lo
           /\ stmt'[i].by = stmt[i].by
           /\ stmt'[i].hi = now[t] /\ stmt'[i].end = t
           /\ \A j \in Id \ {i} : stmt'[j] = stmt[j]
           /\ xact[t] = "running" /\ UNCHANGED <<clock, xact, now>>
           /\ i = call[t].id
           /\ audit' = audit \cup {[tx |-> t, action |-> "retract", id |-> i, of |-> NoId]}
<1>. DEFINE i == call[t].id
<1>1. i \in Id
  BY CallFields DEF CloseRow, At, CallOK
<1>2. stmt[i] # NoRow /\ Sees(t, stmt[i].by) /\ ~ Sees(t, stmt[i].end) /\ stmt[i].lo < now[t]
  BY DEF CloseRow, SeesOpen
<1>3. stmt[i] \in Row /\ now[t] \in Nat
  BY <1>1, <1>2 DEF TypeOK
<1>4. stmt' = [stmt EXCEPT ![i] = [stmt[i] EXCEPT !.hi = now[t], !.end = t]]
  BY <1>1, <1>3 DEF CloseRow, TypeOK, Row
<1>5. stmt'[i] = [stmt[i] EXCEPT !.hi = now[t], !.end = t]
  BY <1>1, <1>4 DEF TypeOK
<1>6. stmt'[i] \in Row
  BY <1>3, <1>5 DEF Row
<1>7. ~ Running(stmt[i].end)
  <2>. SUFFICES ASSUME Running(stmt[i].end) PROVE FALSE
    OBVIOUS
  <2>1. stmt[i].end \in Tx \ {t}
    BY <1>2 DEF Running, Sees
  <2>2. stmt[i].end \in WaitsFor(t)
    BY <2>1 DEF WaitsFor, CloseRow, At
  <2>. QED BY <2>2 DEF CloseRow, At
<1>8. xact[t] = "running" /\ UNCHANGED <<clock, xact, now>>
  BY DEF CloseRow, At
<1>9. stmt'[i].content = stmt[i].content /\ stmt'[i].lo = stmt[i].lo /\ stmt'[i].by = stmt[i].by
      /\ stmt'[i].hi = now[t] /\ stmt'[i].end = t
  BY <1>3, <1>5 DEF Row
<1>10. \A j \in Id \ {i} : stmt'[j] = stmt[j]
  BY <1>4 DEF TypeOK
<1>11. stmt'[i] # NoRow
  BY <1>6 DEF Row
<1>12. audit' = audit \cup {[tx |-> t, action |-> "retract", id |-> i, of |-> NoId]}
  BY DEF CloseRow
<1>. HIDE DEF i
<1>. QED BY <1>1, <1>2, <1>7, <1>8, <1>9, <1>10, <1>11, <1>12 DEF i
-----------------------------------------------------------------------------
(* The inductive invariant *)

LEMMA BeganNext ==
  ASSUME TypeOK, BeganInThePast, [Next]_vars
  PROVE  BeganInThePast'
<1>. USE DEF BeganInThePast, TypeOK
<1>1. CASE Elsewhere
  BY <1>1 DEF Elsewhere
<1>2. CASE Tick
  BY <1>2 DEF Tick
<1>3. ASSUME NEW t \in Tx, Begin(t) PROVE BeganInThePast'
  BY <1>3 DEF Begin
<1>4. ASSUME NEW t \in Tx, InsertStatement(t) \/ CloseRow(t) \/ Commit(t) \/ Raise(t)
      PROVE  BeganInThePast'
  BY <1>4 DEF InsertStatement, CloseRow, Commit, Raise
<1>. QED BY <1>1, <1>2, <1>3, <1>4, StepKinds

LEMMA RowsNext ==
  ASSUME TypeOK, CallOK, RowsOK, [Next]_vars
  PROVE  RowsOK'
<1>. USE DEF RowsOK, Committed
<1>1. CASE Elsewhere
  BY <1>1 DEF Elsewhere
<1>2. CASE Tick
  BY <1>2 DEF Tick
<1>3. ASSUME NEW t \in Tx, Begin(t) PROVE RowsOK'
  <2>1. xact[t] = "idle" /\ xact' = [xact EXCEPT ![t] = "running"]
        /\ now' = [now EXCEPT ![t] = clock] /\ stmt' = stmt
    BY <1>3 DEF Begin
  <2>. QED BY <2>1, RowFields DEF TypeOK
<1>4. ASSUME NEW t \in Tx, InsertStatement(t) PROVE RowsOK'
  <2>1. PICK i \in Id :
          /\ stmt'[i].lo = now[t] /\ stmt'[i].by = t /\ stmt'[i].end = NoTx
          /\ \A j \in Id \ {i} : stmt'[j] = stmt[j]
          /\ xact[t] = "running" /\ xact' = xact /\ now' = now
    BY <1>4, InsertedRow
  <2>. QED BY <2>1
<1>5. ASSUME NEW t \in Tx, CloseRow(t) PROVE RowsOK'
  <2>1. PICK i \in Id :
          /\ stmt[i] # NoRow /\ stmt'[i] # NoRow
          /\ Sees(t, stmt[i].by) /\ stmt[i].lo < now[t]
          /\ stmt'[i].lo = stmt[i].lo /\ stmt'[i].by = stmt[i].by
          /\ stmt'[i].hi = now[t] /\ stmt'[i].end = t
          /\ \A j \in Id \ {i} : stmt'[j] = stmt[j]
          /\ xact[t] = "running" /\ UNCHANGED <<clock, xact, now>>
    BY <1>5, ClosedRow
  <2>2. Committed(stmt[i].by)
    <3>1. stmt[i].by # t
      BY <2>1, RowFields DEF TypeOK
    <3>. QED BY <2>1, <3>1 DEF Sees
  <2>. QED BY <2>1, <2>2
<1>6. ASSUME NEW t \in Tx, Commit(t) \/ (Running(t) /\ Raise(t)) PROVE RowsOK'
  <2>1. /\ xact[t] = "running" /\ UNCHANGED <<now, stmt>>
        /\ \/ xact' = [xact EXCEPT ![t] = "committed"]
           \/ xact' = [xact EXCEPT ![t] = "aborted"]
    BY <1>6 DEF Commit, Raise, Running, At
  <2>. QED BY <2>1, RowFields DEF TypeOK
<1>. QED BY <1>1, <1>2, <1>3, <1>4, <1>5, <1>6, StepKinds

LEMMA OneLiveRowNext ==
  ASSUME TypeOK, CallOK, RowsOK, OneLiveRow, [Next]_vars
  PROVE  OneLiveRow'
<1>. SUFFICES ASSUME NEW i \in Id, NEW j \in Id, i # j, Live(i)', Live(j)',
                     stmt'[i].content = stmt'[j].content
              PROVE  Handing(i, j)' \/ Handing(j, i)'
  BY DEF OneLiveRow
<1>. USE DEF Live, Handing, Running, Committed
<1>1. CASE Elsewhere \/ Tick
  BY <1>1 DEF Elsewhere, Tick, OneLiveRow
<1>2. ASSUME NEW t \in Tx, Begin(t) PROVE Handing(i, j)' \/ Handing(j, i)'
  <2>1. xact[t] = "idle" /\ xact' = [xact EXCEPT ![t] = "running"] /\ stmt' = stmt
    BY <1>2 DEF Begin
  <2>2. Live(i) /\ Live(j)
    BY <2>1, RowFields DEF RowsOK, TypeOK
  <2>3. Handing(i, j) \/ Handing(j, i)
    BY <2>1, <2>2 DEF OneLiveRow
  <2>. QED BY <2>1, <2>3 DEF TypeOK
<1>3. ASSUME NEW t \in Tx, InsertStatement(t) PROVE Handing(i, j)' \/ Handing(j, i)'
  <2>1. PICK k \in Id :
          /\ stmt'[k].content = Head(todo[t]) /\ stmt'[k].by = t
          /\ \A l \in Id \ {k} : stmt'[l] = stmt[l]
          /\ \A l \in Id : ~ (Live(l) /\ stmt[l].content = Head(todo[t]) /\ stmt[l].end # t)
          /\ xact[t] = "running" /\ xact' = xact
    BY <1>3, InsertedRow
  <2>2. CASE i # k /\ j # k
    BY <2>1, <2>2 DEF OneLiveRow
  <2>3. CASE i = k
    BY <2>1, <2>3
  <2>4. CASE j = k
    BY <2>1, <2>4
  <2>. QED BY <2>2, <2>3, <2>4
<1>4. ASSUME NEW t \in Tx, CloseRow(t) PROVE Handing(i, j)' \/ Handing(j, i)'
  <2>1. PICK k \in Id :
          /\ stmt[k] # NoRow /\ Sees(t, stmt[k].by) /\ ~ Sees(t, stmt[k].end) /\ stmt[k].lo < now[t]
          /\ ~ Running(stmt[k].end)
          /\ stmt'[k].content = stmt[k].content /\ stmt'[k].by = stmt[k].by
          /\ \A l \in Id \ {k} : stmt'[l] = stmt[l]
          /\ xact' = xact
    BY <1>4, ClosedRow
  <2>2. stmt[k].by # t /\ Committed(stmt[k].by)
    BY <2>1, RowFields DEF RowsOK, TypeOK, Sees
  <2>3. Live(i) /\ Live(j) /\ stmt[i].content = stmt[j].content
    BY <2>1, <2>2 DEF Sees
  <2>4. Handing(i, j) \/ Handing(j, i)
    BY <2>3 DEF OneLiveRow
  <2>. QED BY <2>1, <2>2, <2>4
<1>5. ASSUME NEW t \in Tx, Commit(t) \/ (Running(t) /\ Raise(t))
      PROVE  Handing(i, j)' \/ Handing(j, i)'
  <2>1. /\ xact[t] = "running" /\ stmt' = stmt
        /\ \/ xact' = [xact EXCEPT ![t] = "committed"]
           \/ xact' = [xact EXCEPT ![t] = "aborted"]
    BY <1>5 DEF Commit, Raise, At
  <2>2. Live(i) /\ Live(j)
    BY <2>1, RowFields DEF TypeOK
  <2>3. Handing(i, j) \/ Handing(j, i)
    BY <2>1, <2>2 DEF OneLiveRow
  <2>. QED BY <2>1, <2>3, RowFields DEF TypeOK
<1>. QED BY <1>1, <1>2, <1>3, <1>4, <1>5, StepKinds

LEMMA InvNext == LedgerInv /\ [Next]_vars => LedgerInv'
BY TypingNext, BeganNext, RowsNext, OneLiveRowNext DEF LedgerInv, Typed

\* The inductive invariant holds in every reachable state.
THEOREM Invariance == Spec => []LedgerInv
<1>1. Init => LedgerInv
  <2>. SUFFICES ASSUME Init PROVE LedgerInv
    OBVIOUS
  <2>1. TypeOK /\ CallOK
    BY TypingInit DEF Typed
  <2>2. BeganInThePast /\ RowsOK /\ OneLiveRow
    BY DEF Init, BeganInThePast, RowsOK, OneLiveRow, Live
  <2>. QED BY <2>1, <2>2 DEF LedgerInv
<1>. QED BY <1>1, InvNext, PTL DEF Spec

\* One live row per content and no running writer among committed ones.
LEMMA InvImpliesUnique ==
  ASSUME LedgerInv
  PROVE  OneOpenRowPerContent
<1>. SUFFICES ASSUME NEW i \in Current, NEW j \in Current,
                     stmt[i].content = stmt[j].content, i # j
              PROVE  FALSE
  BY DEF OneOpenRowPerContent
<1>1. Live(i) /\ Live(j)
  BY DEF Current, Stored, Closed, Live
<1>2. Handing(i, j) \/ Handing(j, i)
  BY <1>1 DEF LedgerInv, OneLiveRow, Current
<1>. QED BY <1>2 DEF Handing, Current, Stored, Running, Committed

\* The current belief never holds one content twice: whatever transactions
\* insert and close rows at the same time, and whichever of them abort.
THEOREM Uniqueness == Spec => []OneOpenRowPerContent
BY InvImpliesUnique, Invariance, PTL
-----------------------------------------------------------------------------
(* Action properties *)

\* What a step does to one committed row.
RowKept(i) ==
  /\ Stored(i)'
  /\ stmt'[i].content = stmt[i].content /\ stmt'[i].lo = stmt[i].lo
  /\ Closed(i) => Closed(i)' /\ stmt'[i].hi = stmt[i].hi

LEMMA CommittedStays ==
  ASSUME TypeOK, [Next]_vars, NEW u, Committed(u)
  PROVE  Committed(u)'
<1>1. ASSUME NEW t \in Tx, Begin(t) PROVE xact[t] = "idle" /\ xact' = [xact EXCEPT ![t] = "running"]
  BY <1>1 DEF Begin
<1>2. ASSUME NEW t \in Tx, Commit(t) \/ (Running(t) /\ Raise(t))
      PROVE  xact[t] = "running" /\ (\/ xact' = [xact EXCEPT ![t] = "committed"]
                                     \/ xact' = [xact EXCEPT ![t] = "aborted"])
  BY <1>2 DEF Commit, Raise, Running, At
<1>3. ASSUME NEW t \in Tx, InsertStatement(t) \/ CloseRow(t) PROVE xact' = xact
  BY <1>3 DEF InsertStatement, CloseRow
<1>4. (Elsewhere \/ Tick) => xact' = xact
  BY DEF Elsewhere, Tick
<1>. QED BY <1>1, <1>2, <1>3, <1>4, StepKinds DEF Committed, TypeOK

LEMMA RowsKept ==
  ASSUME LedgerInv, [Next]_vars, NEW i \in Id, Stored(i)
  PROVE  RowKept(i)
<1>. USE DEF LedgerInv, RowKept, Stored, Closed
<1>1. ASSUME stmt'[i] = stmt[i] PROVE RowKept(i)
  BY <1>1, CommittedStays
<1>2. ASSUME NEW t \in Tx, InsertStatement(t) PROVE RowKept(i)
  BY <1>1, <1>2, InsertedRow
<1>3. ASSUME NEW t \in Tx, CloseRow(t) PROVE RowKept(i)
  <2>1. PICK k \in Id :
          /\ stmt'[k] # NoRow /\ ~ Sees(t, stmt[k].end)
          /\ stmt'[k].content = stmt[k].content /\ stmt'[k].lo = stmt[k].lo
          /\ stmt'[k].by = stmt[k].by
          /\ \A l \in Id \ {k} : stmt'[l] = stmt[l]
    BY <1>3, ClosedRow
  <2>2. CASE i = k
    BY <2>1, <2>2, CommittedStays DEF Sees
  <2>. QED BY <1>1, <2>1, <2>2
<1>4. ASSUME stmt' = stmt PROVE RowKept(i)
  BY <1>1, <1>4
<1>5. ASSUME NEW t \in Tx, Begin(t) \/ Commit(t) \/ Raise(t) PROVE stmt' = stmt
  BY <1>5 DEF Begin, Commit, Raise
<1>6. (Elsewhere \/ Tick) => stmt' = stmt
  BY DEF Elsewhere, Tick
<1>. QED BY <1>2, <1>3, <1>4, <1>5, <1>6, StepKinds

\* No step of any client loses or rewrites a committed row, and a row is closed
\* once.
THEOREM History == Spec => AppendOnly
<1>1. LedgerInv /\ [Next]_vars => [\A i \in Id : Stored(i) => RowKept(i)]_vars
  BY RowsKept
<1>2. (\A i \in Id : Stored(i) => RowKept(i)) =>
      (\A i \in Id : Stored(i) =>
         /\ Stored(i)'
         /\ stmt'[i].content = stmt[i].content /\ stmt'[i].lo = stmt[i].lo
         /\ Closed(i) => Closed(i)' /\ stmt'[i].hi = stmt[i].hi)
  BY DEF RowKept
<1>. QED BY <1>1, <1>2, Invariance, PTL DEF Spec, AppendOnly

\* A row that comes into sight, or is closed, was written by a transaction that
\* was running: neither reaches back before that transaction began.
LEMMA SettledRow ==
  ASSUME LedgerInv, [Next]_vars, NEW u \in 0..MaxTime, u < clock,
         \A t \in Tx : Running(t) => u < now[t], NEW i \in Id
  PROVE  i \in AsOf(u)' <=> i \in AsOf(u)
<1>. USE DEF LedgerInv, AsOf, Stored, Closed
<1>1. CASE Stored(i)
  <2>1. RowKept(i)
    BY <1>1, RowsKept
  <2>2. CASE Closed(i) \/ ~ Closed(i)'
    BY <1>1, <2>1, <2>2 DEF RowKept
  <2>3. CASE ~ Closed(i) /\ Closed(i)'
    <3>1. PICK t \in Tx : Commit(t) /\ stmt[i].end = t
      <4>1. ASSUME NEW t \in Tx, Begin(t) PROVE FALSE
        BY <1>1, <2>3, <4>1 DEF Begin, Committed, TypeOK
      <4>2. ASSUME NEW t \in Tx, InsertStatement(t) PROVE FALSE
        BY <1>1, <2>3, <4>2, InsertedRow DEF Committed
      <4>3. ASSUME NEW t \in Tx, CloseRow(t) PROVE FALSE
        BY <1>1, <2>3, <4>3, ClosedRow, TxNames DEF Committed
      <4>4. ASSUME NEW t \in Tx, Raise(t) PROVE FALSE
        BY <1>1, <2>3, <4>4 DEF Raise, Committed, TypeOK
      <4>5. ~ (Elsewhere \/ Tick)
        BY <1>1, <2>3 DEF Elsewhere, Tick, Committed
      <4>6. ASSUME NEW t \in Tx, Commit(t) PROVE stmt[i].end = t
        BY <1>1, <2>3, <4>6 DEF Commit, Committed, TypeOK
      <4>. QED BY <4>1, <4>2, <4>3, <4>4, <4>5, <4>6, StepKinds
    <3>2. Running(t) /\ stmt'[i] = stmt[i]
      BY <3>1 DEF Commit, At, Running
    <3>3. stmt[i].hi = now[t]
      BY <1>1, <3>1, TxNames DEF RowsOK
    <3>. QED BY <1>1, <2>1, <2>3, <3>2, <3>3 DEF RowKept
  <2>. QED BY <2>2, <2>3
<1>2. CASE ~ Stored(i) /\ Stored(i)'
  <2>1. PICK t \in Tx : Commit(t) /\ stmt[i].by = t
    <3>1. ASSUME NEW t \in Tx, Begin(t) PROVE FALSE
      BY <1>2, <3>1, RowFields DEF Begin, Committed, TypeOK
    <3>2. ASSUME NEW t \in Tx, InsertStatement(t) PROVE FALSE
      BY <1>2, <3>2, InsertedRow, TxNames DEF Committed
    <3>3. ASSUME NEW t \in Tx, CloseRow(t) PROVE FALSE
      BY <1>2, <3>3, ClosedRow DEF Committed
    <3>4. ASSUME NEW t \in Tx, Raise(t) PROVE FALSE
      BY <1>2, <3>4, RowFields DEF Raise, Committed, TypeOK
    <3>5. ~ (Elsewhere \/ Tick)
      BY <1>2 DEF Elsewhere, Tick, Committed
    <3>6. ASSUME NEW t \in Tx, Commit(t) PROVE stmt[i].by = t
      BY <1>2, <3>6, RowFields DEF Commit, Committed, TypeOK
    <3>. QED BY <3>1, <3>2, <3>3, <3>4, <3>5, <3>6, StepKinds
  <2>2. Running(t) /\ stmt'[i] = stmt[i] /\ stmt[i] # NoRow
    BY <1>2, <2>1 DEF Commit, At, Running
  <2>3. stmt[i].lo = now[t] /\ now[t] \in Nat
    BY <2>1, <2>2 DEF RowsOK, TypeOK
  <2>. QED BY <1>2, <2>2, <2>3
<1>. QED BY <1>1, <1>2

\* As-of reads of a time before the oldest running transaction are final.
THEOREM SettledPast == Spec => PastIsSettled
<1>. DEFINE Kept == \A u \in 0..MaxTime :
       (u < clock /\ \A t \in Tx : Running(t) => u < now[t]) => AsOf(u)' = AsOf(u)
<1>1. LedgerInv /\ [Next]_vars => Kept
  <2>. SUFFICES ASSUME LedgerInv, [Next]_vars, NEW u \in 0..MaxTime, u < clock,
                       \A t \in Tx : Running(t) => u < now[t]
                PROVE  AsOf(u)' = AsOf(u)
    OBVIOUS
  <2>1. \A i \in Id : i \in AsOf(u)' <=> i \in AsOf(u)
    BY SettledRow
  <2>. QED BY <2>1 DEF AsOf
<1>. QED BY <1>1, Invariance, PTL DEF Spec, PastIsSettled
-----------------------------------------------------------------------------
(* What one step does to a transaction and to a row *)

LEMMA StatusSteps ==
  ASSUME TypeOK, [Next]_vars, NEW t \in Tx
  PROVE  \/ xact'[t] = xact[t]
         \/ Begin(t) /\ xact[t] = "idle" /\ xact'[t] = "running"
         \/ xact[t] = "running" /\ xact'[t] \in {"committed", "aborted"}
<1>. USE DEF TypeOK
<1>1. ASSUME NEW u \in Tx, Begin(u) PROVE xact[u] = "idle" /\ xact' = [xact EXCEPT ![u] = "running"]
  BY <1>1 DEF Begin
<1>2. ASSUME NEW u \in Tx, Commit(u) \/ (Running(u) /\ Raise(u))
      PROVE  xact[u] = "running" /\ (\/ xact' = [xact EXCEPT ![u] = "committed"]
                                     \/ xact' = [xact EXCEPT ![u] = "aborted"])
  BY <1>2 DEF Commit, Raise, Running, At
<1>3. ASSUME NEW u \in Tx, InsertStatement(u) \/ CloseRow(u) PROVE xact' = xact
  BY <1>3 DEF InsertStatement, CloseRow
<1>4. (Elsewhere \/ Tick) => xact' = xact
  BY DEF Elsewhere, Tick
<1>. QED BY <1>1, <1>2, <1>3, <1>4, StepKinds

\* What a transaction has in mind is changed by its own steps only.
Idle(t) ==
  /\ call'[t] = call[t] /\ pc'[t] = pc[t] /\ todo'[t] = todo[t]
  /\ old'[t] = old[t] /\ ret'[t] = ret[t]

LEMMA OwnSteps ==
  ASSUME TypeOK, [Next]_vars, NEW t \in Tx
  PROVE  Begin(t) \/ Step(t) \/ Idle(t)
<1>. USE DEF TypeOK, Idle, Goto, locals
<1>1. CASE Tick \/ UNCHANGED vars
  BY <1>1 DEF Tick, vars
<1>2. ASSUME NEW u \in Tx \ {t}, Begin(u) PROVE Idle(t)
  BY <1>2 DEF Begin
<1>3. ASSUME NEW u \in Tx, Raise(u) PROVE Idle(t)
  BY <1>3 DEF Raise
<1>4. ASSUME NEW u \in Tx \ {t}, Step(u) PROVE Idle(t)
  <2>1. CASE EnsureContext(u) \/ ImplicitRegister(u) \/ SkipInsert(u) \/ NothingToClose(u)
             \/ LogReplacement(u) \/ Commit(u)
    BY <2>1 DEF EnsureContext, ImplicitRegister, SkipInsert, NothingToClose, LogReplacement, Commit
  <2>2. CASE CheckMode(u) \/ LinkLineage(u)
    BY <1>3, <2>2 DEF CheckMode, LinkLineage
  <2>3. CASE InsertStatement(u) \/ FetchOpen(u) \/ CloseRow(u)
    BY <2>3 DEF InsertStatement, FetchOpen, CloseRow
  <2>4. CASE ReadOld(u)
    BY <2>4 DEF ReadOld
  <2>5. CASE ReadRejected(u) \/ CloseRejected(u) \/ CancelDeadlock(u)
    BY <1>3, <2>5 DEF ReadRejected, CloseRejected, CancelDeadlock
  <2>. QED BY <1>4, <2>1, <2>2, <2>3, <2>4, <2>5 DEF Step
<1>. QED BY <1>1, <1>2, <1>3, <1>4 DEF Next, Crash

Alive(t) == xact[t] \in {"running", "committed"}

\* A row stays what it is until a running transaction closes it, and whoever
\* sees it closed goes on seeing it so.
LEMMA RowStays ==
  ASSUME LedgerInv, [Next]_vars, NEW i \in Id, stmt[i] # NoRow
  PROVE  /\ stmt'[i] # NoRow /\ stmt'[i].content = stmt[i].content /\ stmt'[i].by = stmt[i].by
         /\ \A t \in Tx : Alive(t) /\ Sees(t, stmt[i].end) => Sees(t, stmt[i].end)'
<1>. USE DEF LedgerInv
<1>1. ASSUME NEW t \in Tx, Sees(t, stmt[i].end), stmt'[i].end = stmt[i].end
      PROVE  Sees(t, stmt[i].end)'
  BY <1>1, CommittedStays DEF Sees
<1>2. CASE stmt'[i] = stmt[i]
  BY <1>1, <1>2
<1>3. ASSUME NEW u \in Tx, InsertStatement(u) PROVE stmt'[i] = stmt[i]
  BY <1>3, InsertedRow
<1>4. ASSUME NEW u \in Tx, CloseRow(u), stmt'[i] # stmt[i]
      PROVE  /\ stmt'[i] # NoRow /\ stmt'[i].content = stmt[i].content /\ stmt'[i].by = stmt[i].by
             /\ \A t \in Tx : Alive(t) => ~ Sees(t, stmt[i].end) \/ t = u
  <2>1. /\ stmt'[i] # NoRow /\ stmt'[i].content = stmt[i].content /\ stmt'[i].by = stmt[i].by
        /\ ~ Sees(u, stmt[i].end) /\ ~ Running(stmt[i].end)
    BY <1>4, ClosedRow
  <2>. QED BY <2>1 DEF Alive, Sees, Running, Committed
<1>5. ASSUME NEW u \in Tx, CloseRow(u), stmt'[i] # stmt[i], Sees(u, stmt[i].end) PROVE FALSE
  BY <1>5, ClosedRow
<1>6. ASSUME NEW u \in Tx, Begin(u) \/ Commit(u) \/ Raise(u) PROVE stmt' = stmt
  BY <1>6 DEF Begin, Commit, Raise
<1>7. (Elsewhere \/ Tick) => stmt' = stmt
  BY DEF Elsewhere, Tick
<1>. QED BY <1>2, <1>3, <1>4, <1>5, <1>6, <1>7, StepKinds
-----------------------------------------------------------------------------
(* The audit log *)

\* The entries the insertion and the closing of a row leave.
AssertEntry(i) == [tx |-> stmt[i].by, action |-> "assert", id |-> i, of |-> NoId]
RetractEntry(i) == [tx |-> stmt[i].end, action |-> "retract", id |-> i, of |-> NoId]

\* A row is logged as it is written.  An entry that tells of another closing
\* than the row's present one is of a transaction that was rolled back.
AuditOK ==
  /\ \A i \in Id : stmt[i] # NoRow =>
       /\ AssertEntry(i) \in audit
       /\ stmt[i].end # NoTx => RetractEntry(i) \in audit
  /\ \A e \in audit : e.action \in {"assert", "retract"} =>
       /\ e.id \in Id /\ stmt[e.id] # NoRow
       /\ e.action = "assert" => e = AssertEntry(e.id)
       /\ e.action = "retract" => e = RetractEntry(e.id) \/ xact[e.tx] = "aborted"

\* The steps that write to the log.
LEMMA AuditSteps ==
  ASSUME [Next]_vars
  PROVE  audit' = audit \/ \E t \in Tx : InsertStatement(t) \/ CloseRow(t) \/ LogReplacement(t)
<1>1. ASSUME NEW t \in Tx, Step(t)
      PROVE  audit' = audit \/ InsertStatement(t) \/ CloseRow(t) \/ LogReplacement(t)
  BY <1>1 DEF Step, Raise, EnsureContext, CheckMode, ImplicitRegister, SkipInsert, FetchOpen, ReadOld,
              ReadRejected, CloseRejected, NothingToClose, LinkLineage, Commit, CancelDeadlock
<1>. QED BY <1>1 DEF Next, Tick, Begin, Crash, Raise, vars

LEMMA EntryFields ==
  ASSUME TypeOK, NEW e \in audit
  PROVE  /\ e.tx \in Tx /\ e.id \in Id \cup {NoId}
         /\ e = [tx |-> e.tx, action |-> e.action, id |-> e.id, of |-> e.of]
<1>1. e \in Entry
  BY DEF TypeOK
<1>. QED BY <1>1 DEF Entry

\* What is said of a row in the log stays true of it.
LEMMA AuditNext ==
  ASSUME LedgerInv, AuditOK, [Next]_vars
  PROVE  AuditOK'
<1>. USE DEF LedgerInv
<1>1. ASSUME NEW e \in audit, xact[e.tx] = "aborted" PROVE xact'[e.tx] = "aborted"
  BY <1>1, EntryFields, StatusSteps
<1>2. ASSUME stmt' = stmt,
             audit \subseteq audit', \A e \in audit' \ audit : e.action \notin {"assert", "retract"}
      PROVE  AuditOK'
  BY <1>1, <1>2 DEF AuditOK, AssertEntry, RetractEntry
<1>3. ASSUME NEW t \in Tx, LogReplacement(t) PROVE AuditOK'
  BY <1>2, <1>3 DEF LogReplacement
<1>4. ASSUME NEW t \in Tx, InsertStatement(t) PROVE AuditOK'
  <2>1. PICK i \in Id :
          /\ stmt[i] = NoRow /\ stmt'[i] # NoRow
          /\ stmt'[i].by = t /\ stmt'[i].end = NoTx
          /\ \A j \in Id \ {i} : stmt'[j] = stmt[j]
          /\ audit' = audit \cup {[tx |-> t, action |-> "assert", id |-> i, of |-> NoId]}
          /\ xact' = xact
    BY <1>4, InsertedRow
  <2>. DEFINE new == [tx |-> t, action |-> "assert", id |-> i, of |-> NoId]
  <2>2. AssertEntry(i)' = new
    BY <2>1 DEF AssertEntry
  <2>3. \A j \in Id \ {i} : AssertEntry(j)' = AssertEntry(j) /\ RetractEntry(j)' = RetractEntry(j)
    BY <2>1 DEF AssertEntry, RetractEntry
  <2>4. \A e \in audit : e.action \in {"assert", "retract"} => e.id # i
    BY <2>1 DEF AuditOK
  <2>5. new.action = "assert" /\ new.id = i
    OBVIOUS
  <2>. HIDE DEF new
  <2>. QED BY <2>1, <2>2, <2>3, <2>4, <2>5 DEF AuditOK, new
<1>5. ASSUME NEW t \in Tx, CloseRow(t) PROVE AuditOK'
  <2>1. PICK i \in Id :
          /\ stmt[i] # NoRow /\ stmt'[i] # NoRow
          /\ ~ Sees(t, stmt[i].end) /\ ~ Running(stmt[i].end)
          /\ stmt'[i].by = stmt[i].by /\ stmt'[i].end = t
          /\ \A j \in Id \ {i} : stmt'[j] = stmt[j]
          /\ audit' = audit \cup {[tx |-> t, action |-> "retract", id |-> i, of |-> NoId]}
          /\ xact' = xact
    BY <1>5, ClosedRow
  <2>. DEFINE new == [tx |-> t, action |-> "retract", id |-> i, of |-> NoId]
  <2>2. RetractEntry(i)' = new /\ AssertEntry(i)' = AssertEntry(i)
    BY <2>1 DEF AssertEntry, RetractEntry
  <2>3. \A j \in Id \ {i} : AssertEntry(j)' = AssertEntry(j) /\ RetractEntry(j)' = RetractEntry(j)
    BY <2>1 DEF AssertEntry, RetractEntry
  <2>4. ASSUME NEW e \in audit, e.action = "retract", e.id = i PROVE xact[e.tx] = "aborted"
    <3>1. e = RetractEntry(i) \/ xact[e.tx] = "aborted"
      BY <2>4 DEF AuditOK
    <3>2. ASSUME e = RetractEntry(i) PROVE xact[e.tx] = "aborted"
      <4>1. e.tx = stmt[i].end /\ e.tx \in Tx
        BY <3>2, EntryFields DEF RetractEntry
      <4>2. xact[e.tx] \notin {"idle", "running", "committed"}
        BY <2>1, <4>1, TxNames DEF RowsOK, Sees, Running, Committed
      <4>. QED BY <4>1, <4>2 DEF TypeOK
    <3>. QED BY <3>1, <3>2
  <2>5. new.action = "retract" /\ new.id = i
    OBVIOUS
  <2>. HIDE DEF new
  <2>. QED BY <2>1, <2>2, <2>3, <2>4, <2>5 DEF AuditOK, new
<1>6. ASSUME audit' = audit, NEW t \in Tx, ~ (InsertStatement(t) \/ CloseRow(t)),
             Begin(t) \/ Commit(t) \/ Raise(t)
      PROVE  AuditOK'
  BY <1>2, <1>6 DEF Begin, Commit, Raise
<1>7. ASSUME audit' = audit, Elsewhere \/ Tick PROVE AuditOK'
  BY <1>2, <1>7 DEF Elsewhere, Tick
<1>. QED BY <1>3, <1>4, <1>5, <1>6, <1>7, AuditSteps, StepKinds

\* The committed log tells of every committed row once that it was opened, by
\* whoever opened it, of every closed row once that it was closed, by whoever
\* closed it, and of nothing else, whatever was rolled back meanwhile.
THEOREM Audited == Spec => []AuditTellsHistory
<1>1. Init => AuditOK
  BY DEF Init, AuditOK
<1>2. ASSUME LedgerInv, AuditOK PROVE AuditTellsHistory
  <2>. USE DEF LedgerInv
  <2>. SUFFICES ASSUME NEW i \in Id
                PROVE  /\ IF Stored(i) THEN \E e \in audit : Logged("assert", i) = {e} /\ e.tx = stmt[i].by
                          ELSE Logged("assert", i) = {}
                       /\ IF Stored(i) /\ Closed(i)
                          THEN \E e \in audit : Logged("retract", i) = {e} /\ e.tx = stmt[i].end
                          ELSE Logged("retract", i) = {}
    BY DEF AuditTellsHistory
  <2>1. ASSUME NEW e \in Logged("assert", i) PROVE Stored(i) /\ e = AssertEntry(i)
    <3>1. e \in audit /\ e.action = "assert" /\ e.id = i /\ Committed(e.tx)
      BY <2>1 DEF Logged
    <3>2. stmt[i] # NoRow /\ e = AssertEntry(i)
      BY <1>2, <3>1 DEF AuditOK
    <3>3. e.tx = stmt[i].by
      BY <3>2 DEF AssertEntry
    <3>. QED BY <3>1, <3>2, <3>3 DEF Stored
  <2>2. ASSUME NEW e \in Logged("retract", i) PROVE Stored(i) /\ Closed(i) /\ e = RetractEntry(i)
    <3>1. e \in audit /\ e.action = "retract" /\ e.id = i /\ Committed(e.tx)
      BY <2>2 DEF Logged
    <3>2. xact[e.tx] # "aborted"
      BY <1>2, <3>1, EntryFields, TxNames DEF Committed
    <3>3. stmt[i] # NoRow /\ e = RetractEntry(i)
      BY <1>2, <3>1, <3>2 DEF AuditOK
    <3>4. e.tx = stmt[i].end /\ e.tx \in Tx
      BY <1>2, <3>1, <3>3, EntryFields DEF RetractEntry
    <3>5. Committed(stmt[i].by)
      BY <1>2, <3>3, <3>4, TxNames DEF RowsOK
    <3>. QED BY <3>1, <3>3, <3>4, <3>5 DEF Stored, Closed
  <2>3. ASSUME Stored(i) PROVE AssertEntry(i) \in Logged("assert", i) /\ AssertEntry(i).tx = stmt[i].by
    <3>1. AssertEntry(i) \in audit /\ Committed(stmt[i].by)
      BY <1>2, <2>3 DEF AuditOK, Stored
    <3>2. AssertEntry(i).action = "assert" /\ AssertEntry(i).id = i /\ AssertEntry(i).tx = stmt[i].by
      BY DEF AssertEntry
    <3>. QED BY <3>1, <3>2 DEF Logged
  <2>4. ASSUME Stored(i), Closed(i)
        PROVE  RetractEntry(i) \in Logged("retract", i) /\ RetractEntry(i).tx = stmt[i].end
    <3>1. stmt[i].end # NoTx
      BY <2>4, TxNames DEF Closed, Committed
    <3>2. RetractEntry(i) \in audit /\ Committed(stmt[i].end)
      BY <1>2, <2>4, <3>1 DEF AuditOK, Stored, Closed
    <3>3. RetractEntry(i).action = "retract" /\ RetractEntry(i).id = i /\ RetractEntry(i).tx = stmt[i].end
      BY DEF RetractEntry
    <3>. QED BY <3>2, <3>3 DEF Logged
  <2>5. Logged("assert", i) \subseteq audit /\ Logged("retract", i) \subseteq audit
    BY DEF Logged
  <2>6. IF Stored(i) THEN \E e \in audit : Logged("assert", i) = {e} /\ e.tx = stmt[i].by
        ELSE Logged("assert", i) = {}
    BY <2>1, <2>3, <2>5
  <2>7. IF Stored(i) /\ Closed(i)
        THEN \E e \in audit : Logged("retract", i) = {e} /\ e.tx = stmt[i].end
        ELSE Logged("retract", i) = {}
    BY <2>2, <2>4, <2>5
  <2>. QED BY <2>6, <2>7
<1>. QED BY <1>1, <1>2, AuditNext, Invariance, PTL DEF Spec
-----------------------------------------------------------------------------
(* Corrections and promotions *)

Replaces(t) == call[t].op \in {"correct", "promote"}

\* The row a call names was committed when the call began.
TargetOK ==
  \A t \in Tx : call[t].op \in {"retract", "correct", "promote"} =>
    stmt[call[t].id] # NoRow /\ Committed(stmt[call[t].id].by)

\* The call has been through donto_retract.
PastRetract(t) ==
  \/ call[t].op = "correct" /\ pc[t] \in {"ctx", "mode", "pred", "insert", "fetch", "log", "done"}
  \/ call[t].op = "promote" /\ pc[t] \in {"log", "done"}

\* Whoever has been through donto_retract sees the row closed, by itself or by
\* somebody who committed, and goes on seeing it.
ReplacedOK ==
  \A t \in Tx : Replaces(t) =>
    /\ pc[t] # "read" => old[t] = call[t].id
    /\ Alive(t) /\ PastRetract(t) => Sees(t, stmt[call[t].id].end)

\* Only a call that is done has logged a replacement, that of its old row.
ReplacementsOK ==
  \A e \in audit : e.action \in {"correct", "promote_candidate"} =>
    Replaces(e.tx) /\ pc[e.tx] = "done" /\ xact[e.tx] # "idle" /\ e.of = old[e.tx]

ReplacingInv == TargetOK /\ ReplacedOK /\ ReplacementsOK

\* A call begins on a row everybody sees, and keeps the call until it ends.
LEMMA TargetNext ==
  ASSUME LedgerInv, TargetOK, [Next]_vars
  PROVE  TargetOK'
<1>. SUFFICES ASSUME NEW t \in Tx, call'[t].op \in {"retract", "correct", "promote"}
              PROVE  stmt'[call'[t].id] # NoRow /\ Committed(stmt[call[t].id].by)'
  BY DEF TargetOK
<1>. USE DEF LedgerInv
<1>1. CASE Begin(t)
  <2>1. PICK c \in Calls :
          /\ c.op # "assert" => stmt[c.id] # NoRow /\ Committed(stmt[c.id].by)
          /\ call' = [call EXCEPT ![t] = c]
          /\ stmt' = stmt
    BY <1>1 DEF Begin
  <2>2. call'[t] = c
    BY <2>1 DEF TypeOK
  <2>3. Committed(stmt[c.id].by)'
    BY <2>1, <2>2, CommittedStays
  <2>. QED BY <2>1, <2>2, <2>3
<1>2. CASE call'[t] = call[t]
  <2>0. PICK i, u : i = call[t].id /\ u = stmt[i].by
    OBVIOUS
  <2>1. i \in Id /\ stmt[i] # NoRow /\ Committed(u)
    BY <1>2, <2>0, CallFields DEF TargetOK
  <2>2. stmt'[i] # NoRow /\ stmt'[i].by = u
    BY <2>0, <2>1, RowStays
  <2>3. Committed(u)'
    BY <2>1, CommittedStays
  <2>. QED BY <1>2, <2>0, <2>2, <2>3
<1>3. CASE Step(t)
  <2>1. call' = call
    BY <1>3 DEF Step, Raise, EnsureContext, CheckMode, ImplicitRegister, InsertStatement, SkipInsert,
                FetchOpen, ReadOld, ReadRejected, CloseRow, CloseRejected, NothingToClose, LinkLineage,
                LogReplacement, Commit, CancelDeadlock, locals
  <2>. QED BY <1>2, <2>1
<1>. QED BY <1>1, <1>2, <1>3, OwnSteps DEF Idle

\* What a step does to the label, the old row and the status of a transaction
\* that replaces one.
LEMMA ReplacingSteps ==
  ASSUME LedgerInv, TargetOK, [Next]_vars, NEW t \in Tx, Step(t), Replaces(t)
  PROVE  /\ call'[t] = call[t]
         /\ \/ old'[t] = old[t] /\ (pc[t] = "read" => pc'[t] = "read")
            \/ old'[t] = call[t].id
         /\ PastRetract(t)' => PastRetract(t) \/ Sees(t, stmt[call[t].id].end)'
<1>. USE DEF LedgerInv, TypeOK, CallOK, Goto, At, Replaces, PastRetract, locals
<1>1. ASSUME pc'[t] = pc[t], call'[t] = call[t], old'[t] = old[t]
      PROVE  /\ call'[t] = call[t]
             /\ \/ old'[t] = old[t] /\ (pc[t] = "read" => pc'[t] = "read")
                \/ old'[t] = call[t].id
             /\ PastRetract(t)' => PastRetract(t) \/ Sees(t, stmt[call[t].id].end)'
  BY <1>1
<1>2. CASE Raise(t) \/ Commit(t)
  BY <1>1, <1>2 DEF Raise, Commit
<1>3. CASE ReadRejected(t) \/ CloseRejected(t) \/ CancelDeadlock(t)
  BY <1>2, <1>3 DEF ReadRejected, CloseRejected, CancelDeadlock
<1>4. CASE EnsureContext(t) \/ ImplicitRegister(t) \/ SkipInsert(t) \/ LogReplacement(t)
  BY <1>4 DEF EnsureContext, ImplicitRegister, SkipInsert, LogReplacement
<1>5. CASE CheckMode(t) /\ ~ Raise(t)
  BY <1>5 DEF CheckMode
<1>6. CASE LinkLineage(t) /\ ~ Raise(t)
  BY <1>6 DEF LinkLineage
<1>7. CASE InsertStatement(t) \/ FetchOpen(t)
  <2>1. pc'[t] = "ctx" \/ pc'[t] = (IF call[t].op = "correct" THEN "log" ELSE "lineage")
    BY <1>7 DEF InsertStatement, FetchOpen, AfterAssert
  <2>. QED BY <1>7, <2>1 DEF InsertStatement, FetchOpen
<1>8. CASE ReadOld(t)
  <2>1. call'[t] = call[t] /\ old'[t] = call[t].id
    BY <1>8 DEF ReadOld
  <2>2. ~ PastRetract(t)'
    BY <1>8, <2>1 DEF ReadOld
  <2>. QED BY <2>1, <2>2
<1>9. CASE CloseRow(t)
  <2>1. Sees(t, stmt[call[t].id].end)'
    <3>1. PICK i : i = call[t].id /\ stmt'[i].end = t
      BY <1>9, ClosedRow
    <3>2. call'[t] = call[t]
      BY <1>9 DEF CloseRow
    <3>. QED BY <3>1, <3>2 DEF Sees
  <2>. QED BY <1>9, <2>1 DEF CloseRow
<1>10. CASE NothingToClose(t)
  <2>. DEFINE i == call[t].id
  <2>1. stmt[i] # NoRow /\ Committed(stmt[i].by) /\ UNCHANGED <<stmt, xact, call>>
    BY <1>10 DEF NothingToClose, TargetOK
  <2>2. Sees(t, stmt[i].end)
    BY <1>10, <2>1 DEF NothingToClose, SeesOpen, Sees
  <2>3. Sees(t, stmt[i].end)'
    BY <2>1, <2>2 DEF Sees, Committed
  <2>. QED BY <1>10, <2>1, <2>3 DEF NothingToClose
<1>. QED BY <1>2, <1>3, <1>4, <1>5, <1>6, <1>7, <1>8, <1>9, <1>10 DEF Step

LEMMA ReplacedNext ==
  ASSUME LedgerInv, TargetOK, ReplacedOK, [Next]_vars
  PROVE  ReplacedOK'
<1>. SUFFICES ASSUME NEW t \in Tx, Replaces(t)'
              PROVE  /\ pc'[t] # "read" => old'[t] = call'[t].id
                     /\ Alive(t)' /\ PastRetract(t)' => Sees(t, stmt[call[t].id].end)'
  BY DEF ReplacedOK
<1>. USE DEF LedgerInv
<1>1. CASE Begin(t)
  <2>1. PICK c \in Calls : call' = [call EXCEPT ![t] = c] /\ Goto(t, First[c.op])
    BY <1>1 DEF Begin
  <2>2. call'[t] = c /\ c.op \in {"correct", "promote"}
    BY <2>1 DEF TypeOK, Replaces
  <2>3. pc'[t] = "read"
    BY <2>1, <2>2 DEF TypeOK, Goto, First
  <2>. QED BY <2>3 DEF PastRetract
<1>2. ASSUME call'[t] = call[t], Alive(t)', ~ Begin(t), PastRetract(t) PROVE Sees(t, stmt[call[t].id].end)'
  <2>0. PICK i : i = call[t].id
    OBVIOUS
  <2>1. Replaces(t) /\ Alive(t)
    BY <1>2, StatusSteps DEF Replaces, Alive
  <2>2. i \in Id /\ stmt[i] # NoRow /\ Sees(t, stmt[i].end)
    BY <1>2, <2>0, <2>1, CallFields DEF TargetOK, ReplacedOK, Replaces
  <2>3. Sees(t, stmt[i].end)'
    BY <2>1, <2>2, RowStays
  <2>. QED BY <1>2, <2>0, <2>3
<1>3. CASE Step(t) /\ ~ Begin(t)
  <2>1. call'[t] = call[t]
    BY <1>3 DEF Step, Raise, EnsureContext, CheckMode, ImplicitRegister, InsertStatement, SkipInsert,
                FetchOpen, ReadOld, ReadRejected, CloseRow, CloseRejected, NothingToClose, LinkLineage,
                LogReplacement, Commit, CancelDeadlock, locals
  <2>2. Replaces(t)
    BY <2>1 DEF Replaces
  <2>. QED BY <1>2, <1>3, <2>1, <2>2, ReplacingSteps DEF ReplacedOK
<1>4. CASE Idle(t) /\ ~ Begin(t)
  <2>1. call'[t] = call[t] /\ Replaces(t) /\ (PastRetract(t)' <=> PastRetract(t))
    BY <1>4 DEF Idle, Replaces, PastRetract
  <2>. QED BY <1>2, <1>4, <2>1 DEF ReplacedOK, Idle
<1>. QED BY <1>1, <1>3, <1>4, OwnSteps

LEMMA ReplacementsNext ==
  ASSUME LedgerInv, ReplacementsOK, [Next]_vars
  PROVE  ReplacementsOK'
<1>. USE DEF LedgerInv
<1>1. ASSUME NEW e \in audit, e.action \in {"correct", "promote_candidate"}
      PROVE  Replaces(e.tx)' /\ pc'[e.tx] = "done" /\ xact'[e.tx] # "idle" /\ e.of = old'[e.tx]
  <2>. DEFINE t == e.tx
  <2>1. t \in Tx /\ Replaces(t) /\ pc[t] = "done" /\ xact[t] # "idle" /\ e.of = old[t]
    BY <1>1, EntryFields DEF ReplacementsOK
  <2>2. ~ Begin(t)
    BY <2>1 DEF Begin
  <2>3. CASE Step(t)
    <3>1. Commit(t) \/ Raise(t)
      BY <2>1, <2>3 DEF Step, At, EnsureContext, CheckMode, ImplicitRegister, InsertStatement, SkipInsert,
                FetchOpen, ReadOld, ReadRejected, CloseRow, CloseRejected, NothingToClose, LinkLineage,
                LogReplacement, CancelDeadlock
    <3>. QED BY <2>1, <3>1, StatusSteps DEF Commit, Raise, locals, Replaces
  <2>4. CASE Idle(t)
    BY <2>1, <2>4, StatusSteps DEF Idle, Replaces
  <2>. QED BY <2>1, <2>2, <2>3, <2>4, OwnSteps
<1>2. ASSUME NEW t \in Tx, LogReplacement(t), NEW e \in audit' \ audit
      PROVE  Replaces(e.tx)' /\ pc'[e.tx] = "done" /\ xact'[e.tx] # "idle" /\ e.of = old'[e.tx]
  <2>1. e.tx = t /\ e.of = old[t]
    BY <1>2 DEF LogReplacement
  <2>2. /\ pc'[t] = "done" /\ xact'[t] = "running" /\ old' = old /\ call' = call
        /\ Replaces(t)
    BY <1>2 DEF LogReplacement, At, Goto, locals, TypeOK, CallOK, Replaces
  <2>. QED BY <2>1, <2>2 DEF Replaces
<1>3. ASSUME NEW t \in Tx, InsertStatement(t) \/ CloseRow(t), NEW e \in audit' \ audit
      PROVE  e.action \in {"assert", "retract"}
  BY <1>3 DEF InsertStatement, CloseRow
<1>. QED BY <1>1, <1>2, <1>3, AuditSteps DEF ReplacementsOK

\* A correction or a promotion that has committed leaves the row it replaces
\* closed, by itself or by whoever was faster.
THEOREM Replaced == Spec => []ReplacedIsClosed
<1>1. Init => ReplacingInv
  BY DEF Init, NoCall, ReplacingInv, TargetOK, ReplacedOK, ReplacementsOK, Replaces
<1>2. ASSUME LedgerInv, ReplacingInv PROVE ReplacedIsClosed
  <2>. SUFFICES ASSUME NEW e \in audit, e.action \in {"correct", "promote_candidate"}, Committed(e.tx)
                PROVE  Stored(e.of) /\ Closed(e.of)
    BY DEF ReplacedIsClosed
  <2>. DEFINE t == e.tx
  <2>1. t \in Tx /\ xact[t] = "committed"
    BY <1>2, EntryFields, TxNames DEF Committed, LedgerInv
  <2>2. Replaces(t) /\ pc[t] = "done" /\ e.of = old[t]
    BY <1>2 DEF ReplacingInv, ReplacementsOK
  <2>3. e.of = call[t].id /\ Sees(t, stmt[call[t].id].end)
    BY <1>2, <2>1, <2>2 DEF ReplacingInv, ReplacedOK, Alive, PastRetract, Replaces
  <2>4. stmt[e.of] # NoRow /\ Committed(stmt[e.of].by)
    BY <1>2, <2>1, <2>2, <2>3 DEF ReplacingInv, TargetOK, Replaces
  <2>. QED BY <2>1, <2>3, <2>4 DEF Stored, Closed, Sees, Committed
<1>3. LedgerInv /\ ReplacingInv /\ [Next]_vars => ReplacingInv'
  BY TargetNext, ReplacedNext, ReplacementsNext DEF ReplacingInv
<1>. QED BY <1>1, <1>2, <1>3, Invariance, PTL DEF Spec
-----------------------------------------------------------------------------
(* The registry *)

InContext(t, c) == Sees(t, ctxBy[c.ctx])
InRegistry(t, c) == Sees(t, predBy[c.pred]) /\ (c.ctx \in Curated => c.pred \in ActivePred)

\* What the seeds were is never taken over.
SeedsOK ==
  /\ \A c \in SeedCtx : ctxBy[c] = Install
  /\ \A p \in ActivePred : predBy[p] = Install

\* A call sees the registrations it has been through.
RegisteringOK ==
  \A t \in Tx : xact[t] = "running" =>
    /\ pc[t] \in {"mode", "pred", "insert"} => InContext(t, Head(todo[t]))
    /\ pc[t] = "pred" => Head(todo[t]).ctx \notin Curated
    /\ pc[t] = "insert" => InRegistry(t, Head(todo[t]))

\* Whoever wrote a row sees its context and its predicate.
RegisteredOK ==
  \A i \in Id : stmt[i] # NoRow /\ Alive(stmt[i].by) =>
    InContext(stmt[i].by, stmt[i].content) /\ InRegistry(stmt[i].by, stmt[i].content)

RegistryInv == SeedsOK /\ RegisteringOK /\ RegisteredOK

\* Who sees a registration goes on seeing it: it is taken over only when its
\* transaction has come to nothing.
LEMMA RegistrationStays ==
  ASSUME LedgerInv, [Next]_vars
  PROVE  /\ \A c \in Ctx, t \in Tx : Alive(t) /\ Sees(t, ctxBy[c]) => Sees(t, ctxBy[c])'
         /\ \A p \in Pred, t \in Tx : Alive(t) /\ Sees(t, predBy[p]) => Sees(t, predBy[p])'
         /\ \A c \in Ctx : ctxBy[c] = Install => ctxBy'[c] = Install
         /\ \A p \in Pred : predBy[p] = Install => predBy'[p] = Install
<1>. USE DEF LedgerInv
<1>1. ASSUME NEW u \in Tx, EnsureContext(u), NEW c \in Ctx, ctxBy'[c] # ctxBy[c]
      PROVE  /\ ctxBy[c] # Install
             /\ \A t \in Tx : Alive(t) => ~ Sees(t, ctxBy[c])
  <2>1. c = Head(todo[u]).ctx /\ ~ Sees(u, ctxBy[c])
    BY <1>1 DEF EnsureContext, TypeOK
  <2>2. ~ (ctxBy[c] \in Tx /\ Running(ctxBy[c]))
    BY <1>1, <2>1 DEF EnsureContext, At, WaitsFor, Sees
  <2>. QED BY <2>1, <2>2 DEF Sees, Committed, Running, Alive
<1>2. ASSUME NEW u \in Tx, ImplicitRegister(u), NEW p \in Pred, predBy'[p] # predBy[p]
      PROVE  /\ predBy[p] # Install
             /\ \A t \in Tx : Alive(t) => ~ Sees(t, predBy[p])
  <2>1. p = Head(todo[u]).pred /\ ~ Sees(u, predBy[p])
    BY <1>2 DEF ImplicitRegister, TypeOK
  <2>2. ~ (predBy[p] \in Tx /\ Running(predBy[p]))
    BY <1>2, <2>1 DEF ImplicitRegister, At, WaitsFor, Sees
  <2>. QED BY <2>1, <2>2 DEF Sees, Committed, Running, Alive
<1>3. /\ ctxBy' = ctxBy \/ \E u \in Tx : EnsureContext(u)
      /\ predBy' = predBy \/ \E u \in Tx : ImplicitRegister(u)
  <2>1. ASSUME NEW u \in Tx, Step(u)
        PROVE  (ctxBy' = ctxBy \/ EnsureContext(u)) /\ (predBy' = predBy \/ ImplicitRegister(u))
    BY <2>1 DEF Step, Raise, EnsureContext, CheckMode, ImplicitRegister, InsertStatement, SkipInsert,
                FetchOpen, ReadOld, ReadRejected, CloseRow, CloseRejected, NothingToClose, LinkLineage,
                LogReplacement, Commit, CancelDeadlock, registry
  <2>. QED BY <2>1 DEF Next, Tick, Begin, Crash, Raise, vars, registry
<1>4. ASSUME NEW c \in Ctx, NEW t \in Tx, Alive(t), Sees(t, ctxBy[c]) PROVE Sees(t, ctxBy[c])'
  <2>1. ctxBy'[c] = ctxBy[c]
    BY <1>1, <1>3, <1>4
  <2>2. PICK u : u = ctxBy[c]
    OBVIOUS
  <2>. QED BY <1>4, <2>1, <2>2, CommittedStays DEF Sees
<1>5. ASSUME NEW p \in Pred, NEW t \in Tx, Alive(t), Sees(t, predBy[p]) PROVE Sees(t, predBy[p])'
  <2>1. predBy'[p] = predBy[p]
    BY <1>2, <1>3, <1>5
  <2>2. PICK u : u = predBy[p]
    OBVIOUS
  <2>. QED BY <1>5, <2>1, <2>2, CommittedStays DEF Sees
<1>. QED BY <1>1, <1>2, <1>3, <1>4, <1>5

\* The next content of a call that has one.
LEMMA NextContent ==
  ASSUME LedgerInv, NEW t \in Tx, pc[t] \in {"ctx", "mode", "pred", "insert", "fetch"}
  PROVE  Head(todo[t]) \in Content /\ Head(todo[t]).ctx \in Ctx /\ Head(todo[t]).pred \in Pred
<1>1. todo[t] \in Seq(Content) /\ todo[t] # <<>>
  BY DEF LedgerInv, TypeOK, CallOK
<1>2. Head(todo[t]) \in Content
  BY <1>1
<1>. QED BY <1>2 DEF Content

LEMMA SeenStays ==
  ASSUME LedgerInv, [Next]_vars, NEW t \in Tx, Alive(t), NEW c \in Content
  PROVE  /\ InContext(t, c) => InContext(t, c)'
         /\ InRegistry(t, c) => InRegistry(t, c)'
<1>1. c.ctx \in Ctx /\ c.pred \in Pred
  BY DEF Content
<1>. QED BY <1>1, RegistrationStays DEF InContext, InRegistry

LEMMA RegisteringNext ==
  ASSUME LedgerInv, SeedsOK, RegisteringOK, [Next]_vars
  PROVE  RegisteringOK'
<1>. DEFINE OK(t) == /\ pc[t] \in {"mode", "pred", "insert"} => InContext(t, Head(todo[t]))
                     /\ pc[t] = "pred" => Head(todo[t]).ctx \notin Curated
                     /\ pc[t] = "insert" => InRegistry(t, Head(todo[t]))
<1>. SUFFICES ASSUME NEW t \in Tx, xact'[t] = "running" PROVE OK(t)'
  BY DEF RegisteringOK
<1>0. PICK c : c = Head(todo[t])
  OBVIOUS
<1>. USE DEF LedgerInv, TypeOK, Goto, At, locals
<1>1. CASE Begin(t)
  <2>1. pc'[t] \in {"ctx", "retract", "read"}
    BY <1>1 DEF Begin, Calls, First
  <2>. QED BY <2>1
<1>2. CASE Raise(t)
  BY <1>2 DEF Raise
<1>3. CASE Commit(t)
  BY <1>3 DEF Commit
<1>4. CASE Idle(t) /\ ~ Begin(t)
  <2>1. xact[t] = "running" /\ OK(t)
    BY <1>4, StatusSteps DEF RegisteringOK
  <2>2. pc[t] \in {"mode", "pred", "insert"} => c \in Content
    BY <1>0, NextContent
  <2>3. pc'[t] = pc[t] /\ todo'[t] = todo[t]
    BY <1>4 DEF Idle
  <2>. QED BY <1>0, <2>1, <2>2, <2>3, SeenStays DEF Alive
<1>5. CASE EnsureContext(t)
  <2>1. xact[t] = "running" /\ pc[t] = "ctx" /\ pc'[t] = "mode" /\ todo'[t] = todo[t] /\ xact' = xact
    BY <1>5 DEF EnsureContext
  <2>2. c \in Content /\ c.ctx \in Ctx
    BY <1>0, <2>1, NextContent
  <2>3. ctxBy'[c.ctx] = IF Sees(t, ctxBy[c.ctx]) THEN ctxBy[c.ctx] ELSE t
    BY <1>0, <1>5, <2>2 DEF EnsureContext
  <2>4. InContext(t, c)'
    BY <2>1, <2>3 DEF InContext, Sees, Committed
  <2>. QED BY <1>0, <2>1, <2>4
<1>6. CASE CheckMode(t)
  <2>1. xact[t] = "running" /\ pc[t] = "mode"
    BY <1>6 DEF CheckMode
  <2>2. c \in Content /\ c.pred \in Pred /\ InContext(t, c)
    BY <1>0, <2>1, NextContent DEF RegisteringOK
  <2>3. CASE Raise(t)
    BY <1>2, <2>3
  <2>4. CASE ~ Raise(t)
    <3>1. /\ c.ctx \in Curated => c.pred \in ActivePred
          /\ pc'[t] = (IF c.ctx \in Curated THEN "insert" ELSE "pred") /\ todo'[t] = todo[t]
      BY <1>0, <1>6, <2>4 DEF CheckMode
    <3>2. c.ctx \in Curated => InRegistry(t, c)
      BY <3>1 DEF InRegistry, SeedsOK, Sees, Committed
    <3>. QED BY <1>0, <2>1, <2>2, <3>1, <3>2, SeenStays DEF Alive
  <2>. QED BY <2>3, <2>4
<1>7. CASE ImplicitRegister(t)
  <2>1. xact[t] = "running" /\ pc[t] = "pred" /\ pc'[t] = "insert" /\ todo'[t] = todo[t] /\ xact' = xact
    BY <1>7 DEF ImplicitRegister
  <2>2. c \in Content /\ c.pred \in Pred /\ InContext(t, c) /\ c.ctx \notin Curated
    BY <1>0, <2>1, NextContent DEF RegisteringOK
  <2>3. predBy'[c.pred] = IF Sees(t, predBy[c.pred]) THEN predBy[c.pred] ELSE t
    BY <1>0, <1>7, <2>2 DEF ImplicitRegister
  <2>4. InRegistry(t, c)'
    BY <2>1, <2>2, <2>3 DEF InRegistry, Sees, Committed
  <2>5. InContext(t, c)'
    BY <2>1, <2>2, SeenStays DEF Alive
  <2>. QED BY <1>0, <2>1, <2>4, <2>5
<1>8. CASE InsertStatement(t) \/ FetchOpen(t)
  <2>1. pc'[t] = "ctx" \/ pc'[t] \in {"done", "log", "lineage"}
    BY <1>8 DEF InsertStatement, FetchOpen, AfterAssert, CallOK
  <2>. QED BY <2>1
<1>9. CASE SkipInsert(t) \/ LogReplacement(t)
  BY <1>9 DEF SkipInsert, LogReplacement
<1>10. CASE CloseRow(t) \/ NothingToClose(t)
  <2>1. pc'[t] \in {"done", "ctx", "log"}
    BY <1>10 DEF CloseRow, NothingToClose, AfterRetract, CallOK
  <2>. QED BY <2>1
<1>11. CASE LinkLineage(t) /\ ~ Raise(t)
  BY <1>11 DEF LinkLineage
<1>12. CASE ReadOld(t)
  <2>1. pc'[t] \in {"retract", "ctx"}
    BY <1>12 DEF ReadOld
  <2>. QED BY <2>1
<1>13. CASE ReadRejected(t) \/ CloseRejected(t) \/ CancelDeadlock(t)
  BY <1>2, <1>13 DEF ReadRejected, CloseRejected, CancelDeadlock
<1>. QED BY <1>1, <1>2, <1>3, <1>4, <1>5, <1>6, <1>7, <1>8, <1>9, <1>10, <1>11, <1>12, <1>13,
            OwnSteps DEF Step

LEMMA RegisteredNext ==
  ASSUME LedgerInv, RegisteringOK, RegisteredOK, [Next]_vars
  PROVE  RegisteredOK'
<1>. SUFFICES ASSUME NEW i \in Id, stmt'[i] # NoRow, Alive(stmt[i].by)'
              PROVE  InContext(stmt[i].by, stmt[i].content)' /\ InRegistry(stmt[i].by, stmt[i].content)'
  BY DEF RegisteredOK
<1>. USE DEF LedgerInv
<1>0. PICK u, c : u = stmt'[i].by /\ c = stmt'[i].content
  OBVIOUS
<1>1. CASE stmt[i] # NoRow
  <2>1. stmt[i].by = u /\ stmt[i].content = c
    BY <1>0, <1>1, RowStays
  <2>2. u \in Tx /\ c \in Content /\ xact[u] # "idle"
    BY <1>1, <2>1, RowFields DEF RowsOK
  <2>3. Alive(u)
    BY <1>0, <2>2, StatusSteps DEF Alive
  <2>4. InContext(u, c) /\ InRegistry(u, c)
    BY <1>1, <2>1, <2>3 DEF RegisteredOK
  <2>5. InContext(u, c)' /\ InRegistry(u, c)'
    BY <2>2, <2>3, <2>4, SeenStays
  <2>. QED BY <1>0, <2>5
<1>2. CASE stmt[i] = NoRow
  <2>1. PICK t \in Tx : InsertStatement(t)
    <3>1. ASSUME NEW t \in Tx, Begin(t) \/ Commit(t) \/ Raise(t) PROVE FALSE
      BY <1>2, <3>1 DEF Begin, Commit, Raise
    <3>2. ASSUME NEW t \in Tx, CloseRow(t) PROVE FALSE
      BY <1>2, <3>2, ClosedRow
    <3>3. ~ (Elsewhere \/ Tick)
      BY <1>2 DEF Elsewhere, Tick
    <3>. QED BY <3>1, <3>2, <3>3, StepKinds
  <2>2. /\ u = t /\ c = Head(todo[t]) /\ xact[t] = "running" /\ pc[t] = "insert"
    BY <1>0, <1>2, <2>1, InsertedRow DEF InsertStatement, At
  <2>3. c \in Content /\ InContext(t, c) /\ InRegistry(t, c)
    BY <2>2, NextContent DEF RegisteringOK
  <2>4. InContext(u, c)' /\ InRegistry(u, c)'
    BY <2>2, <2>3, SeenStays DEF Alive
  <2>. QED BY <1>0, <2>4
<1>. QED BY <1>1, <1>2

LEMMA RegistryNext == LedgerInv /\ RegistryInv /\ [Next]_vars => RegistryInv'
<1>1. LedgerInv /\ SeedsOK /\ [Next]_vars => SeedsOK'
  BY RegistrationStays DEF SeedsOK
<1>. QED BY <1>1, RegisteringNext, RegisteredNext DEF RegistryInv

\* A committed row is in a committed context, and its predicate is registered
\* by somebody who committed, whoever registered what, waited or was rolled
\* back meanwhile.
THEOREM Registered == Spec => []RegistryCoversLedger
<1>1. Init => RegistryInv
  BY DEF Init, RegistryInv, SeedsOK, RegisteringOK, RegisteredOK
<1>2. ASSUME LedgerInv, RegistryInv PROVE RegistryCoversLedger
  <2>. SUFFICES ASSUME NEW i \in Id, Stored(i)
                PROVE  /\ Committed(ctxBy[stmt[i].content.ctx]) /\ Committed(predBy[stmt[i].content.pred])
                       /\ stmt[i].content.ctx \in Curated => stmt[i].content.pred \in ActivePred
    BY DEF RegistryCoversLedger
  <2>1. stmt[i].by \in Tx /\ xact[stmt[i].by] = "committed"
    BY <1>2, RowFields, TxNames DEF Stored, Committed, LedgerInv
  <2>2. InContext(stmt[i].by, stmt[i].content) /\ InRegistry(stmt[i].by, stmt[i].content)
    BY <1>2, <2>1 DEF RegistryInv, RegisteredOK, Alive, Stored
  <2>. QED BY <2>1, <2>2 DEF InContext, InRegistry, Sees, Committed
<1>. QED BY <1>1, <1>2, RegistryNext, Invariance, PTL DEF Spec
-----------------------------------------------------------------------------
(* What an assertion returns *)

Final(s) == s[Len(s)]

\* What is left to assert ends as the batch does, and when nothing is left the
\* value to return is a row of the batch's last content.
ReturnOK ==
  \A t \in Tx : call[t].op = "assert" =>
    /\ pc[t] \in {"ctx", "mode", "pred", "insert", "fetch"} => Final(todo[t]) = Final(call[t].stmts)
    /\ pc[t] = "done" /\ ret[t] # NoId =>
         /\ stmt[ret[t]] # NoRow /\ stmt[ret[t]].content = Final(call[t].stmts)
         /\ Sees(t, stmt[ret[t]].by)

\* A list of contents that goes on ends as its tail does.
LEMMA FinalOfTail ==
  ASSUME NEW s \in Seq(Content), s # <<>>
  PROVE  IF Tail(s) # <<>> THEN Final(Tail(s)) = Final(s) ELSE Final(s) = Head(s)
<1>1. Len(s) \in Nat /\ Len(s) >= 1
  OBVIOUS
<1>2. Len(Tail(s)) = Len(s) - 1 /\ Tail(s) \in Seq(Content)
  BY <1>1
<1>3. CASE Tail(s) = <<>>
  <2>1. Len(s) = 1
    BY <1>1, <1>2, <1>3
  <2>. QED BY <1>3, <2>1 DEF Final
<1>4. CASE Tail(s) # <<>>
  <2>1. Len(Tail(s)) >= 1
    BY <1>2, <1>4
  <2>2. Tail(s)[Len(s) - 1] = s[Len(s)]
    BY <1>1, <1>2, <2>1
  <2>. QED BY <1>2, <1>4, <2>2 DEF Final
<1>. QED BY <1>3, <1>4

\* What a call of donto_assert has left, and what it will return.
LEMMA ReturnNext ==
  ASSUME LedgerInv, ReturnOK, [Next]_vars
  PROVE  ReturnOK'
<1>. DEFINE Asserting == {"ctx", "mode", "pred", "insert", "fetch"}
            Row_of(t, i, c) == stmt[i] # NoRow /\ stmt[i].content = c /\ Sees(t, stmt[i].by)
<1>. SUFFICES ASSUME NEW t \in Tx, call'[t].op = "assert"
              PROVE  /\ pc'[t] \in Asserting => Final(todo'[t]) = Final(call'[t].stmts)
                     /\ pc'[t] = "done" /\ ret'[t] # NoId => Row_of(t, ret[t], Final(call[t].stmts))'
  BY DEF ReturnOK
<1>. USE DEF LedgerInv
<1>1. CASE Begin(t)
  <2>1. PICK c \in Calls :
          /\ call' = [call EXCEPT ![t] = c]
          /\ todo' = [todo EXCEPT ![t] = IF c.op = "assert" THEN c.stmts ELSE <<>>]
          /\ Goto(t, First[c.op])
    BY <1>1 DEF Begin
  <2>2. call'[t] = c /\ todo'[t] = c.stmts /\ pc'[t] = "ctx"
    BY <2>1 DEF TypeOK, Goto, First
  <2>. QED BY <2>2
<1>2. ASSUME NEW i \in Id, NEW c, Row_of(t, i, c) PROVE Row_of(t, i, c)'
  <2>1. PICK u : u = stmt[i].by
    OBVIOUS
  <2>2. stmt'[i] # NoRow /\ stmt'[i].content = c /\ stmt'[i].by = u
    BY <1>2, <2>1, RowStays
  <2>3. Sees(t, u)'
    BY <1>2, <2>1, CommittedStays DEF Sees
  <2>. QED BY <2>2, <2>3
<1>3. ASSUME call'[t] = call[t], pc'[t] = pc[t], todo'[t] = todo[t], ret'[t] = ret[t]
      PROVE  /\ pc'[t] \in Asserting => Final(todo'[t]) = Final(call'[t].stmts)
             /\ pc'[t] = "done" /\ ret'[t] # NoId => Row_of(t, ret[t], Final(call[t].stmts))'
  <2>1. pc'[t] \in Asserting => Final(todo'[t]) = Final(call'[t].stmts)
    BY <1>3 DEF ReturnOK
  <2>2. ASSUME pc'[t] = "done", ret'[t] # NoId PROVE Row_of(t, ret[t], Final(call[t].stmts))'
    <3>1. PICK i, c : i = ret[t] /\ c = Final(call[t].stmts)
      OBVIOUS
    <3>2. i \in Id /\ Row_of(t, i, c)
      BY <1>3, <2>2, <3>1 DEF ReturnOK, TypeOK
    <3>3. Row_of(t, i, c)'
      BY <1>2, <3>2
    <3>4. i = ret'[t] /\ c = Final(call'[t].stmts)
      BY <1>3, <3>1
    <3>. QED BY <3>3, <3>4
  <2>. QED BY <2>1, <2>2
<1>4. CASE Idle(t)
  BY <1>3, <1>4 DEF Idle
<1>5. CASE Raise(t) \/ Commit(t)
  BY <1>3, <1>5 DEF Raise, Commit, locals
<1>6. CASE ReadRejected(t) \/ CloseRejected(t) \/ CancelDeadlock(t)
  BY <1>5, <1>6 DEF ReadRejected, CloseRejected, CancelDeadlock
<1>. USE DEF TypeOK, CallOK, Goto, At, locals
<1>7. CASE EnsureContext(t) \/ ImplicitRegister(t) \/ SkipInsert(t)
  BY <1>7 DEF EnsureContext, ImplicitRegister, SkipInsert, ReturnOK
<1>8. CASE CheckMode(t) /\ ~ Raise(t)
  BY <1>8 DEF CheckMode, ReturnOK
<1>9. ASSUME InsertStatement(t) \/ FetchOpen(t)
      PROVE  /\ call[t].op = "assert" /\ call'[t] = call[t]
             /\ Final(todo[t]) = Final(call[t].stmts)
             /\ todo'[t] = Tail(todo[t])
             /\ pc'[t] = IF Tail(todo[t]) # <<>> THEN "ctx" ELSE "done"
             /\ IF Tail(todo[t]) # <<>> THEN Final(todo'[t]) = Final(todo[t])
                ELSE Head(todo[t]) = Final(todo[t])
  <2>1. pc[t] \in Asserting /\ todo[t] \in Seq(Content) /\ todo[t] # <<>>
    BY <1>9 DEF InsertStatement, FetchOpen
  <2>2. call[t].op = "assert" /\ call'[t] = call[t] /\ todo'[t] = Tail(todo[t])
    BY <1>9 DEF InsertStatement, FetchOpen
  <2>3. Final(todo[t]) = Final(call[t].stmts)
    BY <2>1, <2>2 DEF ReturnOK
  <2>4. pc'[t] = IF Tail(todo[t]) # <<>> THEN "ctx" ELSE "done"
    BY <1>9, <2>2 DEF InsertStatement, FetchOpen, AfterAssert
  <2>. QED BY <2>1, <2>2, <2>3, <2>4, FinalOfTail
<1>10. CASE InsertStatement(t)
  <2>1. PICK i \in Id : stmt'[i] # NoRow /\ stmt'[i].content = Head(todo[t]) /\ stmt'[i].by = t
                         /\ ret' = [ret EXCEPT ![t] = i]
    BY <1>10, InsertedRow
  <2>2. ret'[t] = i
    BY <2>1
  <2>. HIDE DEF LedgerInv, TypeOK, CallOK, At
  <2>. QED BY <1>9, <1>10, <2>1, <2>2 DEF Sees
<1>11. CASE FetchOpen(t)
  <2>1. /\ pc[t] \in Asserting /\ UNCHANGED <<stmt, xact>>
        /\ ret'[t] = NoId \/ (ret'[t] \in Id /\ Row_of(t, ret'[t], Head(todo[t])))
    BY <1>11 DEF FetchOpen, SeesOpen
  <2>2. \A i, c : Row_of(t, i, c) => Row_of(t, i, c)'
    BY <2>1 DEF Sees, Committed
  <2>. HIDE DEF LedgerInv, TypeOK, CallOK, At
  <2>. QED BY <1>9, <1>11, <2>1, <2>2
<1>12. CASE CloseRow(t) \/ NothingToClose(t)
  <2>1. call[t].op \in {"retract", "correct", "promote"} /\ call'[t] = call[t]
    BY <1>12 DEF CloseRow, NothingToClose
  <2>. QED BY <2>1
<1>13. CASE ReadOld(t) \/ (LinkLineage(t) /\ ~ Raise(t)) \/ LogReplacement(t)
  <2>1. call[t].op \in {"correct", "promote"} /\ call'[t] = call[t]
    BY <1>13 DEF ReadOld, LinkLineage, LogReplacement
  <2>. QED BY <2>1
<1>. QED BY <1>1, <1>4, <1>5, <1>6, <1>7, <1>8, <1>10, <1>11, <1>12, <1>13, OwnSteps DEF Step

\* Only what is done is committed.
CommittedIsDone == \A t \in Tx : xact[t] = "committed" => pc[t] = "done"

LEMMA DoneNext ==
  ASSUME LedgerInv, CommittedIsDone, [Next]_vars
  PROVE  CommittedIsDone'
<1>. SUFFICES ASSUME NEW t \in Tx, xact'[t] = "committed" PROVE pc'[t] = "done"
  BY DEF CommittedIsDone
<1>. USE DEF LedgerInv
<1>1. xact[t] = "committed" \/ (xact[t] = "running" /\ xact' # xact)
  BY StatusSteps
<1>2. CASE Begin(t)
  BY <1>1, <1>2 DEF Begin, TypeOK
<1>3. CASE Idle(t)
  <2>1. xact[t] = "committed" \/ Commit(t)
    <3>1. ASSUME NEW u \in Tx, Commit(u) PROVE xact[t] = "committed" \/ u = t
      BY <3>1 DEF Commit, TypeOK
    <3>2. ASSUME NEW u \in Tx, Begin(u) \/ Raise(u) PROVE xact[t] = "committed"
      BY <3>2 DEF Begin, Raise, TypeOK
    <3>3. ASSUME NEW u \in Tx, InsertStatement(u) \/ CloseRow(u) PROVE xact' = xact
      BY <3>3 DEF InsertStatement, CloseRow
    <3>. QED BY <1>1, <3>1, <3>2, <3>3, StepKinds DEF Elsewhere, Tick
  <2>. QED BY <1>3, <2>1 DEF Idle, CommittedIsDone, Commit, At
<1>4. CASE Step(t)
  <2>1. xact[t] = "running"
    BY <1>4 DEF Step, At, Running, EnsureContext, CheckMode, ImplicitRegister, InsertStatement, SkipInsert,
                FetchOpen, ReadOld, ReadRejected, CloseRow, CloseRejected, NothingToClose, LinkLineage,
                LogReplacement, Commit, CancelDeadlock
  <2>2. ASSUME Raise(t) PROVE FALSE
    BY <2>2 DEF Raise, TypeOK
  <2>3. Commit(t) \/ xact' = xact
    BY <1>4, <2>2 DEF Step, EnsureContext, CheckMode, ImplicitRegister, InsertStatement, SkipInsert,
                FetchOpen, ReadOld, ReadRejected, CloseRow, CloseRejected, NothingToClose, LinkLineage,
                LogReplacement, CancelDeadlock
  <2>. QED BY <1>1, <2>1, <2>3 DEF Commit, At
<1>. QED BY <1>2, <1>3, <1>4, OwnSteps

\* The id an assertion returns is that of a committed row of the last content
\* it was given, its own or somebody else's, for batches of any length.
THEOREM Returned == Spec => []ReturnedRowIsTheStatement
<1>1. Init => ReturnOK /\ CommittedIsDone
  BY DEF Init, NoCall, ReturnOK, CommittedIsDone
<1>2. ASSUME LedgerInv, ReturnOK, CommittedIsDone PROVE ReturnedRowIsTheStatement
  <2>. SUFFICES ASSUME NEW t \in Tx, xact[t] = "committed", call[t].op = "assert", ret[t] # NoId
                PROVE  Stored(ret[t]) /\ stmt[ret[t]].content = call[t].stmts[Len(call[t].stmts)]
    BY DEF ReturnedRowIsTheStatement
  <2>1. /\ stmt[ret[t]] # NoRow /\ stmt[ret[t]].content = Final(call[t].stmts)
        /\ Sees(t, stmt[ret[t]].by)
    BY <1>2 DEF ReturnOK, CommittedIsDone
  <2>. QED BY <2>1 DEF Stored, Sees, Committed, Final
<1>3. LedgerInv /\ ReturnOK /\ CommittedIsDone /\ [Next]_vars => ReturnOK' /\ CommittedIsDone'
  BY ReturnNext, DoneNext
<1>. QED BY <1>1, <1>2, <1>3, Invariance, PTL DEF Spec

-----------------------------------------------------------------------------
(* No statement of a batch is lost *)

\* t has, or sees, a row of content c; a row of it that it sees closed.
HasRow(t, c) == \E i \in Id : stmt[i] # NoRow /\ stmt[i].content = c /\ Sees(t, stmt[i].by)
HasClosed(t, c) == \E i \in Id : stmt[i] # NoRow /\ stmt[i].content = c /\ Sees(t, stmt[i].end)

\* Each statement of the batch is still to be asserted or has a row, and so has
\* the one whose insertion gave way.
StillToDo(t, c) == \E m \in 1..Len(todo[t]) : todo[t][m] = c
PassedOK ==
  \A t \in Tx : call[t].op = "assert" /\ Alive(t) =>
    /\ \A n \in 1..Len(call[t].stmts) : StillToDo(t, call[t].stmts[n]) \/ HasRow(t, call[t].stmts[n])
    /\ pc[t] = "fetch" => HasRow(t, Head(todo[t]))
    /\ pc[t] = "done" =>
         /\ todo[t] = <<>>
         /\ ret[t] = NoId => HasClosed(t, Final(call[t].stmts))

\* An assertion closes no row.
ClosersOK ==
  \A i \in Id : stmt[i] # NoRow /\ stmt[i].end \in Tx => call[stmt[i].end].op # "assert"

LEMMA HasRowStays ==
  ASSUME LedgerInv, [Next]_vars, NEW t \in Tx, NEW c, Alive(t)
  PROVE  (HasRow(t, c) => HasRow(t, c)') /\ (HasClosed(t, c) => HasClosed(t, c)')
<1>1. ASSUME HasRow(t, c) PROVE HasRow(t, c)'
  <2>1. PICK i \in Id : stmt[i] # NoRow /\ stmt[i].content = c /\ Sees(t, stmt[i].by)
    BY <1>1 DEF HasRow
  <2>2. stmt'[i] # NoRow /\ stmt'[i].content = c /\ stmt'[i].by = stmt[i].by
    BY <2>1, RowStays
  <2>3. PICK u : u = stmt[i].by
    OBVIOUS
  <2>4. Sees(t, u)'
    BY <2>1, <2>3, CommittedStays DEF Sees, LedgerInv
  <2>. QED BY <2>2, <2>3, <2>4 DEF HasRow
<1>2. ASSUME HasClosed(t, c) PROVE HasClosed(t, c)'
  <2>1. PICK i \in Id : stmt[i] # NoRow /\ stmt[i].content = c /\ Sees(t, stmt[i].end)
    BY <1>2 DEF HasClosed
  <2>2. stmt'[i] # NoRow /\ stmt'[i].content = c /\ Sees(t, stmt[i].end)'
    BY <2>1, RowStays
  <2>. QED BY <2>2 DEF HasClosed
<1>. QED BY <1>1, <1>2

LEMMA ClosersNext ==
  ASSUME LedgerInv, ClosersOK, [Next]_vars
  PROVE  ClosersOK'
<1>. SUFFICES ASSUME NEW i \in Id, stmt'[i] # NoRow, NEW u \in Tx, stmt'[i].end = u
              PROVE  call'[u].op # "assert"
  BY DEF ClosersOK
<1>. USE DEF LedgerInv
<1>1. CASE stmt'[i] = stmt[i]
  <2>1. xact[u] # "idle" /\ call[u].op # "assert"
    BY <1>1 DEF RowsOK, ClosersOK
  <2>2. call'[u] = call[u]
    <3>1. CASE Begin(u)
      BY <2>1, <3>1 DEF Begin
    <3>2. CASE Step(u)
      BY <3>2 DEF Step, Raise, EnsureContext, CheckMode, ImplicitRegister, InsertStatement, SkipInsert,
                  FetchOpen, ReadOld, ReadRejected, CloseRow, CloseRejected, NothingToClose, LinkLineage,
                  LogReplacement, Commit, CancelDeadlock, locals
    <3>. QED BY <3>1, <3>2, OwnSteps DEF Idle
  <2>. QED BY <2>1, <2>2
<1>2. ASSUME NEW t \in Tx, InsertStatement(t), stmt'[i] # stmt[i] PROVE FALSE
  <2>1. stmt'[i].end = NoTx
    BY <1>2, InsertedRow
  <2>. QED BY <2>1
<1>3. ASSUME NEW t \in Tx, CloseRow(t), stmt'[i] # stmt[i] PROVE call'[u].op # "assert"
  <2>1. u = t
    BY <1>3, ClosedRow
  <2>2. call'[t] = call[t] /\ call[t].op # "assert"
    BY <1>3 DEF CloseRow, CallOK, At
  <2>. QED BY <2>1, <2>2
<1>4. ASSUME NEW t \in Tx, Begin(t) \/ Commit(t) \/ Raise(t) PROVE stmt' = stmt
  BY <1>4 DEF Begin, Commit, Raise
<1>5. (Elsewhere \/ Tick) => stmt' = stmt
  BY DEF Elsewhere, Tick
<1>. QED BY <1>1, <1>2, <1>3, <1>4, <1>5, StepKinds

\* The statement donto_assert has just dealt with is the only one that is no
\* longer to be done.
LEMMA DoneWithHead ==
  ASSUME NEW s \in Seq(Content), s # <<>>, NEW m \in 1..Len(s), s[m] # Head(s)
  PROVE  \E n \in 1..Len(Tail(s)) : Tail(s)[n] = s[m]
<1>1. m # 1 /\ Len(Tail(s)) = Len(s) - 1
  OBVIOUS
<1>2. m - 1 \in 1..Len(Tail(s)) /\ Tail(s)[m - 1] = s[m]
  BY <1>1
<1>. QED BY <1>2

LEMMA PassedNext ==
  ASSUME LedgerInv, ReturnOK, ClosersOK, PassedOK, [Next]_vars
  PROVE  PassedOK'
<1>. DEFINE Passed(t) == \A n \in 1..Len(call[t].stmts) :
              StillToDo(t, call[t].stmts[n]) \/ HasRow(t, call[t].stmts[n])
            Looking(t) == pc[t] = "fetch" => HasRow(t, Head(todo[t]))
            Ended(t) == pc[t] = "done" =>
              todo[t] = <<>> /\ (ret[t] = NoId => HasClosed(t, Final(call[t].stmts)))
            Asserting == {"ctx", "mode", "pred", "insert", "fetch"}
<1>. SUFFICES ASSUME NEW t \in Tx, call'[t].op = "assert", Alive(t)'
              PROVE  (Passed(t) /\ Looking(t) /\ Ended(t))'
  BY DEF PassedOK
<1>. USE DEF LedgerInv
<1>1. CASE Begin(t)
  <2>1. PICK c \in Calls :
          /\ call' = [call EXCEPT ![t] = c]
          /\ todo' = [todo EXCEPT ![t] = IF c.op = "assert" THEN c.stmts ELSE <<>>]
          /\ Goto(t, First[c.op])
    BY <1>1 DEF Begin
  <2>2. call'[t] = c /\ todo'[t] = c.stmts /\ pc'[t] = "ctx"
    BY <2>1 DEF TypeOK, Goto, First
  <2>. QED BY <2>2 DEF StillToDo
<1>. SUFFICES ASSUME ~ Begin(t) PROVE (Passed(t) /\ Looking(t) /\ Ended(t))'
  BY <1>1
<1>2. Alive(t) /\ call'[t] = call[t]
  <2>1. Alive(t)
    BY StatusSteps DEF Alive
  <2>2. ASSUME Step(t) PROVE call'[t] = call[t]
    BY <2>2 DEF Step, Raise, EnsureContext, CheckMode, ImplicitRegister, InsertStatement, SkipInsert,
                FetchOpen, ReadOld, ReadRejected, CloseRow, CloseRejected, NothingToClose, LinkLineage,
                LogReplacement, Commit, CancelDeadlock, locals
  <2>3. ASSUME Idle(t) PROVE call'[t] = call[t]
    BY <2>3 DEF Idle
  <2>. QED BY <2>1, <2>2, <2>3, OwnSteps
<1>3. Passed(t) /\ Looking(t) /\ Ended(t)
  BY <1>2 DEF PassedOK
<1>4. \A c : (HasRow(t, c) => HasRow(t, c)') /\ (HasClosed(t, c) => HasClosed(t, c)')
  BY <1>2, HasRowStays
<1>5. ASSUME todo'[t] = todo[t] PROVE Passed(t)'
  BY <1>2, <1>3, <1>4, <1>5 DEF StillToDo
<1>6. ASSUME todo'[t] = todo[t], pc'[t] = pc[t], ret'[t] = ret[t] PROVE (Looking(t) /\ Ended(t))'
  BY <1>2, <1>3, <1>4, <1>6
<1>7. CASE Idle(t)
  BY <1>5, <1>6, <1>7 DEF Idle
<1>8. CASE Raise(t) \/ Commit(t)
  BY <1>5, <1>6, <1>8 DEF Raise, Commit, locals
<1>9. CASE ReadRejected(t) \/ CloseRejected(t) \/ CancelDeadlock(t)
  BY <1>8, <1>9 DEF ReadRejected, CloseRejected, CancelDeadlock
<1>10. CASE EnsureContext(t) \/ ImplicitRegister(t) \/ (CheckMode(t) /\ ~ Raise(t))
  <2>1. todo'[t] = todo[t] /\ pc'[t] \in {"mode", "insert", "pred"}
    BY <1>10 DEF EnsureContext, ImplicitRegister, CheckMode, Goto, TypeOK, locals
  <2>. QED BY <1>5, <2>1
<1>11. CASE SkipInsert(t)
  <2>1. todo'[t] = todo[t] /\ pc'[t] = "fetch"
    BY <1>11 DEF SkipInsert, Goto, TypeOK, locals
  <2>2. PICK i \in Id : Live(i) /\ stmt[i].content = Head(todo[t]) /\ stmt[i].end # t
    BY <1>11 DEF SkipInsert, Rivals
  <2>3. Sees(t, stmt[i].by)
    <3>1. pc[t] = "insert" /\ ~ \E u \in Tx \ {t} : Running(u) /\ u = stmt[i].by
      BY <1>11, <2>2 DEF SkipInsert, At, WaitsFor, Rivals
    <3>. QED BY <2>2, <3>1 DEF Live, Sees, Running
  <2>4. HasRow(t, Head(todo[t]))
    BY <2>2, <2>3 DEF HasRow, Live
  <2>. QED BY <1>4, <1>5, <2>1, <2>4
<1>12. ASSUME InsertStatement(t) \/ FetchOpen(t), NEW h, h = Head(todo[t]), HasRow(t, h)',
              pc'[t] = "done" /\ ret'[t] = NoId => HasClosed(t, h)'
       PROVE  (Passed(t) /\ Looking(t) /\ Ended(t))'
  <2>1. todo[t] \in Seq(Content) /\ todo[t] # <<>> /\ pc[t] \in Asserting
    BY <1>12 DEF InsertStatement, FetchOpen, TypeOK, CallOK, At
  <2>2. todo'[t] = Tail(todo[t])
    BY <1>12 DEF InsertStatement, FetchOpen, TypeOK
  <2>3. pc'[t] = IF Tail(todo[t]) # <<>> THEN "ctx" ELSE "done"
    BY <1>2, <1>12 DEF InsertStatement, FetchOpen, AfterAssert, Goto, TypeOK
  <2>4. ASSUME NEW n \in 1..Len(call'[t].stmts)
        PROVE  StillToDo(t, call[t].stmts[n])' \/ HasRow(t, call[t].stmts[n])'
    <3>1. PICK c : c = call[t].stmts[n]
      OBVIOUS
    <3>2. StillToDo(t, c) \/ HasRow(t, c)
      BY <1>2, <1>3, <2>4, <3>1
    <3>3. CASE HasRow(t, c)
      BY <1>2, <1>4, <3>1, <3>3
    <3>4. CASE c = h
      BY <1>2, <1>12, <3>1, <3>4
    <3>5. CASE StillToDo(t, c) /\ c # h
      <4>1. \E m \in 1..Len(todo'[t]) : todo'[t][m] = c
        BY <1>12, <2>1, <2>2, <3>5, DoneWithHead DEF StillToDo
      <4>. QED BY <1>2, <3>1, <4>1 DEF StillToDo
    <3>. QED BY <3>2, <3>3, <3>4, <3>5
  <2>5. Final(todo[t]) = Final(call[t].stmts)
    BY <1>2, <2>1 DEF ReturnOK
  <2>6. pc'[t] = "done" => h = Final(call'[t].stmts)
    BY <1>2, <1>12, <2>1, <2>3, <2>5, FinalOfTail
  <2>. QED BY <1>12, <2>2, <2>3, <2>4, <2>6
<1>13. CASE InsertStatement(t)
  <2>1. PICK h : h = Head(todo[t])
    OBVIOUS
  <2>2. PICK i \in Id : stmt'[i] # NoRow /\ stmt'[i].content = h /\ stmt'[i].by = t
                         /\ ret' = [ret EXCEPT ![t] = i]
    BY <1>13, <2>1, InsertedRow
  <2>3. ret'[t] = i
    BY <2>2 DEF TypeOK
  <2>4. Sees(t, t)'
    BY DEF Sees
  <2>5. HasRow(t, h)'
    BY <2>2, <2>4 DEF HasRow
  <2>. QED BY <1>12, <1>13, <2>1, <2>3, <2>5, IdNames
<1>14. CASE FetchOpen(t)
  <2>1. pc[t] = "fetch" /\ HasRow(t, Head(todo[t]))
    BY <1>3, <1>14 DEF FetchOpen, At
  <2>2. ASSUME ret'[t] = NoId PROVE HasClosed(t, Head(todo[t]))
    <3>1. PICK i \in Id : stmt[i] # NoRow /\ stmt[i].content = Head(todo[t]) /\ Sees(t, stmt[i].by)
      BY <2>1 DEF HasRow
    <3>2. ~ SeesOpen(t, i)
      BY <1>14, <2>2, <3>1 DEF FetchOpen, TypeOK
    <3>. QED BY <3>1, <3>2 DEF HasClosed, SeesOpen
  <2>3. PICK h : h = Head(todo[t])
    OBVIOUS
  <2>. QED BY <1>4, <1>12, <1>14, <2>1, <2>2, <2>3
<1>15. CASE CloseRow(t) \/ NothingToClose(t)
  <2>1. call[t].op # "assert"
    BY <1>15 DEF CloseRow, NothingToClose, CallOK, At
  <2>. QED BY <1>2, <2>1
<1>16. CASE ReadOld(t) \/ LinkLineage(t) \/ LogReplacement(t)
  <2>1. call[t].op # "assert"
    BY <1>16 DEF ReadOld, LinkLineage, LogReplacement, CallOK, At
  <2>. QED BY <1>2, <2>1
<1>. QED BY <1>7, <1>8, <1>9, <1>10, <1>11, <1>13, <1>14, <1>15, <1>16, OwnSteps DEF Step

\* No statement of an assertion that has succeeded is lost, for batches of any
\* length: the row it gave way to was committed, and NULL is returned of a
\* statement that has been retracted in between.
THEOREM NothingIsLost == Spec => []AssertedIsStored
<1>1. Init => ReturnOK /\ CommittedIsDone /\ ClosersOK /\ PassedOK
  BY DEF Init, NoCall, ReturnOK, CommittedIsDone, ClosersOK, PassedOK
<1>2. ASSUME LedgerInv, CommittedIsDone, ClosersOK, PassedOK PROVE AssertedIsStored
  <2>. SUFFICES ASSUME NEW t \in Tx, xact[t] = "committed", call[t].op = "assert"
                PROVE  LET batch == call[t].stmts
                           RowsOf(c) == {i \in Id : Stored(i) /\ stmt[i].content = c}
                       IN /\ \A n \in 1..Len(batch) : RowsOf(batch[n]) # {}
                          /\ ret[t] = NoId => \E i \in RowsOf(batch[Len(batch)]) : Closed(i)
    BY DEF AssertedIsStored
  <2>1. \A u : Sees(t, u) => Committed(u)
    BY DEF Sees, Committed
  <2>2. /\ \A n \in 1..Len(call[t].stmts) : StillToDo(t, call[t].stmts[n]) \/ HasRow(t, call[t].stmts[n])
        /\ todo[t] = <<>> /\ (ret[t] = NoId => HasClosed(t, Final(call[t].stmts)))
    BY <1>2 DEF PassedOK, CommittedIsDone, Alive
  <2>3. \A c : HasRow(t, c) => \E i \in Id : Stored(i) /\ stmt[i].content = c
    BY <2>1 DEF HasRow, Stored
  <2>4. \A c : HasClosed(t, c) => \E i \in Id : Stored(i) /\ stmt[i].content = c /\ Closed(i)
    <3>. SUFFICES ASSUME NEW c, NEW i \in Id, stmt[i] # NoRow, stmt[i].content = c, Sees(t, stmt[i].end)
                  PROVE  Stored(i) /\ Closed(i)
      BY DEF HasClosed
    <3>1. Committed(stmt[i].end) /\ stmt[i].end # NoTx
      BY <2>1, TxNames DEF Committed
    <3>. QED BY <1>2, <3>1 DEF Stored, Closed, LedgerInv, RowsOK
  <2>5. \A c : ~ StillToDo(t, c)
    BY <2>2 DEF StillToDo
  <2>. QED BY <2>2, <2>3, <2>4, <2>5 DEF Final
<1>3. LedgerInv /\ ReturnOK /\ CommittedIsDone /\ ClosersOK /\ PassedOK /\ [Next]_vars
        => (ReturnOK /\ CommittedIsDone /\ ClosersOK /\ PassedOK)'
  BY ReturnNext, DoneNext, ClosersNext, PassedNext
<1>. QED BY <1>1, <1>2, <1>3, Invariance, PTL DEF Spec

-----------------------------------------------------------------------------
(* The ledger implements the belief log: the steps of a call are invisible  *)
(* to readers, except the commit, which is one publication.                 *)

USE OpenUpperBound, AbsentName

\* A committed row reads as a belief that is not Absent; it reads as held
\* exactly when the row is in the current belief.
LEMMA BeliefOfRow ==
  ASSUME TypeOK, NEW i \in Id, Stored(i)
  PROVE  /\ Belief(i) # Absent
         /\ Belief(i).content = stmt[i].content /\ Belief(i).lo = stmt[i].lo
         /\ Belief(i).hi = (IF Closed(i) THEN stmt[i].hi ELSE Open)
         /\ Belief(i).hi = Open <=> i \in Current
<1>1. stmt[i].content \in Content /\ stmt[i].lo \in Nat /\ stmt[i].hi \in Nat
  BY RowFields DEF Stored
<1>2. Belief(i) \in [content : Content, lo : Nat, hi : Nat \cup {Open}]
  BY <1>1 DEF Belief
<1>. QED BY <1>1, <1>2 DEF Belief, Current

LEMMA HeldIsCurrent ==
  ASSUME TypeOK, NEW i \in Id
  PROVE  Log!Held(i) <=> i \in Current
BY BeliefOfRow DEF Log!Held, Belief, Current

\* Readers never see one content held twice.
LEMMA BeliefsUnique ==
  ASSUME LedgerInv
  PROVE  Log!NoContentTwice
<1>1. OneOpenRowPerContent
  BY InvImpliesUnique
<1>2. TypeOK
  BY DEF LedgerInv
<1>. QED BY <1>1, <1>2, HeldIsCurrent, BeliefOfRow DEF Log!NoContentTwice, OneOpenRowPerContent, Current

\* Everything but a commit is invisible.
LEMMA Invisible ==
  ASSUME LedgerInv, [Next]_vars, ~ \E t \in Tx : Commit(t), NEW i \in Id
  PROVE  Belief(i)' = Belief(i)
<1>. USE DEF LedgerInv, Belief, Stored, Closed
<1>1. CASE Elsewhere \/ Tick
  BY <1>1 DEF Elsewhere, Tick, Committed
<1>2. ASSUME NEW t \in Tx, Begin(t) \/ (Running(t) /\ Raise(t)) PROVE Belief(i)' = Belief(i)
  <2>1. /\ xact[t] \in {"idle", "running"} /\ stmt' = stmt
        /\ \/ xact' = [xact EXCEPT ![t] = "running"]
           \/ xact' = [xact EXCEPT ![t] = "aborted"]
    BY <1>2 DEF Begin, Raise, Running
  <2>2. \A u : Committed(u)' <=> Committed(u)
    BY <2>1 DEF Committed, TypeOK
  <2>. QED BY <2>1, <2>2
<1>3. ASSUME NEW t \in Tx, InsertStatement(t) PROVE Belief(i)' = Belief(i)
  <2>1. ~ Committed(t)
    BY <1>3, InsertedRow, TxNames DEF Committed
  <2>. QED BY <1>3, <2>1, InsertedRow DEF Committed
<1>4. ASSUME NEW t \in Tx, CloseRow(t) PROVE Belief(i)' = Belief(i)
  <2>1. PICK k \in Id :
          /\ stmt[k] # NoRow /\ stmt'[k] # NoRow
          /\ ~ Sees(t, stmt[k].end)
          /\ stmt'[k].content = stmt[k].content /\ stmt'[k].lo = stmt[k].lo
          /\ stmt'[k].by = stmt[k].by /\ stmt'[k].end = t
          /\ \A j \in Id \ {k} : stmt'[j] = stmt[j]
          /\ xact[t] = "running" /\ xact' = xact
    BY <1>4, ClosedRow
  <2>2. ~ Committed(t) /\ ~ Committed(stmt[k].end)
    BY <2>1, TxNames DEF Committed, Sees
  <2>3. \A u : Committed(u)' <=> Committed(u)
    BY <2>1 DEF Committed
  <2>. QED BY <2>1, <2>2, <2>3
<1>. QED BY <1>1, <1>2, <1>3, <1>4, StepKinds

\* A commit opens the rows the transaction inserted and closes those it closed,
\* at the time the transaction began.
LEMMA CommitPublishes ==
  ASSUME LedgerInv, [Next]_vars, NEW t \in Tx, Commit(t)
  PROVE  Log!Next
<1>. DEFINE new == {i \in Id : stmt[i] # NoRow /\ stmt[i].by = t}
            gone == {i \in Id : Stored(i) /\ stmt[i].end = t}
            f == [i \in new |-> stmt[i].content]
<1>. USE DEF LedgerInv
<1>1. xact[t] = "running" /\ xact' = [xact EXCEPT ![t] = "committed"] /\ stmt' = stmt
  BY DEF Commit, At
<1>2. ~ Committed(t) /\ \A u : Committed(u)' <=> (Committed(u) \/ u = t)
  BY <1>1, TxNames DEF Committed, TypeOK
<1>3. now[t] \in 0..MaxTime
  BY DEF TypeOK
<1>4. f \in [new -> Content]
  BY RowFields
<1>5. new \in SUBSET {i \in Id : Belief(i) = Absent}
  BY <1>2 DEF Belief, Stored
<1>6. gone \in SUBSET {i \in Id : Log!Held(i) /\ Belief(i).lo < now[t]}
  <2>. SUFFICES ASSUME NEW i \in gone PROVE Log!Held(i) /\ Belief(i).lo < now[t]
    OBVIOUS
  <2>1. i \in Current
    BY <1>2 DEF Current, Closed
  <2>2. stmt[i].lo < stmt[i].hi /\ stmt[i].hi = now[t]
    BY TxNames DEF RowsOK, Stored
  <2>. QED BY <2>1, <2>2, HeldIsCurrent, BeliefOfRow
<1>7. ASSUME NEW i \in Id
      PROVE  Belief(i)' = IF i \in new THEN [content |-> f[i], lo |-> now[t], hi |-> Open]
                          ELSE IF i \in gone THEN [Belief(i) EXCEPT !.hi = now[t]]
                          ELSE Belief(i)
  <2>1. CASE i \in new
    <3>1. Stored(i)' /\ ~ Closed(i)' /\ stmt[i].lo = now[t]
      BY <1>1, <1>2, <2>1, TxNames DEF RowsOK, Stored, Closed, Committed
    <3>. QED BY <1>1, <2>1, <3>1 DEF Belief
  <2>2. CASE i \notin new /\ i \in gone
    <3>1. Stored(i) /\ ~ Closed(i) /\ Stored(i)' /\ Closed(i)'
      BY <1>1, <1>2, <2>2 DEF Stored, Closed
    <3>2. stmt[i].hi = now[t]
      BY <2>2, TxNames DEF RowsOK, Stored
    <3>. QED BY <1>1, <2>2, <3>1, <3>2 DEF Belief
  <2>3. CASE i \notin new /\ i \notin gone
    <3>1. Stored(i)' <=> Stored(i)
      BY <1>1, <1>2, <2>3 DEF Stored
    <3>2. Stored(i) => (Closed(i)' <=> Closed(i))
      BY <1>1, <1>2, <2>3 DEF Closed
    <3>. QED BY <1>1, <2>3, <3>1, <3>2 DEF Belief
  <2>. QED BY <2>1, <2>2, <2>3
<1>8. Log!Publish(now[t], new, f, gone)
  BY <1>7 DEF Log!Publish
<1>9. Log!NoContentTwice'
  <2>1. LedgerInv'
    BY InvNext
  <2>. QED BY <2>1, BeliefsUnique, PTL
<1>. HIDE DEF new, gone, f
<1>. QED BY <1>3, <1>4, <1>5, <1>6, <1>8, <1>9 DEF Log!Next

\* To its readers, the ledger is the belief log.
THEOREM Refinement == Spec => ImplementsBeliefLog
<1>1. Init => Log!Init
  BY DEF Init, Log!Init, Belief, Stored
<1>2. LedgerInv /\ [Next]_vars => [Log!Next]_([i \in Id |-> Belief(i)])
  <2>. SUFFICES ASSUME LedgerInv, [Next]_vars
                PROVE  Log!Next \/ [i \in Id |-> Belief(i)]' = [i \in Id |-> Belief(i)]
    OBVIOUS
  <2>1. CASE \E t \in Tx : Commit(t)
    BY <2>1, CommitPublishes
  <2>2. CASE ~ \E t \in Tx : Commit(t)
    BY <2>2, Invisible
  <2>. QED BY <2>1, <2>2
<1>. QED BY <1>1, <1>2, Invariance, PTL DEF Spec, Log!Spec, ImplementsBeliefLog
=============================================================================
