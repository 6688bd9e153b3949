-------------------------- MODULE DerivationProofs --------------------------
(***************************************************************************)
(* What TLAPS proves of Derivation: a report of a clean run is followed by *)
(* everything the rule derives from what the run read, whatever handlers,  *)
(* rules, contexts, nodes and edits there are.                             *)
(***************************************************************************)
EXTENDS Derivation, FiniteSetTheorems, SequenceTheorems, TLAPS

Finite ==
  /\ IsFiniteSet(open)
  /\ \A h \in Handler : IsFiniteSet(seen[h])
  /\ \A rep \in reports : IsFiniteSet(rep.seen)

TypeInv == TypeOK /\ Finite

-----------------------------------------------------------------------------
(* The operators *)

\* The edges a query reads are finitely many statements.
LEMMA EdgesAreTyped ==
  ASSUME TypeOK, IsFiniteSet(open), NEW q \in Request
  PROVE  IsFiniteSet(Edges(q)) /\ Edges(q) \subseteq Id
<1>. DEFINE S == {x \in open : x.pred = q.pred /\ x.ctx \in q.scope}
            f == [x \in S |-> Latest(x)]
<1>1. IsFiniteSet(S)
  BY FS_Subset
<1>2. f \in Surjection(S, Edges(q))
  BY DEF Surjection, Edges
<1>3. IsFiniteSet(Edges(q))
  BY <1>1, <1>2, FS_Surjection
<1>4. Edges(q) \subseteq Id
  BY DEF Edges, Latest, TypeOK, Id
<1>. QED BY <1>3, <1>4

\* The rows of a rule are pairs of nodes with statements as sources.
LEMMA RowsAreTyped ==
  ASSUME NEW q \in Request, NEW es \in SUBSET Id, IsFiniteSet(es),
         NEW row \in Rows(q, es)
  PROVE  /\ row \in [from : Node, to : Node, why : SUBSET Id]
         /\ Emitted(q, row) \in Content
<1>1. \A e \in es : e.of.from \in Node /\ e.of.to \in Node
  BY DEF Id, Content
<1>2. row \in [from : Node, to : Node, why : SUBSET Id]
  <2>1. CASE q.kind = "transitive"
    <3>1. PICK w \in Chains(es) :
            row = [from |-> w[1].of.from, to |-> w[Len(w)].of.to, why |-> {w[k] : k \in 1..Len(w)}]
      BY <2>1 DEF Rows
    <3>2. PICK n \in 1..Cardinality(es) : w \in [1..n -> es]
      BY DEF Chains
    <3>3. n \in Nat \ {0}
      BY <3>2, FS_CardinalityType
    <3>4. w \in Seq(es)
      BY <3>2, <3>3, IsASeq
    <3>5. Len(w) = n
      BY <3>2, <3>3, <3>4, LenProperties
    <3>6. w[1] \in es /\ w[Len(w)] \in es /\ \A k \in 1..Len(w) : w[k] \in es
      BY <3>2, <3>3, <3>5
    <3>. QED BY <1>1, <3>1, <3>6
  <2>2. CASE q.kind # "transitive"
    <3>1. PICK e \in es : row = [from |-> e.of.to, to |-> e.of.from, why |-> {e}]
      BY <2>2 DEF Rows
    <3>. QED BY <1>1, <3>1
  <2>. QED BY <2>1, <2>2
<1>3. Emitted(q, row) \in Content
  BY <1>2, RequestsAreRequests DEF Emitted, Content
<1>. QED BY <1>2, <1>3

\* An assertion adds at most one statement, and the content is open after it.
LEMMA AssertionsGrow ==
  ASSUME TypeOK, IsFiniteSet(open), NEW c \in Content, AssertStatement(c)
  PROVE  /\ made' \in [Content -> Nat]
         /\ open' \subseteq {x \in Content : made'[x] > 0}
         /\ IsFiniteSet(open')
         /\ \A x \in Content : made[x] <= made'[x]
         /\ made'[c] > 0
<1>1. IsFiniteSet(open')
  BY FS_AddElement DEF AssertStatement
<1>. QED BY <1>1 DEF AssertStatement, TypeOK

-----------------------------------------------------------------------------
(* Types *)

\* TypeOK is inductive with the finiteness of what the queries read.
LEMMA TypeInvariance == Spec => []TypeInv
<1>. USE RequestsAreRequests, OthersAssertContent, BoundsAreNatural
<1>1. Init => TypeInv
  <2>1. SUFFICES ASSUME Init PROVE TypeInv
    OBVIOUS
  <2>2. IsFiniteSet(open)
    BY <2>1, FS_Subset DEF Init
  <2>3. Finite
    BY <2>1, <2>2, FS_EmptySet DEF Init, Finite
  <2>4. TypeOK
    BY <2>1 DEF Init, TypeOK
  <2>. QED BY <2>3, <2>4 DEF TypeInv
<1>2. TypeInv /\ [Next]_vars => TypeInv'
  <2>. SUFFICES ASSUME TypeOK, Finite, [Next]_vars PROVE TypeInv'
    BY DEF TypeInv
  <2>1. CASE Edit
    <3>1. made' \in [Content -> Nat] /\ open' \subseteq {x \in Content : made'[x] > 0} /\ IsFiniteSet(open')
      <4>1. CASE \E c \in Elsewhere \ open : AssertStatement(c)
        BY <4>1, AssertionsGrow DEF Finite
      <4>2. CASE \E c \in open : open' = open \ {c} /\ UNCHANGED made
        BY <4>2, FS_Subset DEF Finite, TypeOK
      <4>. QED BY <2>1, <4>1, <4>2 DEF Edit
    <3>. QED BY <2>1, <3>1 DEF Edit, TypeInv, TypeOK, Finite, work
  <2>2. ASSUME NEW h \in Handler, Drop(h) \/ Step(h) \/ \E q \in Request : Receive(h, q)
        PROVE  TypeInv'
    <3>. USE DEF Goto, Spoil, Fault, ledger, work
    <3>0. ASSUME End(h), UNCHANGED <<made, open, lineage>>,
                 reports' = reports \/
                 (pc[h] = "report" /\ reports' = reports \cup {[req |-> req[h], seen |-> seen[h], clean |-> clean[h]]}),
                 UNCHANGED edits, faults' \in 0..MaxFaults
          PROVE  TypeInv'
      BY <3>0, FS_EmptySet DEF End, TypeInv, TypeOK, Finite
    <3>1. CASE Drop(h)
      BY <3>0, <3>1 DEF Drop, TypeOK
    <3>2. CASE \E q \in Request : Receive(h, q)
      <4>1. PICK q \in Request : Receive(h, q)
        BY <3>2
      <4>2. q # None /\ req' = [req EXCEPT ![h] = q] /\ pc' = [pc EXCEPT ![h] = "lookup"]
        BY <4>1, NoneIsNothing DEF Receive
      <4>3. \A k \in Handler : pc'[k] \notin {"idle", "ended"} => req'[k] # None
        BY <4>2 DEF TypeOK
      <4>4. UNCHANGED <<made, open, lineage, reports, edits, faults, seen, todo, cur, clean, holding>>
        BY <4>1 DEF Receive
      <4>5. holding' \subseteq {k \in Handler : pc'[k] = "emit"}
        BY <4>1, <4>2, <4>4 DEF Receive, TypeOK
      <4>. QED BY <4>2, <4>3, <4>4, <4>5 DEF TypeInv, TypeOK, Finite
    <3>3. CASE Lookup(h)
      <4>1. CASE End(h)
        BY <3>0, <3>3, <4>1 DEF Lookup, TypeOK
      <4>2. CASE ~ End(h)
        BY <3>3, <4>2 DEF Lookup, TypeInv, TypeOK, Finite
      <4>. QED BY <4>1, <4>2
    <3>4. CASE Ensure(h)
      <4>1. CASE End(h)
        BY <3>0, <3>4, <4>1 DEF Ensure, TypeOK
      <4>2. CASE ~ End(h)
        BY <3>4, <4>2 DEF Ensure, TypeInv, TypeOK, Finite
      <4>. QED BY <4>1, <4>2
    <3>5. CASE Read(h)
      <4>1. req[h] \in Request
        BY <3>5 DEF Read, TypeOK
      <4>2. IsFiniteSet(Edges(req[h])) /\ Edges(req[h]) \subseteq Id
        BY <4>1, EdgesAreTyped DEF Finite
      <4>3. Rows(req[h], Edges(req[h])) \subseteq [from : Node, to : Node, why : SUBSET Id]
        BY <4>1, <4>2, RowsAreTyped
      <4>. QED BY <3>5, <4>2, <4>3 DEF Read, TypeInv, TypeOK, Finite
    <3>6. CASE ReadFails(h)
      BY <3>6 DEF ReadFails, TypeInv, TypeOK, Finite
    <3>7. ASSUME NEW row \in todo[h], Emit(h, row) \/ EmitFails(h, row)
          PROVE  TypeInv'
      <4>. DEFINE c == Emitted(req[h], row)
      <4>1. c \in Content
        BY <3>7 DEF Emit, EmitFails, TypeOK, Emitted, Content
      <4>2. \/ UNCHANGED <<made, open>>
            \/ AssertStatement(c)
        BY <3>7 DEF Emit, EmitFails
      <4>3. made' \in [Content -> Nat] /\ open' \subseteq {x \in Content : made'[x] > 0} /\ IsFiniteSet(open')
        BY <4>1, <4>2, AssertionsGrow DEF TypeOK, Finite
      <4>4. CASE Emit(h, row)
        <5>1. [of |-> c, no |-> made'[c]] \in Id
          BY <4>1, <4>3 DEF Id
        <5>2. cur' = [cur EXCEPT ![h] = [id |-> [of |-> c, no |-> made'[c]], why |-> row.why]]
          BY <4>4 DEF Emit
        <5>3. cur' \in [Handler -> [id : Id, why : SUBSET Id] \cup {None}]
          BY <5>1, <5>2 DEF TypeOK
        <5>. HIDE DEF c
        <5>. QED BY <4>3, <4>4, <5>3 DEF Emit, TypeInv, TypeOK, Finite
      <4>5. CASE EmitFails(h, row)
        BY <4>3, <4>5 DEF EmitFails, TypeInv, TypeOK, Finite
      <4>. QED BY <3>7, <4>4, <4>5
    <3>8. CASE Lineage(h)
      BY <3>8 DEF Lineage, TypeInv, TypeOK, Finite
    <3>9. CASE LineageFails(h)
      BY <3>9 DEF LineageFails, TypeInv, TypeOK, Finite
    <3>10. CASE EndEmit(h)
      BY <3>10 DEF EndEmit, TypeInv, TypeOK, Finite
    <3>11. CASE Report(h)
      BY <3>0, <3>11 DEF Report, TypeOK
    <3>. QED BY <2>2, <3>1, <3>2, <3>3, <3>4, <3>5, <3>6, <3>7, <3>8, <3>9, <3>10, <3>11 DEF Step
  <2>3. CASE UNCHANGED vars
    BY <2>3 DEF vars, ledger, work, TypeInv, TypeOK, Finite
  <2>. QED BY <2>1, <2>2, <2>3 DEF Next
<1>. QED BY <1>1, <1>2, PTL DEF Spec

\* The tables and the handlers' locals keep their types, and a connection is
\* only kept to emit (rules.rs: transitive_closure, inverse_emission).
THEOREM Typing == Spec => []TypeOK
BY TypeInvariance, PTL DEF TypeInv

-----------------------------------------------------------------------------
(* Reports *)

\* The row is written, with all its lineage, in a ledger with m statements of
\* each content and lineage l.
WrittenIn(m, l, q, row) ==
  \E n \in 1..m[Emitted(q, row)] :
     {[of |-> Emitted(q, row), no |-> n]} \X row.why \subseteq l

Written(q, row) == WrittenIn(made, lineage, q, row)
WrittenNext(q, row) == WrittenIn(made', lineage', q, row)

\* The statement of the row was written and its lineage comes next.
Pending(h, row) ==
  /\ cur[h] # None
  /\ cur[h].why = row.why
  /\ cur[h].id.of = Emitted(req[h], row)
  /\ cur[h].id.no \in 1..made[Emitted(req[h], row)]

\* What a clean run read is still to be emitted, pending or written.
Progress(h) ==
  pc[h] \in {"emit", "report"} /\ clean[h] =>
    \A row \in Rows(req[h], seen[h]) :
      \/ pc[h] = "emit" /\ (row \in todo[h] \/ Pending(h, row))
      \/ Written(req[h], row)

ReportInv == ReportedIsDerived /\ \A h \in Handler : Progress(h)

\* Statements and lineage are only added, and so what is written stays.
LEMMA WrittenStays ==
  ASSUME TypeInv, [Next]_vars
  PROVE  /\ made' \in [Content -> Nat]
         /\ \A c \in Content : made[c] <= made'[c]
         /\ lineage \subseteq lineage'
         /\ \A q \in Request, es \in SUBSET Id : IsFiniteSet(es) =>
              \A row \in Rows(q, es) : Written(q, row) => WrittenNext(q, row)
<1>. USE DEF TypeInv, TypeOK, Finite
<1>1. /\ made' \in [Content -> Nat]
      /\ \A c \in Content : made[c] <= made'[c]
      /\ lineage \subseteq lineage'
  <2>1. CASE Edit
    <3>1. \/ \E c \in Content : AssertStatement(c)
          \/ UNCHANGED made
      BY <2>1, OthersAssertContent DEF Edit
    <3>. QED BY <2>1, <3>1, AssertionsGrow DEF Edit
  <2>2. ASSUME NEW h \in Handler, Drop(h) \/ Step(h) \/ \E q \in Request : Receive(h, q)
        PROVE  /\ made' \in [Content -> Nat]
               /\ \A c \in Content : made[c] <= made'[c]
               /\ lineage \subseteq lineage'
    <3>1. ASSUME NEW row \in todo[h], Emit(h, row) \/ EmitFails(h, row)
          PROVE  /\ made' \in [Content -> Nat]
                 /\ \A c \in Content : made[c] <= made'[c]
                 /\ lineage \subseteq lineage'
      <4>1. Emitted(req[h], row) \in Content
        BY <3>1, RequestsAreRequests DEF Emit, EmitFails, Emitted, Content
      <4>2. AssertStatement(Emitted(req[h], row)) \/ UNCHANGED made
        BY <3>1 DEF Emit, EmitFails
      <4>. QED BY <3>1, <4>1, <4>2, AssertionsGrow DEF Emit, EmitFails
    <3>2. Lineage(h) => UNCHANGED made /\ lineage \subseteq lineage'
      BY DEF Lineage
    <3>3. Drop(h) \/ Lookup(h) \/ Ensure(h) \/ Read(h) \/ ReadFails(h) \/ LineageFails(h)
            \/ EndEmit(h) \/ Report(h) \/ (\E q \in Request : Receive(h, q))
          => UNCHANGED <<made, lineage>>
      BY DEF Drop, Lookup, Ensure, Read, ReadFails, LineageFails, EndEmit, Report, Receive, ledger
    <3>. QED BY <2>2, <3>1, <3>2, <3>3 DEF Step
  <2>3. CASE UNCHANGED vars
    BY <2>3 DEF vars, ledger
  <2>. QED BY <2>1, <2>2, <2>3 DEF Next
<1>2. ASSUME NEW q \in Request, NEW es \in SUBSET Id, IsFiniteSet(es),
             NEW row \in Rows(q, es), Written(q, row)
      PROVE  WrittenNext(q, row)
  <2>1. Emitted(q, row) \in Content
    BY <1>2, RowsAreTyped
  <2>2. made[Emitted(q, row)] \in Nat /\ made'[Emitted(q, row)] \in Nat
        /\ made[Emitted(q, row)] <= made'[Emitted(q, row)]
    BY <1>1, <2>1
  <2>. QED BY <1>1, <1>2, <2>2 DEF Written, WrittenNext, WrittenIn
<1>. QED BY <1>1, <1>2

\* A step of a handler leaves the locals of the others alone.
LEMMA OthersLocalsStay ==
  ASSUME TypeInv, NEW h \in Handler, NEW k \in Handler \ {h},
         Drop(k) \/ Step(k) \/ \E q \in Request : Receive(k, q)
  PROVE  /\ pc'[h] = pc[h] /\ req'[h] = req[h] /\ seen'[h] = seen[h]
         /\ todo'[h] = todo[h] /\ cur'[h] = cur[h] /\ clean'[h] = clean[h]
<1>. USE DEF Goto, Spoil, End, work, TypeInv, TypeOK
<1>1. CASE Drop(k) \/ \E q \in Request : Receive(k, q)
  BY <1>1 DEF Drop, Receive
<1>2. CASE Lookup(k) \/ Ensure(k) \/ Report(k)
  BY <1>2 DEF Lookup, Ensure, Report
<1>3. CASE Read(k) \/ ReadFails(k)
  BY <1>3 DEF Read, ReadFails
<1>4. CASE \E row \in todo[k] : Emit(k, row) \/ EmitFails(k, row)
  BY <1>4 DEF Emit, EmitFails
<1>5. CASE Lineage(k) \/ LineageFails(k) \/ EndEmit(k)
  BY <1>5 DEF Lineage, LineageFails, EndEmit
<1>. QED BY <1>1, <1>2, <1>3, <1>4, <1>5 DEF Step

\* As long as a handler's locals stay, what it has to do stays done.
LEMMA ProgressStays ==
  ASSUME TypeInv, [Next]_vars, NEW h \in Handler, Progress(h),
         pc'[h] = pc[h], req'[h] = req[h], seen'[h] = seen[h], todo'[h] = todo[h],
         cur'[h] = cur[h], clean'[h] = clean[h]
  PROVE  Progress(h)'
<1>1. SUFFICES ASSUME pc[h] \in {"emit", "report"}, clean[h], NEW row \in Rows(req[h], seen[h])
               PROVE  \/ pc[h] = "emit" /\ (row \in todo[h] \/ Pending(h, row)')
                      \/ WrittenNext(req[h], row)
  BY DEF Progress, Written, WrittenNext
<1>2. req[h] \in Request /\ seen[h] \in SUBSET Id /\ IsFiniteSet(seen[h])
  BY <1>1 DEF TypeInv, TypeOK, Finite
<1>3. CASE Written(req[h], row)
  BY <1>1, <1>2, <1>3, WrittenStays
<1>4. CASE pc[h] = "emit" /\ Pending(h, row)
  <2>1. Emitted(req[h], row) \in Content
    BY <1>1, <1>2, RowsAreTyped
  <2>2. /\ made[Emitted(req[h], row)] \in Nat /\ made'[Emitted(req[h], row)] \in Nat
        /\ made[Emitted(req[h], row)] <= made'[Emitted(req[h], row)]
    BY <2>1, WrittenStays DEF TypeInv, TypeOK
  <2>. QED BY <1>4, <2>2 DEF Pending
<1>. QED BY <1>1, <1>3, <1>4 DEF Progress

\* A handler's own steps keep its progress.
LEMMA ProgressOfTheStep ==
  ASSUME TypeInv, [Next]_vars, NEW h \in Handler, Progress(h),
         Drop(h) \/ Step(h) \/ \E q \in Request : Receive(h, q)
  PROVE  Progress(h)'
<1>. USE DEF TypeInv, TypeOK, Finite
<1>1. SUFFICES ASSUME pc'[h] \in {"emit", "report"}, clean'[h],
                      NEW row \in Rows(req'[h], seen'[h])
               PROVE  \/ pc'[h] = "emit" /\ (row \in todo'[h] \/ Pending(h, row)')
                      \/ WrittenNext(req'[h], row)
  BY DEF Progress, Written, WrittenNext
<1>2. CASE Read(h)
  BY <1>1, <1>2 DEF Read, Goto
<1>3. ASSUME NEW r \in todo[h], Emit(h, r)
      PROVE  \/ pc'[h] = "emit" /\ (row \in todo'[h] \/ Pending(h, row)')
             \/ WrittenNext(req'[h], row)
  <2>1. /\ pc'[h] = "emit" /\ pc[h] = "emit" /\ clean[h] /\ cur[h] = None
        /\ req'[h] = req[h] /\ seen'[h] = seen[h] /\ todo'[h] = todo[h] \ {r}
    BY <1>1, <1>3 DEF Emit
  <2>2. req[h] \in Request /\ seen[h] \in SUBSET Id /\ IsFiniteSet(seen[h])
    BY <2>1
  <2>3. row \in todo[h] \/ Written(req[h], row)
    BY <1>1, <2>1 DEF Progress, Pending
  <2>4. CASE Written(req[h], row)
    <3>1. WrittenNext(req[h], row)
      BY <1>1, <2>1, <2>2, <2>4, WrittenStays
    <3>. QED BY <3>1, <2>1 DEF Written, WrittenNext, WrittenIn
  <2>5. CASE row = r
    <3>. DEFINE c == Emitted(req[h], r)
    <3>1. c \in Content
      BY <1>1, <2>1, <2>2, <2>5, RowsAreTyped
    <3>2. made' \in [Content -> Nat] /\ made'[c] > 0
      <4>1. AssertStatement(c)
        BY <1>3 DEF Emit
      <4>. QED BY <3>1, <4>1, AssertionsGrow
    <3>3. cur'[h] = [id |-> [of |-> c, no |-> made'[c]], why |-> r.why]
      BY <1>3 DEF Emit
    <3>4. cur'[h] # None
      <4>1. r \in [from : Node, to : Node, why : SUBSET Id]
        BY <1>3
      <4>2. [of |-> c, no |-> made'[c]] \in Id
        BY <3>1, <3>2 DEF Id
      <4>3. cur'[h] \in [id : Id, why : SUBSET Id]
        BY <3>3, <4>1, <4>2
      <4>. QED BY <4>3, NoneIsNothing
    <3>5. made'[c] \in Nat
      BY <3>1, <3>2
    <3>6. c = Emitted(req'[h], row)
      BY <2>1, <2>5
    <3>. HIDE DEF c
    <3>. QED BY <2>1, <2>5, <3>2, <3>3, <3>4, <3>5, <3>6 DEF Pending, Emitted
  <2>. QED BY <2>1, <2>3, <2>4, <2>5
<1>4. CASE Lineage(h)
  <2>1. /\ pc'[h] = "emit" /\ pc[h] = "emit" /\ clean[h]
        /\ req'[h] = req[h] /\ seen'[h] = seen[h] /\ todo'[h] = todo[h]
    BY <1>1, <1>4 DEF Lineage
  <2>2. req[h] \in Request /\ seen[h] \in SUBSET Id /\ IsFiniteSet(seen[h])
    BY <2>1
  <2>3. row \in todo[h] \/ Pending(h, row) \/ Written(req[h], row)
    BY <1>1, <2>1 DEF Progress
  <2>4. CASE Written(req[h], row)
    <3>1. WrittenNext(req[h], row)
      BY <1>1, <2>1, <2>2, <2>4, WrittenStays
    <3>. QED BY <3>1, <2>1 DEF Written, WrittenNext, WrittenIn
  <2>5. CASE Pending(h, row)
    <3>1. lineage' = lineage \cup ({cur[h].id} \X row.why) /\ made' = made
      BY <1>4, <2>5 DEF Lineage, Pending
    <3>2. cur[h].id \in Id
      BY <2>5 DEF Pending
    <3>3. cur[h].id = [of |-> Emitted(req[h], row), no |-> cur[h].id.no]
      BY <2>5, <3>2 DEF Pending, Id
    <3>4. cur[h].id.no \in 1..made'[Emitted(req[h], row)]
      BY <2>5, <3>1 DEF Pending
    <3>5. {[of |-> Emitted(req[h], row), no |-> cur[h].id.no]} \X row.why \subseteq lineage'
      BY <3>1, <3>3
    <3>. QED BY <2>1, <3>4, <3>5 DEF Written, WrittenNext, WrittenIn
  <2>. QED BY <2>1, <2>3, <2>4, <2>5
<1>5. CASE EndEmit(h)
  <2>1. /\ pc[h] = "emit" /\ clean[h] /\ cur[h] = None /\ todo[h] = {}
        /\ req'[h] = req[h] /\ seen'[h] = seen[h] /\ UNCHANGED <<made, lineage>>
    BY <1>1, <1>5 DEF EndEmit, work, ledger
  <2>2. Written(req[h], row)
    BY <1>1, <2>1 DEF Progress, Pending
  <2>. QED BY <2>1, <2>2 DEF Written, WrittenNext, WrittenIn
<1>6. ~ ReadFails(h) /\ ~ LineageFails(h) /\ \A r \in todo[h] : ~ EmitFails(h, r)
  BY <1>1 DEF ReadFails, LineageFails, EmitFails, Spoil
<1>7. ~ End(h)
  BY <1>1 DEF End, Goto
<1>8. ~ Drop(h) /\ ~ Report(h)
  BY <1>7 DEF Drop, Report
<1>9. ~ Lookup(h) /\ ~ Ensure(h) /\ \A q \in Request : ~ Receive(h, q)
  BY <1>1, <1>7 DEF Lookup, Ensure, Receive, Goto
<1>. QED BY <1>2, <1>3, <1>4, <1>5, <1>6, <1>8, <1>9 DEF Step

\* A report of a run none of whose calls failed means that everything its rule
\* derives from what it read was written, with lineage, for any handlers,
\* requests and edits (rules.rs: derive writes the report after the rule ran).
THEOREM ReportsAreDerived == Spec => []ReportedIsDerived
<1>1. Init => ReportInv
  BY DEF Init, ReportInv, ReportedIsDerived, Progress
<1>2. TypeInv /\ ReportInv /\ [Next]_vars => ReportInv'
  <2>. SUFFICES ASSUME TypeInv, ReportInv, [Next]_vars PROVE ReportInv'
    OBVIOUS
  <2>1. ASSUME NEW h \in Handler PROVE Progress(h)'
    <3>0. Progress(h)
      BY DEF ReportInv
    <3>1. CASE Drop(h) \/ Step(h) \/ \E q \in Request : Receive(h, q)
      BY <3>0, <3>1, ProgressOfTheStep
    <3>2. CASE ~ (Drop(h) \/ Step(h) \/ \E q \in Request : Receive(h, q))
      <4>1. /\ pc'[h] = pc[h] /\ req'[h] = req[h] /\ seen'[h] = seen[h]
            /\ todo'[h] = todo[h] /\ cur'[h] = cur[h] /\ clean'[h] = clean[h]
        <5>1. ASSUME NEW k \in Handler \ {h}, Drop(k) \/ Step(k) \/ \E q \in Request : Receive(k, q)
              PROVE  /\ pc'[h] = pc[h] /\ req'[h] = req[h] /\ seen'[h] = seen[h]
                     /\ todo'[h] = todo[h] /\ cur'[h] = cur[h] /\ clean'[h] = clean[h]
          BY <5>1, OthersLocalsStay
        <5>2. CASE Edit \/ UNCHANGED vars
          BY <5>2 DEF Edit, vars, work
        <5>. QED BY <3>2, <5>1, <5>2 DEF Next
      <4>. QED BY <3>0, <4>1, ProgressStays
    <3>. QED BY <3>1, <3>2
  <2>2. ASSUME NEW rep \in reports', rep.clean, NEW row \in Rows(rep.req, rep.seen)
        PROVE  WrittenNext(rep.req, row)
    <3>1. CASE rep \in reports
      <4>1. Written(rep.req, row)
        BY <2>2, <3>1 DEF ReportInv, ReportedIsDerived, Written, WrittenNext, WrittenIn
      <4>. QED BY <2>2, <3>1, <4>1, WrittenStays DEF TypeInv, TypeOK, Finite
    <3>2. CASE rep \notin reports
      <4>1. PICK h \in Handler : Report(h) /\ rep = [req |-> req[h], seen |-> seen[h], clean |-> clean[h]]
        <5>1. PICK h \in Handler : Report(h) /\ reports' # reports
          BY <2>2, <3>2 DEF Next, Step, vars, Edit, Drop, Receive, Lookup, Ensure, Read, ReadFails,
             Emit, EmitFails, Lineage, LineageFails, EndEmit
        <5>. QED BY <2>2, <3>2, <5>1 DEF Report
      <4>2. pc[h] = "report" /\ clean[h] /\ row \in Rows(req[h], seen[h])
        BY <2>2, <4>1 DEF Report
      <4>3. Written(req[h], row)
        BY <4>2 DEF ReportInv, Progress
      <4>4. req[h] \in Request /\ seen[h] \in SUBSET Id /\ IsFiniteSet(seen[h])
        BY <4>2 DEF TypeInv, TypeOK, Finite
      <4>5. WrittenNext(req[h], row)
        BY <4>2, <4>3, <4>4, WrittenStays
      <4>6. rep.req = req[h]
        BY <4>1
      <4>. QED BY <4>1, <4>3, <4>4, <4>2, <4>6, WrittenStays
    <3>. QED BY <3>1, <3>2
  <2>3. ReportedIsDerived'
    BY <2>2 DEF ReportedIsDerived, Written, WrittenNext, WrittenIn
  <2>. QED BY <2>1, <2>3 DEF ReportInv
<1>. QED BY <1>1, <1>2, TypeInvariance, PTL DEF Spec, ReportInv

-----------------------------------------------------------------------------
(* The closure *)

\* Chains of edges that may have an edge twice.
Walks(es) ==
  {w \in Seq(es) : Len(w) > 0 /\ \A k \in 1..Len(w) - 1 : w[k].of.to = w[k + 1].of.from}

StartOf(w) == w[1].of.from
EndOf(w) == w[Len(w)].of.to
Pairs(es) == {<<e.of.from, e.of.to>> : e \in es}

\* A set of naturals has a least one.
LEMMA LeastNatural ==
  ASSUME NEW T \in SUBSET Nat, T # {}
  PROVE  \E n \in T : \A m \in T : n <= m
<1>1. PICK n \in T : \A m \in T : ~ (<<m, n>> \in OpToRel(<, Nat))
  BY NatLessThanWellFounded, WFMin
<1>2. ASSUME NEW m \in T
      PROVE  n <= m
  <2>1. m \in Nat /\ n \in Nat
    OBVIOUS
  <2>2. ~ (m < n)
    BY <1>1, <2>1 DEF OpToRel
  <2>. QED BY <2>1, <2>2
<1>. QED BY <1>2

\* What the definition of Reach says of statements as edges.
LEMMA ReachIsClosed ==
  ASSUME NEW es \in SUBSET Id
  PROVE  /\ \A e \in es : Reach(es, e.of.from, e.of.to)
         /\ \A a, b, c \in Node : Reach(es, a, b) /\ Reach(es, b, c) => Reach(es, a, c)
         /\ \A U \in SUBSET (Node \X Node) :
              Pairs(es) \subseteq U /\ IsTransitivelyClosedOn(U, Node)
              => \A a, b : Reach(es, a, b) => <<a, b>> \in U
<1>. DEFINE P == Pairs(es)
            C == TransitiveClosureOn(P, Node)
<1>1. P \subseteq Node \X Node
  BY DEF Pairs, Id, Content
<1>2. P \cap (Node \X Node) = P
  BY <1>1
<1>3. P \subseteq C /\ IsTransitivelyClosedOn(C, Node)
  BY <1>2, TransitiveClosureThm
<1>4. \A a, b : Reach(es, a, b) <=> <<a, b>> \in C
  BY DEF Reach, Pairs
<1>5. \A e \in es : <<e.of.from, e.of.to>> \in P
  BY DEF Pairs
<1>6. ASSUME NEW U \in SUBSET (Node \X Node), P \subseteq U, IsTransitivelyClosedOn(U, Node)
      PROVE  C \subseteq U
  BY <1>2, <1>6, TransitiveClosureMinimal
<1>. HIDE DEF P, C
<1>7. \A a, b, c \in Node : <<a, b>> \in C /\ <<b, c>> \in C => <<a, c>> \in C
  BY <1>3 DEF IsTransitivelyClosedOn
<1>8. \A U \in SUBSET (Node \X Node) :
        P \subseteq U /\ IsTransitivelyClosedOn(U, Node) => C \subseteq U
  BY <1>6
<1>. QED BY <1>3, <1>4, <1>5, <1>7, <1>8 DEF P

\* The ends of a walk and what lies on it.
LEMMA WalksAreTyped ==
  ASSUME NEW es \in SUBSET Id, NEW w \in Walks(es)
  PROVE  /\ Len(w) \in Nat \ {0}
         /\ \A k \in 1..Len(w) : w[k] \in es /\ w[k].of.from \in Node /\ w[k].of.to \in Node
         /\ StartOf(w) \in Node /\ EndOf(w) \in Node
<1>1. w \in Seq(es) /\ Len(w) \in Nat \ {0}
  BY DEF Walks
<1>2. \A k \in 1..Len(w) : w[k] \in es
  BY <1>1
<1>3. \A e \in es : e.of.from \in Node /\ e.of.to \in Node
  BY DEF Id, Content
<1>. QED BY <1>1, <1>2, <1>3 DEF StartOf, EndOf

\* A walk leads to what can be reached.
LEMMA WalksReach ==
  ASSUME NEW es \in SUBSET Id, NEW w \in Walks(es)
  PROVE  Reach(es, StartOf(w), EndOf(w))
<1>. DEFINE D == {k \in 1..Len(w) : ~ Reach(es, StartOf(w), w[k].of.to)}
<1>1. D = {}
  <2>. SUFFICES ASSUME D # {} PROVE FALSE
    OBVIOUS
  <2>1. D \in SUBSET Nat
    OBVIOUS
  <2>2. PICK k \in D : \A m \in D : k <= m
    BY <2>1, LeastNatural
  <2>3. k \in 1..Len(w) /\ ~ Reach(es, StartOf(w), w[k].of.to)
    OBVIOUS
  <2>4. Reach(es, w[k].of.from, w[k].of.to)
    BY <2>3, WalksAreTyped, ReachIsClosed
  <2>5. k # 1
    BY <2>3, <2>4 DEF StartOf
  <2>6. k - 1 \in 1..Len(w) /\ k - 1 \notin D /\ k - 1 \in 1..Len(w) - 1
    BY <2>2, <2>3, <2>5, WalksAreTyped
  <2>7. Reach(es, StartOf(w), w[k - 1].of.to)
    BY <2>6
  <2>8. w[k - 1].of.to = w[(k - 1) + 1].of.from
    BY <2>6 DEF Walks
  <2>9. (k - 1) + 1 = k
    BY <2>3
  <2>10. StartOf(w) \in Node /\ w[k].of.from \in Node /\ w[k].of.to \in Node
    BY <2>3, WalksAreTyped
  <2>. QED BY <2>3, <2>4, <2>7, <2>8, <2>9, <2>10, ReachIsClosed
<1>2. Len(w) \in 1..Len(w)
  BY WalksAreTyped
<1>. QED BY <1>1, <1>2 DEF EndOf

\* Two walks, one from where the other ends, are one.
LEMMA WalksJoin ==
  ASSUME NEW es \in SUBSET Id, NEW w \in Walks(es), NEW v \in Walks(es), EndOf(w) = StartOf(v)
  PROVE  /\ w \o v \in Walks(es)
         /\ StartOf(w \o v) = StartOf(w) /\ EndOf(w \o v) = EndOf(v)
<1>1. w \in Seq(es) /\ v \in Seq(es) /\ Len(w) \in Nat \ {0} /\ Len(v) \in Nat \ {0}
  BY WalksAreTyped DEF Walks
<1>2. w \o v \in Seq(es) /\ Len(w \o v) = Len(w) + Len(v)
  BY <1>1
<1>3. \A k \in 1..Len(w) + Len(v) : (w \o v)[k] = IF k <= Len(w) THEN w[k] ELSE v[k - Len(w)]
  BY <1>1
<1>4. ASSUME NEW k \in 1..Len(w \o v) - 1
      PROVE  (w \o v)[k].of.to = (w \o v)[k + 1].of.from
  <2>1. CASE k < Len(w)
    <3>1. (w \o v)[k] = w[k] /\ (w \o v)[k + 1] = w[k + 1]
      BY <1>1, <1>2, <1>3, <2>1
    <3>2. k \in 1..Len(w) - 1
      BY <1>1, <2>1
    <3>. QED BY <3>1, <3>2 DEF Walks
  <2>2. CASE k = Len(w)
    <3>1. (w \o v)[k] = w[Len(w)] /\ (w \o v)[k + 1] = v[1]
      BY <1>1, <1>2, <1>3, <2>2
    <3>. QED BY <3>1 DEF EndOf, StartOf
  <2>3. CASE k > Len(w)
    <3>1. (w \o v)[k] = v[k - Len(w)] /\ (w \o v)[k + 1] = v[(k - Len(w)) + 1]
      BY <1>1, <1>2, <1>3, <2>3
    <3>2. k - Len(w) \in 1..Len(v) - 1
      BY <1>1, <1>2, <2>3
    <3>. QED BY <3>1, <3>2 DEF Walks
  <2>. QED BY <1>1, <2>1, <2>2, <2>3
<1>5. (w \o v)[1] = w[1] /\ (w \o v)[Len(w \o v)] = v[Len(v)]
  BY <1>1, <1>2, <1>3
<1>6. Len(w \o v) > 0
  BY <1>1, <1>2
<1>7. w \o v \in Walks(es)
  BY <1>2, <1>4, <1>6 DEF Walks
<1>. QED BY <1>5, <1>7 DEF StartOf, EndOf

\* What can be reached lies at the end of a walk.
LEMMA ReachedByWalk ==
  ASSUME NEW es \in SUBSET Id, NEW a \in Node, NEW b \in Node, Reach(es, a, b)
  PROVE  \E w \in Walks(es) : StartOf(w) = a /\ EndOf(w) = b
<1>. DEFINE U == {p \in Node \X Node : \E w \in Walks(es) : StartOf(w) = p[1] /\ EndOf(w) = p[2]}
<1>1. ASSUME NEW e \in es
      PROVE  <<e.of.from, e.of.to>> \in U
  <2>1. e.of.from \in Node /\ e.of.to \in Node
    BY DEF Id, Content
  <2>2. <<e>> \in Walks(es) /\ StartOf(<<e>>) = e.of.from /\ EndOf(<<e>>) = e.of.to
    BY DEF Walks, StartOf, EndOf
  <2>. QED BY <2>1, <2>2
<1>2. ASSUME NEW i \in Node, NEW j \in Node, NEW k \in Node, <<i, j>> \in U, <<j, k>> \in U
      PROVE  <<i, k>> \in U
  <2>1. PICK w \in Walks(es) : StartOf(w) = i /\ EndOf(w) = j
    BY <1>2
  <2>2. PICK v \in Walks(es) : StartOf(v) = j /\ EndOf(v) = k
    BY <1>2
  <2>3. w \o v \in Walks(es) /\ StartOf(w \o v) = i /\ EndOf(w \o v) = k
    BY <2>1, <2>2, WalksJoin
  <2>. QED BY <2>3
<1>3. U \in SUBSET (Node \X Node) /\ \A p \in U : \E w \in Walks(es) : StartOf(w) = p[1] /\ EndOf(w) = p[2]
  OBVIOUS
<1>. HIDE DEF U
<1>4. Pairs(es) \subseteq U /\ IsTransitivelyClosedOn(U, Node)
  BY <1>1, <1>2 DEF Pairs, IsTransitivelyClosedOn
<1>5. <<a, b>> \in U
  BY <1>3, <1>4, ReachIsClosed
<1>. QED BY <1>3, <1>5

\* A walk without the circle from one visit of an edge to the next.
LEMMA WalkCut ==
  ASSUME NEW es \in SUBSET Id, NEW w \in Walks(es),
         NEW j \in 1..Len(w), NEW k \in 1..Len(w), j < k, w[j] = w[k]
  PROVE  \E v \in Walks(es) : Len(v) < Len(w) /\ StartOf(v) = StartOf(w) /\ EndOf(v) = EndOf(w)
<1>. DEFINE d == k - j
            n == Len(w) - d
            v == [i \in 1..n |-> IF i <= j THEN w[i] ELSE w[i + d]]
<1>1. /\ Len(w) \in Nat \ {0} /\ d \in Nat \ {0} /\ n \in Nat \ {0} /\ j <= n /\ n < Len(w)
      /\ \A i \in 1..Len(w) : w[i] \in es
  BY WalksAreTyped
<1>0. \A i \in 1..Len(w) - 1 : w[i].of.to = w[i + 1].of.from
  BY DEF Walks
<1>2. \A i \in 1..n : v[i] \in es
  BY <1>1
<1>3. v \in Seq(es) /\ Len(v) = n
  BY <1>1, <1>2, IsASeq, LenProperties
<1>4. ASSUME NEW i \in 1..n - 1
      PROVE  v[i].of.to = v[i + 1].of.from
  <2>1. CASE i < j
    <3>1. v[i] = w[i] /\ v[i + 1] = w[i + 1] /\ i \in 1..Len(w) - 1
      BY <1>1, <2>1
    <3>. HIDE DEF v
    <3>. QED BY <1>0, <3>1
  <2>2. CASE i = j
    <3>1. v[i] = w[k] /\ v[i + 1] = w[k + 1] /\ k \in 1..Len(w) - 1
      <4>1. v[i] = w[j] /\ v[i + 1] = w[(j + 1) + d] /\ (j + 1) + d = k + 1
        BY <1>1, <2>2
      <4>. QED BY <1>1, <2>2, <4>1
    <3>. HIDE DEF v
    <3>. QED BY <1>0, <3>1
  <2>3. CASE i > j
    <3>1. v[i] = w[i + d] /\ v[i + 1] = w[(i + d) + 1] /\ i + d \in 1..Len(w) - 1
      <4>1. v[i] = w[i + d] /\ v[i + 1] = w[(i + 1) + d] /\ (i + 1) + d = (i + d) + 1
        BY <1>1, <2>3
      <4>. QED BY <1>1, <4>1
    <3>. HIDE DEF v
    <3>. QED BY <1>0, <3>1
  <2>. QED BY <2>1, <2>2, <2>3
<1>5. v[1] = w[1]
  BY <1>1
<1>6. v[n] = w[Len(w)]
  <2>1. CASE n = j
    BY <1>1, <2>1
  <2>2. CASE n # j
    BY <1>1, <2>2
  <2>. QED BY <2>1, <2>2
<1>. HIDE DEF v
<1>7. v \in Walks(es)
  BY <1>1, <1>3, <1>4 DEF Walks
<1>. QED BY <1>1, <1>3, <1>5, <1>6, <1>7 DEF StartOf, EndOf

\* A chain is a walk, and its edges alone are a walk's.
LEMMA ChainsAreWalks ==
  ASSUME NEW es \in SUBSET Id, IsFiniteSet(es), NEW w \in Chains(es)
  PROVE  w \in Walks(es) /\ w \in Walks({w[k] : k \in 1..Len(w)})
<1>1. PICK n \in 1..Cardinality(es) : w \in [1..n -> es]
  BY DEF Chains
<1>2. n \in Nat \ {0}
  BY <1>1, FS_CardinalityType
<1>3. w \in Seq(es) /\ Len(w) = n
  BY <1>1, <1>2, IsASeq, LenProperties
<1>4. w \in [1..n -> {w[k] : k \in 1..Len(w)}]
  BY <1>1, <1>3
<1>5. w \in Seq({w[k] : k \in 1..Len(w)})
  BY <1>2, <1>4, IsASeq
<1>6. Len(w) > 0 /\ \A k \in 1..Len(w) - 1 : w[k].of.to = w[k + 1].of.from
  BY <1>2, <1>3 DEF Chains
<1>. QED BY <1>3, <1>5, <1>6 DEF Walks

\* Between the ends of a walk there is a chain: the shortest walk has no edge
\* twice.
LEMMA ShortestWalkIsAChain ==
  ASSUME NEW es \in SUBSET Id, IsFiniteSet(es), NEW w \in Walks(es)
  PROVE  \E v \in Chains(es) : v[1].of.from = StartOf(w) /\ v[Len(v)].of.to = EndOf(w)
<1>. DEFINE Like(v) == v \in Walks(es) /\ StartOf(v) = StartOf(w) /\ EndOf(v) = EndOf(w)
            L == {n \in Nat : \E v \in Walks(es) : Like(v) /\ Len(v) = n}
<1>1. Len(w) \in L
  BY WalksAreTyped
<1>2. PICK n \in L : \A m \in L : n <= m
  BY <1>1, LeastNatural
<1>3. PICK v \in Walks(es) : Like(v) /\ Len(v) = n
  OBVIOUS
<1>4. /\ n \in Nat \ {0} /\ v \in Seq(es) /\ \A k \in 1..n : v[k] \in es
      /\ \A u \in Walks(es) : Len(u) \in Nat
  BY <1>3, WalksAreTyped DEF Walks
<1>5. ASSUME NEW j \in 1..n, NEW k \in 1..n, v[j] = v[k]
      PROVE  j = k
  <2>1. ASSUME NEW a \in 1..n, NEW b \in 1..n, a < b, v[a] = v[b]
        PROVE  FALSE
    <3>1. PICK u \in Walks(es) : Len(u) < Len(v) /\ StartOf(u) = StartOf(v) /\ EndOf(u) = EndOf(v)
      BY <1>3, <2>1, WalkCut
    <3>2. Len(u) \in L
      BY <1>3, <1>4, <3>1
    <3>. QED BY <1>2, <1>3, <1>4, <3>1, <3>2
  <2>2. j < k \/ k < j \/ j = k
    BY <1>4
  <2>. QED BY <1>5, <2>1, <2>2
<1>6. v \in [1..n -> es]
  BY <1>3, <1>4
<1>7. v \in Injection(1..n, es)
  BY <1>5, <1>6 DEF Injection, IsInjective
<1>8. Cardinality(1..n) <= Cardinality(es) /\ Cardinality(es) \in Nat
  BY <1>7, FS_Injection, FS_CardinalityType
<1>9. Cardinality(1..n) = n
  BY <1>4, FS_Interval
<1>10. n \in 1..Cardinality(es)
  BY <1>4, <1>8, <1>9
<1>11. v \in Chains(es)
  BY <1>3, <1>5, <1>6, <1>10 DEF Chains, Walks
<1>. QED BY <1>3, <1>11 DEF StartOf, EndOf

\* The rows of a transitive rule are the pairs that can be reached.
LEMMA RowsAreReachability ==
  ASSUME NEW q \in Request, q.kind = "transitive", NEW es \in SUBSET Id, IsFiniteSet(es)
  PROVE  {<<r.from, r.to>> : r \in Rows(q, es)} = {e \in Node \X Node : Reach(es, e[1], e[2])}
<1>1. ASSUME NEW r \in Rows(q, es)
      PROVE  <<r.from, r.to>> \in Node \X Node /\ Reach(es, r.from, r.to)
  <2>1. PICK w \in Chains(es) :
          r = [from |-> w[1].of.from, to |-> w[Len(w)].of.to, why |-> {w[k] : k \in 1..Len(w)}]
    BY DEF Rows
  <2>2. w \in Walks(es)
    BY ChainsAreWalks
  <2>3. r.from = StartOf(w) /\ r.to = EndOf(w)
    BY <2>1 DEF StartOf, EndOf
  <2>. QED BY <2>2, <2>3, WalksReach, WalksAreTyped
<1>2. ASSUME NEW a \in Node, NEW b \in Node, Reach(es, a, b)
      PROVE  \E r \in Rows(q, es) : <<r.from, r.to>> = <<a, b>>
  <2>1. PICK w \in Walks(es) : StartOf(w) = a /\ EndOf(w) = b
    BY <1>2, ReachedByWalk
  <2>2. PICK v \in Chains(es) : v[1].of.from = a /\ v[Len(v)].of.to = b
    BY <2>1, ShortestWalkIsAChain
  <2>3. [from |-> v[1].of.from, to |-> v[Len(v)].of.to, why |-> {v[k] : k \in 1..Len(v)}] \in Rows(q, es)
    BY DEF Rows
  <2>. QED BY <2>2, <2>3
<1>. QED BY <1>1, <1>2

\* The query of a transitive rule returns exactly the pairs that can be reached
\* over the open edges of its scope, cycles and parallel edges included, for
\* any set of statements (rules.rs: transitive_closure).
THEOREM ClosureIsExact == Spec => []ClosureIsReachability
<1>1. TypeInv => ClosureIsReachability
  BY EdgesAreTyped, RowsAreReachability DEF TypeInv, Finite, ClosureIsReachability
<1>. QED BY <1>1, TypeInvariance, PTL

-----------------------------------------------------------------------------
(* Lineage and reruns *)

\* What a handler still has to emit are rows of its rule over what it read, and
\* what it has asserted last is the statement of one of them.
Inputs(h) ==
  /\ pc[h] # "emit" => cur[h] = None
  /\ pc[h] = "emit" => todo[h] \subseteq Rows(req[h], seen[h])
  /\ cur[h] # None => \E row \in Rows(req[h], seen[h]) : Pending(h, row)

InputsInv == \A h \in Handler : Inputs(h)

\* As long as a handler's locals stay, its inputs do.
LEMMA InputsStay ==
  ASSUME TypeInv, [Next]_vars, NEW h \in Handler, Inputs(h),
         pc'[h] = pc[h], req'[h] = req[h], seen'[h] = seen[h], todo'[h] = todo[h],
         cur'[h] = cur[h]
  PROVE  Inputs(h)'
<1>1. ASSUME cur[h] # None
      PROVE  \E row \in Rows(req[h], seen[h]) : Pending(h, row)'
  <2>1. PICK row \in Rows(req[h], seen[h]) : Pending(h, row)
    BY <1>1 DEF Inputs
  <2>2. pc[h] = "emit"
    BY <1>1 DEF Inputs
  <2>3. req[h] \in Request /\ seen[h] \in SUBSET Id /\ IsFiniteSet(seen[h])
    BY <2>2 DEF TypeInv, TypeOK, Finite
  <2>4. Emitted(req[h], row) \in Content
    BY <2>3, RowsAreTyped
  <2>5. /\ made[Emitted(req[h], row)] \in Nat /\ made'[Emitted(req[h], row)] \in Nat
        /\ made[Emitted(req[h], row)] <= made'[Emitted(req[h], row)]
    BY <2>4, WrittenStays DEF TypeInv, TypeOK
  <2>. QED BY <2>1, <2>5 DEF Pending
<1>. QED BY <1>1 DEF Inputs

\* A handler's own steps keep its inputs.
LEMMA InputsOfTheStep ==
  ASSUME TypeInv, [Next]_vars, NEW h \in Handler, Inputs(h),
         Drop(h) \/ Step(h) \/ \E q \in Request : Receive(h, q)
  PROVE  Inputs(h)'
<1>. USE DEF TypeInv, TypeOK, Goto
<1>1. ASSUME End(h) PROVE Inputs(h)'
  BY <1>1 DEF End, Inputs
<1>2. ASSUME pc[h] # "emit", pc'[h] # "emit", cur'[h] = cur[h]
      PROVE  Inputs(h)'
  BY <1>2 DEF Inputs
<1>3. CASE Drop(h) \/ Report(h)
  BY <1>1, <1>3 DEF Drop, Report
<1>4. CASE Lookup(h) \/ Ensure(h)
  BY <1>1, <1>2, <1>4 DEF Lookup, Ensure, work
<1>5. CASE ReadFails(h) \/ \E q \in Request : Receive(h, q)
  BY <1>2, <1>5 DEF ReadFails, Receive
<1>6. CASE Read(h)
  BY <1>6 DEF Read, Inputs
<1>7. ASSUME NEW r \in todo[h], Emit(h, r)
      PROVE  Inputs(h)'
  <2>1. /\ pc[h] = "emit" /\ pc'[h] = "emit" /\ req'[h] = req[h] /\ seen'[h] = seen[h]
        /\ todo'[h] = todo[h] \ {r}
    BY <1>7 DEF Emit
  <2>2. r \in Rows(req[h], seen[h]) /\ req[h] \in Request /\ seen[h] \in SUBSET Id /\ IsFiniteSet(seen[h])
    BY <2>1 DEF Inputs, Finite
  <2>. DEFINE c == Emitted(req[h], r)
  <2>3. c \in Content
    BY <2>2, RowsAreTyped
  <2>4. made' \in [Content -> Nat] /\ made'[c] > 0
    BY <1>7, <2>3, AssertionsGrow DEF Emit, Finite
  <2>5. cur'[h] = [id |-> [of |-> c, no |-> made'[c]], why |-> r.why]
    BY <1>7 DEF Emit
  <2>6. cur'[h] # None
    <3>1. [of |-> c, no |-> made'[c]] \in Id /\ r.why \in SUBSET Id
      BY <1>7, <2>3, <2>4 DEF Id
    <3>2. cur'[h] \in [id : Id, why : SUBSET Id]
      BY <2>5, <3>1
    <3>. QED BY <3>2, NoneIsNothing
  <2>7. made'[c] \in Nat /\ c = Emitted(req'[h], r)
    BY <2>1, <2>3, <2>4
  <2>. HIDE DEF c
  <2>8. Pending(h, r)'
    BY <2>4, <2>5, <2>6, <2>7 DEF Pending, Emitted
  <2>. QED BY <2>1, <2>2, <2>8 DEF Inputs
<1>8. ASSUME NEW r \in todo[h], EmitFails(h, r)
      PROVE  Inputs(h)'
  <2>1. /\ pc[h] = "emit" /\ pc'[h] = "emit" /\ req'[h] = req[h] /\ seen'[h] = seen[h]
        /\ todo'[h] = todo[h] \ {r} /\ cur[h] = None /\ cur'[h] = None
    BY <1>8 DEF EmitFails
  <2>. QED BY <2>1 DEF Inputs
<1>9. CASE Lineage(h) \/ LineageFails(h)
  <2>1. /\ pc[h] = "emit" /\ pc'[h] = "emit" /\ req'[h] = req[h] /\ seen'[h] = seen[h]
        /\ todo'[h] = todo[h] /\ cur'[h] = None
    BY <1>9 DEF Lineage, LineageFails
  <2>. QED BY <2>1 DEF Inputs
<1>10. CASE EndEmit(h)
  BY <1>10 DEF EndEmit, work, Inputs
<1>. QED BY <1>3, <1>4, <1>5, <1>6, <1>7, <1>8, <1>9, <1>10 DEF Step

LEMMA InputsInvariance == Spec => []InputsInv
<1>1. Init => InputsInv
  BY DEF Init, InputsInv, Inputs
<1>2. TypeInv /\ InputsInv /\ [Next]_vars => InputsInv'
  <2>. SUFFICES ASSUME TypeInv, InputsInv, [Next]_vars, NEW h \in Handler PROVE Inputs(h)'
    BY DEF InputsInv
  <2>1. Inputs(h)
    BY DEF InputsInv
  <2>2. CASE Drop(h) \/ Step(h) \/ \E q \in Request : Receive(h, q)
    BY <2>1, <2>2, InputsOfTheStep
  <2>3. ASSUME NEW k \in Handler \ {h}, Drop(k) \/ Step(k) \/ \E q \in Request : Receive(k, q)
        PROVE  Inputs(h)'
    BY <2>1, <2>3, OthersLocalsStay, InputsStay
  <2>4. CASE Edit \/ UNCHANGED vars
    BY <2>1, <2>4, InputsStay DEF Edit, vars, work
  <2>. QED BY <2>2, <2>3, <2>4 DEF Next
<1>. QED BY <1>1, <1>2, TypeInvariance, PTL DEF Spec

\* A run that reads what an earlier clean run read, and nothing it emitted was
\* retracted, changes neither statements nor lineage, for any handlers, rules,
\* contexts, nodes and edits (rules.rs: derive runs the rule again when the
\* report of the first run was not found).
THEOREM RerunsAreNoOps == Spec => RerunIsNoOp
<1>. DEFINE Quiet == \A h \in Handler, rep \in reports :
               /\ pc[h] = "emit" /\ (todo'[h] # todo[h] \/ cur'[h] # cur[h])
               /\ rep.clean /\ rep.req = req[h] /\ rep.seen = seen[h]
               /\ \A row \in Rows(req[h], seen[h]) :
                    LET c == Emitted(req[h], row) IN made[c] = 1 /\ c \in open
               => UNCHANGED ledger
<1>1. TypeInv /\ InputsInv /\ ReportedIsDerived /\ [Next]_vars => [Quiet]_vars
  <2>. SUFFICES ASSUME TypeInv, InputsInv, ReportedIsDerived, [Next]_vars,
                       NEW h \in Handler, NEW rep \in reports,
                       pc[h] = "emit", todo'[h] # todo[h] \/ cur'[h] # cur[h],
                       rep.clean, rep.req = req[h], rep.seen = seen[h],
                       \A row \in Rows(req[h], seen[h]) :
                         made[Emitted(req[h], row)] = 1 /\ Emitted(req[h], row) \in open
                PROVE  UNCHANGED ledger
    OBVIOUS
  <2>1. Drop(h) \/ Step(h) \/ \E q \in Request : Receive(h, q)
    <3>1. ASSUME NEW k \in Handler \ {h}, Drop(k) \/ Step(k) \/ \E q \in Request : Receive(k, q)
          PROVE  FALSE
      BY <3>1, OthersLocalsStay
    <3>2. ~ Edit /\ ~ UNCHANGED vars
      BY DEF Edit, vars, work
    <3>. QED BY <3>1, <3>2 DEF Next
  <2>2. Inputs(h)
    BY DEF InputsInv
  <2>3. ASSUME NEW row \in todo[h], Emit(h, row) \/ EmitFails(h, row)
        PROVE  UNCHANGED ledger
    <3>1. row \in Rows(req[h], seen[h])
      BY <2>2 DEF Inputs
    <3>2. Emitted(req[h], row) \in open
      BY <3>1
    <3>3. AssertStatement(Emitted(req[h], row)) \/ UNCHANGED <<made, open>>
      BY <2>3 DEF Emit, EmitFails
    <3>4. UNCHANGED <<made, open>>
      BY <3>2, <3>3 DEF AssertStatement
    <3>. QED BY <2>3, <3>4 DEF Emit, EmitFails, ledger
  <2>4. CASE Lineage(h)
    <3>1. cur[h] # None
      BY <2>4 DEF Lineage
    <3>2. PICK row \in Rows(req[h], seen[h]) : Pending(h, row)
      BY <2>2, <3>1 DEF Inputs
    <3>3. made[Emitted(req[h], row)] = 1
      OBVIOUS
    <3>4. PICK n \in 1..made[Emitted(req[h], row)] :
            {[of |-> Emitted(req[h], row), no |-> n]} \X row.why \subseteq lineage
      BY DEF ReportedIsDerived
    <3>5. cur[h].id \in Id
      BY <3>1 DEF TypeInv, TypeOK
    <3>6. cur[h].id = [of |-> Emitted(req[h], row), no |-> cur[h].id.no]
      BY <3>2, <3>5 DEF Pending, Id
    <3>7. n = 1 /\ cur[h].id.no = 1
      BY <3>2, <3>3, <3>4 DEF Pending
    <3>8. {cur[h].id} \X cur[h].why \subseteq lineage
      BY <3>2, <3>4, <3>6, <3>7 DEF Pending
    <3>. QED BY <2>4, <3>8 DEF Lineage, ledger
  <2>5. CASE Drop(h) \/ LineageFails(h) \/ EndEmit(h)
    BY <2>5 DEF Drop, LineageFails, EndEmit, ledger
  <2>6. ~ Lookup(h) /\ ~ Ensure(h) /\ ~ Read(h) /\ ~ ReadFails(h) /\ ~ Report(h)
          /\ \A q \in Request : ~ Receive(h, q)
    BY DEF Lookup, Ensure, Read, ReadFails, Report, Receive
  <2>. QED BY <2>1, <2>3, <2>4, <2>5, <2>6 DEF Step
<1>. QED BY <1>1, TypeInvariance, InputsInvariance, ReportsAreDerived, PTL DEF Spec, RerunIsNoOp

\* The statements es are evidence that b follows from a: they connect the two,
\* or one of them is the inverse.
Evidence(es, a, b) ==
  Reach(es, a, b) \/ \E s \in es : s.of.from = b /\ s.of.to = a

\* What can be reached over edges can be reached over more of them.
LEMMA ReachGrows ==
  ASSUME NEW es \in SUBSET Id, NEW fs \in SUBSET Id, es \subseteq fs,
         NEW a \in Node, NEW b \in Node, Reach(es, a, b)
  PROVE  Reach(fs, a, b)
<1>1. PICK w \in Walks(es) : StartOf(w) = a /\ EndOf(w) = b
  BY ReachedByWalk
<1>2. w \in Seq(es) /\ Len(w) > 0 /\ \A k \in 1..Len(w) - 1 : w[k].of.to = w[k + 1].of.from
  BY DEF Walks
<1>3. w \in Seq(fs)
  BY <1>2
<1>4. w \in Walks(fs)
  BY <1>2, <1>3 DEF Walks
<1>. QED BY <1>1, <1>4, WalksReach

\* The sources of a row are evidence for it.
LEMMA RowsHaveEvidence ==
  ASSUME NEW q \in Request, NEW es \in SUBSET Id, IsFiniteSet(es), NEW row \in Rows(q, es)
  PROVE  Evidence(row.why, row.from, row.to)
<1>1. CASE q.kind = "transitive"
  <2>1. PICK w \in Chains(es) :
          row = [from |-> w[1].of.from, to |-> w[Len(w)].of.to, why |-> {w[k] : k \in 1..Len(w)}]
    BY <1>1 DEF Rows
  <2>2. row.why = {w[k] : k \in 1..Len(w)} /\ row.from = StartOf(w) /\ row.to = EndOf(w)
    BY <2>1 DEF StartOf, EndOf
  <2>3. row.why \in SUBSET Id
    BY RowsAreTyped
  <2>4. w \in Walks(row.why)
    BY <2>2, ChainsAreWalks
  <2>. QED BY <2>2, <2>3, <2>4, WalksReach DEF Evidence
<1>2. CASE q.kind # "transitive"
  <2>1. PICK e \in es : row = [from |-> e.of.to, to |-> e.of.from, why |-> {e}]
    BY <1>2 DEF Rows
  <2>. QED BY <2>1 DEF Evidence
<1>. QED BY <1>1, <1>2

\* Where a derived statement has lineage, its sources connect its ends or state
\* its inverse, for any handlers, rules, contexts, nodes and edits
\* (rules.rs: emit_with_lineage records the sources with the statement).
THEOREM LineagesAreEvidence == Spec => []LineageIsEvidence
<1>. DEFINE Based(l) == \A i \in {e[1] : e \in l} :
               Evidence({e[2] : e \in {x \in l : x[1] = i}}, i.of.from, i.of.to)
<1>1. Init => LineageIsEvidence
  BY DEF Init, LineageIsEvidence
<1>2. TypeInv /\ InputsInv /\ LineageIsEvidence /\ [Next]_vars => LineageIsEvidence'
  <2>. SUFFICES ASSUME TypeInv, InputsInv, Based(lineage), [Next]_vars PROVE Based(lineage')
    BY DEF LineageIsEvidence, Sources, Evidence
  <2>1. lineage' = lineage \/ \E h \in Handler : Lineage(h)
    BY DEF Next, Step, vars, ledger, Edit, Drop, Receive, Lookup, Ensure, Read, ReadFails,
       Emit, EmitFails, LineageFails, EndEmit, Report
  <2>2. ASSUME NEW h \in Handler, Lineage(h) PROVE Based(lineage')
    <3>1. cur[h] # None /\ pc[h] = "emit" /\ lineage' = lineage \cup ({cur[h].id} \X cur[h].why)
      BY <2>2 DEF Lineage
    <3>2. PICK row \in Rows(req[h], seen[h]) : Pending(h, row)
      BY <3>1 DEF InputsInv, Inputs
    <3>3. req[h] \in Request /\ seen[h] \in SUBSET Id /\ IsFiniteSet(seen[h])
      BY <3>1 DEF TypeInv, TypeOK, Finite
    <3>4. PICK d, why : d = cur[h].id /\ why = cur[h].why
      OBVIOUS
    <3>5. d \in Id /\ why \in SUBSET Id
      BY <3>1, <3>4 DEF TypeInv, TypeOK
    <3>6. Evidence(why, d.of.from, d.of.to)
      <4>1. why = row.why /\ d.of = Emitted(req[h], row)
        BY <3>2, <3>4 DEF Pending
      <4>2. d.of.from = row.from /\ d.of.to = row.to
        BY <4>1 DEF Emitted
      <4>. QED BY <3>2, <3>3, <4>1, <4>2, RowsHaveEvidence
    <3>. DEFINE Src(l, i) == {e[2] : e \in {x \in l : x[1] = i}}
    <3>7. lineage \subseteq Id \X Id /\ lineage' = lineage \cup ({d} \X why)
      BY <3>1, <3>4 DEF TypeInv, TypeOK
    <3>8. ASSUME NEW i \in Id
          PROVE  Src(lineage, i) \in SUBSET Id /\ Src(lineage', i) \in SUBSET Id
                 /\ Src(lineage, i) \subseteq Src(lineage', i)
                 /\ (i = d => why \subseteq Src(lineage', i))
      <4>1. PICK l, m : l = lineage /\ m = lineage'
        OBVIOUS
      <4>2. l \subseteq Id \X Id /\ l \subseteq m /\ m \subseteq Id \X Id /\ {d} \X why \subseteq m
        BY <3>5, <3>7, <4>1
      <4>3. Src(l, i) \in SUBSET Id /\ Src(m, i) \in SUBSET Id /\ Src(l, i) \subseteq Src(m, i)
        BY <4>2
      <4>4. ASSUME i = d, NEW s \in why
            PROVE  s \in Src(m, i)
        <5>1. <<i, s>> \in m
          BY <4>2, <4>4
        <5>. QED BY <5>1
      <4>. QED BY <4>1, <4>3, <4>4
    <3>9. ASSUME NEW i \in {e[1] : e \in lineage'}
          PROVE  Evidence(Src(lineage', i), i.of.from, i.of.to)
      <4>1. i \in Id /\ i.of.from \in Node /\ i.of.to \in Node
        BY <3>5, <3>7 DEF Id, Content
      <4>2. PICK es \in SUBSET Id : es \subseteq Src(lineage', i) /\ Evidence(es, i.of.from, i.of.to)
        <5>1. CASE i \in {e[1] : e \in lineage}
          BY <3>8, <4>1, <5>1
        <5>2. CASE i \notin {e[1] : e \in lineage}
          <6>1. i = d
            BY <3>7, <5>2
          <6>. QED BY <3>5, <3>6, <3>8, <4>1, <6>1
        <5>. QED BY <5>1, <5>2
      <4>3. Src(lineage', i) \in SUBSET Id
        BY <3>8, <4>1
      <4>. HIDE DEF Src
      <4>. QED BY <4>1, <4>2, <4>3, ReachGrows DEF Evidence
    <3>. QED BY <3>9
  <2>. QED BY <2>1, <2>2
<1>. QED BY <1>1, <1>2, TypeInvariance, InputsInvariance, PTL DEF Spec
=============================================================================
