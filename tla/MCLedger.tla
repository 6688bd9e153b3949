------------------------------ MODULE MCLedger ------------------------------
(* Small instances of Ledger for TLC. *)
EXTENDS LedgerBeliefs, FiniteSets, TLC

CONSTANTS t1, t2, t3, a, b, p1, p2, x, y, main, cand, cur, i1, i2, i3, i4

Stmt(c, r, w) == [ctx |-> c, pred |-> r, body |-> w]

\* Batches that register a context and a predicate nobody has used, insert two
\* contents in opposite orders (such calls can deadlock), or meet the curated gate.
Crossing == {<<Stmt(a, p2, x), Stmt(b, p1, x)>>, <<Stmt(b, p1, x), Stmt(a, p2, x)>>,
             <<Stmt(cur, p1, x)>>, <<Stmt(cur, p2, x)>>}
\* A candidate, its promotion target, and both in one batch.
InCandidate == {<<Stmt(cand, p1, x)>>, <<Stmt(main, p1, x), Stmt(cand, p1, x)>>}

\* What is called together: on a candidate, up to three calls that write three
\* rows; or two calls that meet where contexts and predicates are registered.
Touched == {i \in Id : stmt[i] # NoRow}
Called == {t \in Tx : call[t] # NoCall}
OnACandidate(c) ==
  CASE c.op = "assert" -> c.stmts \in InCandidate
    [] c.op = "correct" -> c.new = Stmt(main, p1, x)
    [] c.op = "promote" -> c.ctx \in {main, cand}
    [] OTHER -> TRUE
Registering(c) == (c.op = "assert" /\ c.stmts \in Crossing) \/ c.op = "retract"
Scenarios ==
  \/ Cardinality(Touched) <= 3 /\ \A t \in Called : OnACandidate(call[t])
  \/ Cardinality(Called) <= 2 /\ \A t \in Called : Registering(call[t])
AnyBatch == Crossing \cup InCandidate

Interchangeable == Permutations(Tx) \cup Permutations(Id)
=============================================================================
