----------------------------- MODULE Alignment -----------------------------
(***************************************************************************)
(* Predicate alignment: the edges of donto_predicate_alignment, the        *)
(* closure table that alignment-aware reads look them up in, and its       *)
(* rebuild.                                                                *)
(*                                                                         *)
(* donto_register_alignment and donto_retract_alignment write one edge.    *)
(* donto_rebuild_predicate_closure deletes every row of the closure and    *)
(* inserts twelve selections one after the other, each on conflict do      *)
(* nothing, in one transaction; clients call it whenever they have changed *)
(* edges, so that rebuilds run at the same time as changes and as other    *)
(* rebuilds.  Each of its SQL statements has a READ COMMITTED snapshot of  *)
(* its own, treats its rows in an order nobody fixes, and waits at a row   *)
(* that another rebuild has deleted or inserted until that one ends.       *)
(***************************************************************************)
EXTENDS Naturals, Sequences

CONSTANTS
  Rebuilder,     \* the sessions that rebuild the closure
  Pred,          \* predicate IRIs
  SeedPred,      \* the predicates registered when the closure was first built
  CanonicalOf,   \* donto_predicate.canonical_of, as a set of pairs
  InverseOf,     \* donto_predicate.inverse_of, as a set of pairs
  Edge,          \* the alignments clients register
  MaxRebuilds,   \* bound on the rebuilds of each session
  MaxChanges,    \* bound on registrations and retractions
  NoRow, NoOne

Relation == {"exact_equivalent", "inverse_equivalent", "sub_property_of",
             "close_match", "decomposition", "not_equivalent"}
Confidence == {"low", "high"}   \* below the floor of 0.8, or not

Pair == Pred \X Pred
Row == [via : {"self", "exact_equivalent", "inverse_equivalent", "sub_property_of", "close_match"},
        swap : BOOLEAN, conf : Confidence]

ASSUME EdgesAreAlignments ==
  Edge \subseteq [src : Pred, tgt : Pred, rel : Relation, conf : Confidence]
ASSUME EdgesHaveTwoEnds == \A e \in Edge : e.src # e.tgt
ASSUME SeedsArePredicates == SeedPred \subseteq Pred
ASSUME LegacyPairs == CanonicalOf \cup InverseOf \subseteq (SeedPred \X SeedPred)
ASSUME BoundsAreNaturals == MaxRebuilds \in Nat /\ MaxChanges \in Nat
ASSUME Nobody == NoOne \notin Rebuilder /\ NoRow \notin Row

VARIABLES
  known,     \* donto_predicate: the IRIs with status active or implicit
  open,      \* donto_predicate_alignment: the edges with upper(tx_time) null
  changes,   \* edges registered and retracted
  closure,   \* donto_predicate_closure: the committed row of each pair
  holder,    \* the running rebuild that has deleted or inserted the pair's row
  pending,   \* the row that the pair will have when the holder commits
  running,   \* the sessions in the middle of a rebuild
  stage,     \* the SQL statement each is at: 0 the delete, then the insertions
  todo,      \* the rows that statement has still to treat: <<pair, row>>
  waiting,   \* whether the session sleeps at one of them, and at which
  rebuilds,  \* rebuilds each session has begun
  alone,     \* whether no other rebuild has run during the session's
  saw        \* the predicates registered when that began, the edges open
             \* since, and those open at some time since

edges == <<known, open, changes>>
table == <<closure, holder, pending>>
session == <<running, stage, todo, waiting, rebuilds>>
ghosts == <<alone, saw>>
vars == <<edges, table, session, ghosts>>

-----------------------------------------------------------------------------
(* The selections of a rebuild, in the order of its INSERT statements *)

Entry(p, q, via, swap, conf) == <<<<p, q>>, [via |-> via, swap |-> swap, conf |-> conf]>>

\* The open edges of a relation, as rows from source to target and back.
Forth(es, via, swap) == {Entry(e.src, e.tgt, via, swap, e.conf) : e \in {d \in es : d.rel = via}}
Back(es, via, swap) == {Entry(e.tgt, e.src, via, swap, e.conf) : e \in {d \in es : d.rel = via}}

\* Mutated: close matches are taken whatever their confidence.
High_all(es) == es

High(es) == {e \in es : e.conf = "high"}

Stages(kn, es) ==
  << {Entry(p, p, "self", FALSE, "high") : p \in kn},
     Forth(es, "exact_equivalent", FALSE),
     Back(es, "exact_equivalent", FALSE),
     Forth(es, "inverse_equivalent", TRUE),
     Back(es, "inverse_equivalent", TRUE),
     Back(es, "sub_property_of", FALSE),
     Forth(High(es), "close_match", FALSE),
     Back(High(es), "close_match", FALSE),
     {Entry(c[2], c[1], "exact_equivalent", FALSE, "high") : c \in CanonicalOf},
     {Entry(c[1], c[2], "exact_equivalent", FALSE, "high") : c \in CanonicalOf},
     {Entry(i[1], i[2], "inverse_equivalent", TRUE, "high") : i \in InverseOf},
     {Entry(i[2], i[1], "inverse_equivalent", TRUE, "high") : i \in InverseOf} >>

LastStage == 12

-----------------------------------------------------------------------------
(* What the closure is for: the documented meaning of the relations *)

\* Relations that match both ways, only the inverse with the ends of a statement
\* swapped; a narrower predicate answers for the wider one.
Joins(e, k) ==
  \/ e.rel \in {"exact_equivalent", "inverse_equivalent"} /\ {e.src, e.tgt} = {k[1], k[2]}
  \/ e.rel = "close_match" /\ e.conf = "high" /\ {e.src, e.tgt} = {k[1], k[2]}
  \/ e.rel = "sub_property_of" /\ e.src = k[2] /\ e.tgt = k[1]

Precedence == <<"self", "exact_equivalent", "inverse_equivalent", "sub_property_of",
                "close_match", "legacy alias", "legacy inverse">>

\* Row r for pair k has a reason of the n-th kind.
Reason(n, k, r, kn, es) ==
  LET legacy(pairs) == r.conf = "high" /\ {k, <<k[2], k[1]>>} \cap pairs # {} IN
  CASE Precedence[n] = "self" -> k[1] = k[2] /\ k[1] \in kn /\ r.via = "self" /\ ~ r.swap
    [] Precedence[n] = "legacy alias" ->
         legacy(CanonicalOf) /\ r.via = "exact_equivalent" /\ ~ r.swap
    [] Precedence[n] = "legacy inverse" ->
         legacy(InverseOf) /\ r.via = "inverse_equivalent" /\ r.swap
    [] OTHER ->
         /\ r.via = Precedence[n] /\ (r.swap <=> r.via = "inverse_equivalent")
         /\ \E e \in es : e.rel = r.via /\ e.conf = r.conf /\ Joins(e, k)

\* Row r is right for pair k after a rebuild that saw the predicates kn to kn1
\* registered, the edges es always open and those in es1 at times: the pair has
\* a row if es give a reason for one, with a reason in es1 that has precedence
\* over or is of the kind of every reason in es.
Right(k, r, kn, kn1, es, es1) ==
  LET kinds == {n \in 1..Len(Precedence) : \E q \in Row : Reason(n, k, q, kn, es)} IN
  IF r = NoRow THEN kinds = {}
  ELSE \E n \in 1..Len(Precedence) : Reason(n, k, r, kn1, es1) /\ \A m \in kinds : n <= m

-----------------------------------------------------------------------------
Init ==
  /\ known = SeedPred
  /\ open = {}
  /\ changes = 0
  /\ closure = [k \in Pair |->
       CHOOSE r \in Row \cup {NoRow} : Right(k, r, SeedPred, SeedPred, {}, {})]
  /\ holder = [k \in Pair |-> NoOne]
  /\ pending = [k \in Pair |-> NoRow]
  /\ running = {}
  /\ stage = [t \in Rebuilder |-> 0]
  /\ todo = [t \in Rebuilder |-> {}]
  /\ waiting = [t \in Rebuilder |-> {}]
  /\ rebuilds = [t \in Rebuilder |-> 0]
  /\ alone = [t \in Rebuilder |-> TRUE]
  /\ saw = [t \in Rebuilder |-> [preds |-> SeedPred, always |-> {}, ever |-> {}]]

\* The running rebuilds have seen the edges es come and go.
Seen(es) ==
  saw' = [t \in Rebuilder |->
    IF t \in running
    THEN [saw[t] EXCEPT !.always = @ \cap es, !.ever = @ \cup es] ELSE saw[t]]

\* donto_register_alignment, with the trigger that registers both predicates.
\* An edge stands for all open rows that say the same.
Register(e) ==
  /\ changes < MaxChanges
  /\ e \notin open
  /\ open' = open \cup {e}
  /\ known' = known \cup {e.src, e.tgt}
  /\ changes' = changes + 1
  /\ Seen(open')
  /\ UNCHANGED <<table, session, alone>>

\* donto_retract_alignment closes the edge's tx_time.
Retract(e) ==
  /\ changes < MaxChanges
  /\ e \in open
  /\ open' = open \ {e}
  /\ changes' = changes + 1
  /\ Seen(open')
  /\ UNCHANGED <<known, table, session, alone>>

\* delete from donto_predicate_closure begins, with the rows now committed.
Begin(t) ==
  /\ t \notin running /\ rebuilds[t] < MaxRebuilds
  /\ running' = running \cup {t}
  /\ rebuilds' = [rebuilds EXCEPT ![t] = @ + 1]
  /\ stage' = [stage EXCEPT ![t] = 0]
  /\ todo' = [todo EXCEPT ![t] = {<<k, closure[k]>> : k \in {p \in Pair : closure[p] # NoRow}}]
  /\ alone' = [u \in Rebuilder |->
       IF u = t THEN running = {} ELSE alone[u] /\ u \notin running]
  /\ saw' = [saw EXCEPT ![t] = [preds |-> known, always |-> open, ever |-> open]]
  /\ UNCHANGED <<edges, table, waiting>>

\* The session's statement is through: the next insertion makes its selection.
NextStatement(t) ==
  /\ t \in running /\ todo[t] = {} /\ stage[t] < LastStage
  /\ stage' = [stage EXCEPT ![t] = @ + 1]
  /\ todo' = [todo EXCEPT ![t] = Stages(known, open)[stage[t] + 1]]
  /\ UNCHANGED <<edges, table, running, waiting, rebuilds, ghosts>>

\* Another running rebuild has deleted or inserted the row of pair k.
Blocked(t, k) == holder[k] \notin {NoOne, t}

\* What treating entry e does to its pair: the delete marks the row.
DeleteRow(t, e) ==
  /\ holder' = [holder EXCEPT ![e[1]] = t]
  /\ pending' = [pending EXCEPT ![e[1]] = NoRow]

\* Mutated: on conflict do update, the last selection wins.
InsertRow_update(t, e) ==
  /\ holder' = [holder EXCEPT ![e[1]] = t]
  /\ pending' = [pending EXCEPT ![e[1]] = e[2]]

\* An insertion does nothing when there is a row and puts its own otherwise.
InsertRow(t, e) ==
  LET there == IF holder[e[1]] = t THEN pending[e[1]] ELSE closure[e[1]] IN
  IF there # NoRow THEN UNCHANGED <<holder, pending>>
  ELSE /\ holder' = [holder EXCEPT ![e[1]] = t]
       /\ pending' = [pending EXCEPT ![e[1]] = e[2]]

\* The statement treats entry e, or goes to sleep at it.
TreatRow(t, e) ==
  /\ e \in todo[t] /\ waiting[t] \subseteq {e}
  /\ \/ /\ Blocked(t, e[1]) /\ waiting[t] = {}
        /\ waiting' = [waiting EXCEPT ![t] = {e}]
        /\ UNCHANGED <<holder, pending, todo>>
     \/ /\ ~ Blocked(t, e[1])
        /\ waiting' = [waiting EXCEPT ![t] = {}]
        /\ todo' = [todo EXCEPT ![t] = @ \ {e}]
        /\ IF stage[t] = 0 THEN DeleteRow(t, e) ELSE InsertRow(t, e)
  /\ UNCHANGED <<edges, closure, running, stage, rebuilds, ghosts>>

\* t's transaction ends.  A delete that has come to a row which t deleted, or
\* will come to it, passes over it when t has committed.
End(t, committed) ==
  LET mine == {k \in Pair : holder[k] = t}
      gone(u) == IF committed /\ stage[u] = 0 THEN {e \in todo[u] : e[1] \in mine} ELSE {}
  IN
  /\ closure' = [k \in Pair |-> IF committed /\ k \in mine THEN pending[k] ELSE closure[k]]
  /\ holder' = [k \in Pair |-> IF k \in mine THEN NoOne ELSE holder[k]]
  /\ pending' = [k \in Pair |-> IF k \in mine THEN NoRow ELSE pending[k]]
  /\ running' = running \ {t}
  /\ stage' = [stage EXCEPT ![t] = 0]
  /\ todo' = [u \in Rebuilder |-> IF u = t THEN {} ELSE todo[u] \ gone(u)]
  /\ waiting' = [u \in Rebuilder |-> IF u = t THEN {} ELSE waiting[u] \ gone(u)]
  /\ alone' = [alone EXCEPT ![t] = TRUE]
  /\ saw' = [saw EXCEPT ![t] = [preds |-> SeedPred, always |-> {}, ever |-> {}]]
  /\ UNCHANGED <<edges, rebuilds>>

\* Mutated: a rebuild commits only when no other one is running.
Commit_oneAtATime(t) ==
  /\ running = {t} /\ todo[t] = {} /\ stage[t] = LastStage
  /\ End(t, TRUE)

Commit(t) ==
  /\ t \in running /\ todo[t] = {} /\ stage[t] = LastStage
  /\ End(t, TRUE)

\* The rebuilds whose end t sleeps for.
WaitsFor(t) == {holder[e[1]] : e \in waiting[t]} \cap (running \ {t})

\* t is on a cycle of waits: the deadlock detector cancels it.
Deadlocked(t) == \E c \in SUBSET running : t \in c /\ c = UNION {WaitsFor(u) : u \in c}

CancelDeadlock(t) == t \in running /\ Deadlocked(t) /\ End(t, FALSE)

\* The session dies.
Crash(t) == t \in running /\ End(t, FALSE)

Step(t) ==
  NextStatement(t) \/ (\E e \in todo[t] : TreatRow(t, e)) \/ Commit(t) \/ CancelDeadlock(t)

Next ==
  \/ \E e \in Edge : Register(e) \/ Retract(e)
  \/ \E t \in Rebuilder : Begin(t) \/ Step(t) \/ Crash(t)

Spec == Init /\ [][Next]_vars

\* The server keeps executing a rebuild that is not blocked.
FairSpec == Spec /\ \A t \in Rebuilder : WF_vars(Step(t))
-----------------------------------------------------------------------------
(* Properties *)

TypeOK ==
  /\ known \subseteq Pred /\ open \subseteq Edge /\ changes \in 0..MaxChanges
  /\ closure \in [Pair -> Row \cup {NoRow}]
  /\ holder \in [Pair -> Rebuilder \cup {NoOne}]
  /\ pending \in [Pair -> Row \cup {NoRow}]
  /\ running \subseteq Rebuilder
  /\ stage \in [Rebuilder -> 0..LastStage]
  /\ todo \in [Rebuilder -> SUBSET (Pair \X Row)]
  /\ waiting \in [Rebuilder -> SUBSET (Pair \X Row)]
  /\ rebuilds \in [Rebuilder -> 0..MaxRebuilds]
  /\ alone \in [Rebuilder -> BOOLEAN]
  /\ saw \in [Rebuilder -> [preds : SUBSET Pred, always : SUBSET Edge, ever : SUBSET Edge]]

\* The table that t's commit leaves is right for what t has seen.
Full(t) ==
  \A k \in Pair : Right(k, closure'[k], saw[t].preds, known, saw[t].always, saw[t].ever)

\* A rebuild that no other one overlaps leaves the table its statements define,
\* whatever edges were registered and retracted around and during it: edges
\* retracted before it leave no rows, edges open throughout have theirs, and of
\* two edges between one pair of predicates the statement order decides
\* (donto_rebuild_predicate_closure, 0051).  0051:11 promises as much of every
\* rebuild, "full TRUNCATE-then-INSERT"; one that overlaps another keeps rows of
\* edges retracted before it began, if the other inserted them.
LoneRebuildIsFull ==
  [][\A t \in Rebuilder : Commit(t) /\ alone[t] => Full(t)]_vars

\* While a rebuild runs nobody takes from it a row that it has deleted or
\* inserted, and the row it has inserted for a pair is its last word: neither a
\* later statement of its own nor another rebuild replaces it (0051:50).
HeldRowsAreKept ==
  [][\A k \in Pair : holder[k] \in running' =>
       /\ holder'[k] = holder[k]
       /\ pending[k] # NoRow => pending'[k] = pending[k]]_vars

\* Every rebuild ends although rebuilds wait for each other's rows: a cycle of
\* waits is found and one of its members cancelled (tests/common/mod.rs:116
\* retries such a rebuild).
RebuildsEnd == \A t \in Rebuilder : t \in running ~> t \notin running
=============================================================================
