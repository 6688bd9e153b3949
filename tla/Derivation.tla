----------------------------- MODULE Derivation -----------------------------
(***************************************************************************)
(* POST /rules/derive (apps/dontosrv/src/rules.rs): built-in rules emit    *)
(* derived statements into a context, each with lineage to its sources,    *)
(* and a report that later requests with the same inputs are answered from.*)
(*                                                                         *)
(* Every step below is one round trip on a connection of the server's pool *)
(* and one autocommit call; several handlers run at once, statements are   *)
(* asserted and retracted meanwhile, any call may fail, and a handler      *)
(* whose client goes away is dropped wherever it stands.  At most one      *)
(* statement of a content is open (Ledger), so a statement is named by its *)
(* content and a number.                                                   *)
(***************************************************************************)
EXTENDS Naturals, Sequences, FiniteSets, WellFoundedInduction

CONSTANTS
  Handler,   \* running requests
  Request,   \* [kind, pred, out, scope, into]: a rule, its scope and output
  Ctx, Pred, Node,
  Elsewhere, \* what other clients assert, of the form of Content
  PoolSize,  \* connections of the pool
  MaxEdits,  \* bound on what other clients do
  MaxFaults, \* bound on failing calls and dropped handlers
  None

Content == [ctx : Ctx, pred : Pred, from : Node, to : Node]
Id == [of : Content, no : Nat]

\* transitive writes p+ for p; inverse writes what the rule names, which is p
\* itself for a symmetric rule.
ASSUME RequestsAreRequests ==
  Request \subseteq [kind : {"transitive", "inverse"}, pred : Pred, out : Pred,
                     scope : SUBSET Ctx, into : Ctx]
ASSUME OthersAssertContent == Elsewhere \subseteq Content /\ IsFiniteSet(Elsewhere)
ASSUME BoundsAreNatural == PoolSize \in Nat \ {0} /\ MaxEdits \in Nat /\ MaxFaults \in Nat
ASSUME NoneIsNothing == None \notin Request /\ None \notin [id : Id, why : SUBSET Id]

VARIABLES
  made,    \* donto_statement: how many statements there are of each content
  open,    \* the contents whose last statement is not retracted
  lineage, \* donto_stmt_lineage: <<derived id, source id>>
  reports, \* donto_derivation_report, with what the run read and whether it went well
  edits,   \* what other clients did so far
  faults,  \* calls that failed and handlers that were dropped so far
  pc,      \* what each handler does next
  req,     \* its request
  seen,    \* the edges its query read
  todo,    \* the rows of its query still to be emitted
  cur,     \* the derived statement whose lineage is written next, with its sources
  clean,   \* history: whether none of its calls failed
  holding  \* the handlers that hold a connection from one step to the next

ledger == <<made, open, lineage>>
work == <<req, seen, todo, cur, clean>>
vars == <<ledger, reports, edits, faults, pc, work, holding>>

-----------------------------------------------------------------------------
(* The rules *)

Latest(c) == [of |-> c, no |-> made[c]]

\* The open edges in a request's scope.
Edges(q) == {Latest(c) : c \in {x \in open : x.pred = q.pred /\ x.ctx \in q.scope}}

\* As if the cycles were broken at the nodes.
Chains_noNodeTwice(es) ==
  {w \in UNION {[1..n -> es] : n \in 1..Cardinality(es)} :
     /\ \A k \in 1..Len(w) - 1 : w[k].of.to = w[k + 1].of.from
     /\ \A j, k \in 1..Len(w) : w[j].of.to = w[k].of.from => j < k}

\* The chains of edges the recursive query walks, none with an edge twice.
Chains(es) ==
  {w \in UNION {[1..n -> es] : n \in 1..Cardinality(es)} :
     /\ \A k \in 1..Len(w) - 1 : w[k].of.to = w[k + 1].of.from
     /\ \A j, k \in 1..Len(w) : w[j] = w[k] => j = k}

\* As if the evidence of a chain were its last edge.
Rows_lastEdge(q, es) ==
  IF q.kind = "transitive"
  THEN {[from |-> w[1].of.from, to |-> w[Len(w)].of.to, why |-> {w[Len(w)]}] : w \in Chains(es)}
  ELSE {[from |-> e.of.to, to |-> e.of.from, why |-> {e}] : e \in es}

\* The rows a rule's query returns: what to emit and the sources of each.
Rows(q, es) ==
  IF q.kind = "transitive"
  THEN {[from |-> w[1].of.from, to |-> w[Len(w)].of.to, why |-> {w[k] : k \in 1..Len(w)}] :
          w \in Chains(es)}
  ELSE {[from |-> e.of.to, to |-> e.of.from, why |-> {e}] : e \in es}

Emitted(q, row) == [ctx |-> q.into, pred |-> q.out, from |-> row.from, to |-> row.to]

-----------------------------------------------------------------------------
\* Other clients' statements, and no request yet.
Init ==
  /\ open \in SUBSET Elsewhere
  /\ made = [c \in Content |-> IF c \in open THEN 1 ELSE 0]
  /\ lineage = {} /\ reports = {} /\ edits = 0 /\ faults = 0
  /\ pc = [h \in Handler |-> "idle"]
  /\ req = [h \in Handler |-> None]
  /\ seen = [h \in Handler |-> {}]
  /\ todo = [h \in Handler |-> {}]
  /\ cur = [h \in Handler |-> None]
  /\ clean = [h \in Handler |-> TRUE]
  /\ holding = {}

\* As if a handler that emits kept two connections.
Free_both == 2 * Cardinality(holding) < PoolSize

\* Someone can take a connection for the length of a call.
Free == Cardinality(holding) < PoolSize

Goto(h, l) == pc' = [pc EXCEPT ![h] = l]

\* The handler returns or is dropped: its locals go, and its connection goes
\* back to the pool.
End(h) ==
  /\ Goto(h, "ended")
  /\ req' = [req EXCEPT ![h] = None]
  /\ seen' = [seen EXCEPT ![h] = {}]
  /\ todo' = [todo EXCEPT ![h] = {}]
  /\ cur' = [cur EXCEPT ![h] = None]
  /\ clean' = [clean EXCEPT ![h] = TRUE]
  /\ holding' = holding \ {h}

Fault == faults < MaxFaults /\ faults' = faults + 1

Spoil(h) == clean' = [clean EXCEPT ![h] = FALSE]

\* As if the unique index on open content were not there.
AssertStatement_twice(c) ==
  /\ open' = open \cup {c}
  /\ made' = [made EXCEPT ![c] = @ + 1]

\* donto_assert: the open statement with this content, or a new one.
AssertStatement(c) ==
  /\ open' = open \cup {c}
  /\ made' = IF c \in open THEN made ELSE [made EXCEPT ![c] = @ + 1]

Receive(h, q) ==
  /\ pc[h] = "idle"
  /\ Goto(h, "lookup")
  /\ req' = [req EXCEPT ![h] = q]
  /\ UNCHANGED <<ledger, reports, edits, faults, seen, todo, cur, clean, holding>>

\* A report with these inputs answers the request; a failing call is no report.
Lookup(h) ==
  /\ pc[h] = "lookup" /\ Free
  /\ \/ (\E rep \in reports : rep.req = req[h]) /\ End(h) /\ UNCHANGED faults
     \/ /\ Goto(h, "ensure") /\ UNCHANGED <<work, holding>>
        /\ \/ Fault
           \/ (\A rep \in reports : rep.req # req[h]) /\ UNCHANGED faults
  /\ UNCHANGED <<ledger, reports, edits>>

\* ensure_context for the output context.
Ensure(h) ==
  /\ pc[h] = "ensure" /\ Free
  /\ \/ Goto(h, "read") /\ UNCHANGED <<faults, work, holding>>
     \/ Fault /\ End(h)
  /\ UNCHANGED <<ledger, reports, edits>>

\* The rule's query, on a connection that is kept while its rows are emitted.
Read(h) ==
  /\ pc[h] = "read" /\ Free
  /\ seen' = [seen EXCEPT ![h] = Edges(req[h])]
  /\ todo' = [todo EXCEPT ![h] = Rows(req[h], Edges(req[h]))]
  /\ holding' = holding \cup {h}
  /\ Goto(h, "emit")
  /\ UNCHANGED <<ledger, reports, edits, faults, req, cur, clean>>

\* A failing query has no rows (unwrap_or_default).
ReadFails(h) ==
  /\ pc[h] = "read" /\ Free
  /\ Fault
  /\ Spoil(h)
  /\ Goto(h, "report")
  /\ UNCHANGED <<ledger, reports, edits, req, seen, todo, cur, holding>>

\* One row is asserted, on a second connection.
Emit(h, row) ==
  /\ pc[h] = "emit" /\ cur[h] = None /\ Free
  /\ todo' = [todo EXCEPT ![h] = @ \ {row}]
  /\ LET c == Emitted(req[h], row) IN
       /\ AssertStatement(c)
       /\ cur' = [cur EXCEPT ![h] = [id |-> [of |-> c, no |-> made'[c]], why |-> row.why]]
  /\ UNCHANGED <<lineage, reports, edits, faults, pc, req, seen, clean, holding>>

\* The call fails, before or after it took effect, and the row is passed over.
EmitFails(h, row) ==
  /\ pc[h] = "emit" /\ cur[h] = None /\ Free
  /\ Fault
  /\ todo' = [todo EXCEPT ![h] = @ \ {row}]
  /\ UNCHANGED <<made, open>> \/ AssertStatement(Emitted(req[h], row))
  /\ Spoil(h)
  /\ UNCHANGED <<lineage, reports, edits, pc, req, seen, cur, holding>>

\* As if one source were enough.
Lineage_one(h) ==
  /\ pc[h] = "emit" /\ cur[h] # None
  /\ lineage' = lineage \cup {<<cur[h].id, CHOOSE s \in cur[h].why : TRUE>>}
  /\ cur' = [cur EXCEPT ![h] = None]
  /\ UNCHANGED <<made, open, reports, edits, faults, pc, req, seen, todo, clean, holding>>

\* All sources of the statement just asserted are recorded by one insert.
Lineage(h) ==
  /\ pc[h] = "emit" /\ cur[h] # None
  /\ lineage' = lineage \cup ({cur[h].id} \X cur[h].why)
  /\ cur' = [cur EXCEPT ![h] = None]
  /\ UNCHANGED <<made, open, reports, edits, faults, pc, req, seen, todo, clean, holding>>

\* The insert fails and the statement goes without.
LineageFails(h) ==
  /\ pc[h] = "emit" /\ cur[h] # None
  /\ Fault
  /\ cur' = [cur EXCEPT ![h] = None]
  /\ Spoil(h)
  /\ UNCHANGED <<ledger, reports, edits, pc, req, seen, todo, holding>>

\* The function returns and its connection goes back to the pool.
EndEmit(h) ==
  /\ pc[h] = "emit" /\ cur[h] = None /\ todo[h] = {}
  /\ holding' = holding \ {h}
  /\ Goto(h, "report")
  /\ UNCHANGED <<ledger, reports, edits, faults, work>>

\* The report is inserted, unless that fails, and the request answered.
Report(h) ==
  /\ pc[h] = "report" /\ Free
  /\ \/ /\ reports' = reports \cup {[req |-> req[h], seen |-> seen[h], clean |-> clean[h]]}
        /\ UNCHANGED faults
     \/ Fault /\ UNCHANGED reports
  /\ End(h)
  /\ UNCHANGED <<ledger, edits>>

\* The client goes away, or the handler panics (on the null id donto_assert can
\* return, Ledger): its future is dropped.
Drop(h) ==
  /\ pc[h] \notin {"idle", "ended"}
  /\ Fault
  /\ End(h)
  /\ UNCHANGED <<ledger, reports, edits>>

\* Other clients assert and retract.
Edit ==
  /\ edits < MaxEdits
  /\ edits' = edits + 1
  /\ \/ \E c \in Elsewhere \ open : AssertStatement(c)
     \/ \E c \in open : open' = open \ {c} /\ UNCHANGED made
  /\ UNCHANGED <<lineage, reports, faults, pc, work, holding>>

Step(h) ==
  \/ Lookup(h) \/ Ensure(h) \/ Read(h) \/ ReadFails(h)
  \/ \E row \in todo[h] : Emit(h, row) \/ EmitFails(h, row)
  \/ Lineage(h) \/ LineageFails(h) \/ EndEmit(h) \/ Report(h)

Next ==
  \/ Edit
  \/ \E h \in Handler : Drop(h) \/ Step(h) \/ \E q \in Request : Receive(h, q)

Spec == Init /\ [][Next]_vars

\* Every call returns or fails, and what the executor can run it runs.
FairSpec == Spec /\ \A h \in Handler : WF_vars(Step(h))

-----------------------------------------------------------------------------
(* Properties *)

\* b can be reached from a over the edges es: the pair is in every transitive
\* relation that has the edges.
Reach(es, a, b) ==
  <<a, b>> \in TransitiveClosureOn({<<e.of.from, e.of.to>> : e \in es}, Node)

\* The variables keep their types, and a connection is only kept to emit.
TypeOK ==
  /\ made \in [Content -> Nat]
  /\ open \subseteq {c \in Content : made[c] > 0}
  /\ lineage \subseteq Id \X Id
  /\ reports \subseteq [req : Request, seen : SUBSET Id, clean : BOOLEAN]
  /\ edits \in 0..MaxEdits /\ faults \in 0..MaxFaults
  /\ pc \in [Handler -> {"idle", "lookup", "ensure", "read", "emit", "report", "ended"}]
  /\ req \in [Handler -> Request \cup {None}]
  /\ \A h \in Handler : pc[h] \notin {"idle", "ended"} => req[h] # None
  /\ seen \in [Handler -> SUBSET Id]
  /\ todo \in [Handler -> SUBSET [from : Node, to : Node, why : SUBSET Id]]
  /\ cur \in [Handler -> [id : Id, why : SUBSET Id] \cup {None}]
  /\ clean \in [Handler -> BOOLEAN]
  /\ holding \subseteq {h \in Handler : pc[h] = "emit"}

\* The query of a transitive rule returns exactly the pairs one can reach over
\* the edges, cycles and parallel edges included (rules.rs: transitive_closure).
ClosureIsReachability ==
  \A q \in Request : q.kind = "transitive" =>
    {<<r.from, r.to>> : r \in Rows(q, Edges(q))}
      = {e \in Node \X Node : Reach(Edges(q), e[1], e[2])}

Sources(i) == {e[2] : e \in {x \in lineage : x[1] = i}}

\* Where a derived statement has lineage, its sources are evidence for it:
\* they connect its two ends, or state its inverse, however many runs and
\* paths they come from (user-guide.md: "Each derived statement carries
\* lineage pointers to its inputs").
LineageIsEvidence ==
  \A i \in {e[1] : e \in lineage} :
    \/ Reach(Sources(i), i.of.from, i.of.to)
    \/ \E s \in Sources(i) : s.of.from = i.of.to /\ s.of.to = i.of.from

\* A report of a run none of whose calls failed means that everything its rule
\* derives from what it read was written, with lineage: what later requests
\* are answered from is there, although other handlers derived, retracted or
\* were dropped meanwhile (invariants_rules.rs: "Re-runs with identical
\* fingerprint skip execution").
ReportedIsDerived ==
  \A rep \in reports : rep.clean =>
    \A row \in Rows(rep.req, rep.seen) :
      LET c == Emitted(rep.req, row)
      IN  \E n \in 1..made[c] : {[of |-> c, no |-> n]} \X row.why \subseteq lineage

\* A run that reads what an earlier clean run read changes neither statements
\* nor lineage, as long as nothing it emitted was retracted (rules.rs:
\* "re-running with the same inputs is a no-op").
RerunIsNoOp ==
  [][\A h \in Handler, rep \in reports :
       /\ pc[h] = "emit" /\ (todo'[h] # todo[h] \/ cur'[h] # cur[h])
       /\ rep.clean /\ rep.req = req[h] /\ rep.seen = seen[h]
       /\ \A row \in Rows(req[h], seen[h]) :
            LET c == Emitted(req[h], row) IN made[c] = 1 /\ c \in open
       => UNCHANGED ledger]_vars

\* Every request is answered, or its client leaves, as long as the pool has
\* a connection more than there are handlers; a handler serves one request, so
\* in the end none is being served.
RequestsEnd == <>[](\A h \in Handler : pc[h] \in {"idle", "ended"})
=============================================================================
