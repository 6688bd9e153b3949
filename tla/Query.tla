------------------------------- MODULE Query --------------------------------
(***************************************************************************)
(* The evaluator (packages/donto-query/src/evaluator.rs): a query is a     *)
(* nested-loop join.  For each pattern and each solution so far one call   *)
(* matches statements in the database and one more per overlay clause      *)
(* drops some of them; order and evidence take a call each.  Every call is *)
(* a statement of its own on a pooled connection, so that other clients    *)
(* edit between any two of them, and any call may fail.                    *)
(*                                                                         *)
(* SQL returns rows in no particular order, so the solutions of a pattern  *)
(* are a set.  A solution carries the statements it was matched with, its  *)
(* trail (the code keeps the last one), which makes equal rows distinct.   *)
(***************************************************************************)
EXTENDS QueryAlgebra, SequencesExt, FiniteSetsExt

CONSTANTS
  Id,        \* statements that are asserted sooner or later
  Content,   \* Id -> [subject, predicate, object, ctx, polarity]
  Context,   \* the contexts
  Parent,    \* [Context -> Context \cup {None}]
  Doc,       \* documents, each with its policy
  Action,    \* the actions a policy may allow
  Start,     \* the stores it may be asked of
  AsOf,      \* the presets as_of:<timestamp>, and the time each names
  Edit,      \* what other clients may do: [kind, of, and what it sets]
  Older,     \* the sets of times at which transactions older than a query began
  MaxEdits

VARIABLES
  store,   \* the tables a query reads
  now,     \* transaction time
  edits,   \* edits so far
  older,   \* when the transactions began that are older than the query and still run
  pc,      \* what the evaluator does next
  query,   \* the query, its preset applied
  concept, \* the predicates of EXPANDS_FROM, or None
  k,       \* the pattern being matched
  todo,    \* the solutions of the patterns before it still to be extended
  found,   \* the solutions of the patterns up to it
  row,     \* the solution being extended
  stmts,   \* the matched rows that no overlay clause dropped
  answer,  \* the rows returned
  began,   \* history: when the evaluation began
  past     \* history: the stores there were since

locals == <<query, concept, k, todo, found, row, stmts, answer>>
vars == <<store, now, edits, older, pc, locals, began, past>>

-----------------------------------------------------------------------------
(* What is stored *)

\* The tables: the times and the maturity of each statement, the overlays, the
\* closure, the concepts of the lenses, the hypotheses.  A predicate may be the
\* inverse of another one only (0048: donto_pa_distinct, 0051: inverse_of).
Tables == {"lo", "hi", "maturity", "modality", "level", "links", "allows", "lenses", "closure",
           "edges", "hypotheses", "pressure"}
IsStore(st) ==
  /\ DOMAIN st = Tables
  /\ {st.lo, st.hi} \subseteq [Id -> Nat \cup {None}] /\ st.maturity \in [Id -> Nat]
  /\ \A c \in st.closure : c.swap => c.of # c.to
  /\ \A e \in st.edges : e = [concept |-> e.concept, lens |-> e.lens, to |-> e.to]

\* lower and upper of tx_time: asserted once, retracted at most once.
Born(st, s) == st.lo[s] # None
Open(st, s) == Born(st, s) /\ st.hi[s] = None

\* As if the upper bound of a period were that of the row now.
InForce_open(st, s, t) ==
  IF t = None THEN Open(st, s) ELSE Open(st, s) /\ st.lo[s] <= t

\* upper(tx_time) is null, or tx_time @> t.
InForce(st, s, t) ==
  IF t = None THEN Open(st, s)
  ELSE Born(st, s) /\ st.lo[s] <= t /\ (st.hi[s] = None \/ t < st.hi[s])

\* donto_resolve_scope: with nothing included, every context.
Below(cs) ==
  LET f[n \in Nat] == IF n = 0 THEN cs ELSE f[n - 1] \cup {c \in Context : Parent[c] \in f[n - 1]}
  IN f[Cardinality(Context)]
Resolve(scope) ==
  LET inc == Range(scope.include)
      down == IF scope.descendants THEN Below(inc) ELSE inc
      up == IF scope.ancestors THEN {c \in Context : Below({c}) \cap inc # {}} ELSE {}
  IN (IF inc = {} THEN Context ELSE down \cup up) \ Range(scope.exclude)

\* The conditions a statement meets whatever the predicate is matched with.
Visible(st, q, s) ==
  /\ InForce(st, s, q.asOf)
  /\ q.scope # None => Content[s].ctx \in Resolve(q.scope)
  /\ q.polarity # None => Content[s].polarity = q.polarity
  /\ st.maturity[s] >= q.maturity

RowOf(s) == [id |-> s, subject |-> Content[s].subject, predicate |-> Content[s].predicate,
             object |-> Content[s].object]

\* A bound position, and one that is not: term_to_iri and the object filter.
Wanted(t, i) == IsVar(t) \/ t = Iri(i)
WantedObject(t, o) == IsVar(t) \/ IsLiteral(t) \/ t = o

\* Whether a match takes the closure's row into account: match_strict takes
\* none, match_aligned those of enough confidence.
Expands(q, c) ==
  /\ q.expansion.mode # "strict"
  /\ c.confidence >= IF q.expansion.mode = "above" THEN q.expansion.percent ELSE 80

\* donto_match_aligned: the statements with the predicate, and those with an
\* equivalent one, the ends swapped for an inverse.  Rows keep the predicate
\* of the statement.
Match(st, q, s, p, o) ==
  LET visible == {x \in Id : Visible(st, q, x)}
      near(x) == {c \in st.closure : /\ Iri(c.of) = p /\ c.to = Content[x].predicate
                                     /\ Expands(q, c)}
      swapped(x) == [id |-> x, subject |-> Content[x].object.iri, predicate |-> Content[x].predicate,
                     object |-> Iri(Content[x].subject)]
  IN {RowOf(x) : x \in {y \in visible :
        Wanted(s, Content[y].subject) /\ WantedObject(o, Content[y].object)
        /\ (Wanted(p, Content[y].predicate)
            \/ \E c \in near(y) : ~c.swap /\ c.to # c.of)}}
     \cup {swapped(x) : x \in {y \in visible :
        IsIri(Content[y].object) /\ Wanted(s, Content[y].object.iri)
        /\ (\E c \in near(y) : c.swap) /\ (IsIri(o) => o.iri = Content[y].subject)}}

\* The overlay clauses: what a matched statement must have to be kept.
Has(st, q, clause, s) ==
  CASE clause = "modality" -> q.modality = <<>> \/ st.modality[s] \in Range(q.modality)
    [] clause = "level" -> q.level = <<>> \/ st.level[s] \in Range(q.level)
    [] clause = "policy" -> \A d \in Doc : <<s, d>> \in st.links => q.policy \in st.allows[d]
    [] clause = "lens" -> <<s, q.lens>> \in st.lenses

\* The order in which they are looked at.
Rank == [modality |-> 1, level |-> 2, policy |-> 3, lens |-> 4]
Clauses == DOMAIN Rank
Asked(q) == {c \in Clauses : q[c] # None}

-----------------------------------------------------------------------------
(* Solutions *)

Substitute(t, env) == IF IsVar(t) /\ t.var \in DOMAIN env THEN env[t.var] ELSE t

\* A row against a pattern, position by position.
Facing(pat, r) == {<<pat.subject, Iri(r.subject)>>, <<pat.predicate, Iri(r.predicate)>>,
                   <<pat.object, r.object>>}

\* The facings of a variable, and what it is bound to by consistent ones.
Of(fs, x) == {f \in fs : IsVar(f[1]) /\ f[1].var = x}
VarsOf(fs) == {f[1].var : f \in {g \in fs : IsVar(g[1])}}
Bound(fs, x) == (CHOOSE f \in Of(fs, x) : TRUE)[2]

\* As if a variable written twice in a pattern were bound by each place.
Unifies_once(env, pat, r) ==
  \A f \in Facing(pat, r) :
    IF ~IsVar(f[1]) THEN f[1] = f[2] ELSE f[1].var \in DOMAIN env => env[f[1].var] = f[2]

Unifies(env, pat, r) ==
  \A f \in Facing(pat, r) :
    IF ~IsVar(f[1]) THEN f[1] = f[2]
    ELSE IF f[1].var \in DOMAIN env THEN env[f[1].var] = f[2]
    ELSE \A g \in Of(Facing(pat, r), f[1].var) : g[2] = f[2]

Bind(env, pat, r) ==
  [x \in DOMAIN env \cup VarsOf(Facing(pat, r)) |->
     IF x \in DOMAIN env THEN env[x] ELSE Bound(Facing(pat, r), x)]

\* eval_filter: two unbound variables are equal; only numbers are compared.
Value(t, env) == IF IsVar(t) /\ t.var \notin DOMAIN env THEN None ELSE Substitute(t, env)
Passes(f, env) ==
  LET a == Value(f.lhs, env)
      b == Value(f.rhs, env)
      numbers == a # None /\ b # None /\ IsNumber(a) /\ IsNumber(b)
  IN CASE f.op = "=" -> a = b
       [] f.op = "!=" -> a # b
       [] f.op = "<" -> numbers /\ a.num < b.num
       [] f.op = "<=" -> numbers /\ a.num <= b.num
       [] f.op = ">" -> numbers /\ a.num > b.num
       [] f.op = ">=" -> numbers /\ a.num >= b.num

Project(q, env) ==
  IF q.project = <<>> THEN env ELSE [x \in DOMAIN env \cap Range(q.project) |-> env[x]]

Solution(env, trail) == [env |-> env, trail |-> trail]
Nothing == Solution(<<>>, <<>>)

\* contradiction_pressure of the statement a row was matched with last.
Pressure(st, r) == st.pressure[Last(r.trail)]

\* No row of A comes after one of B.
Precede(st, q, A, B) ==
  \A a \in A, b \in B : q.order = None
     \/ (q.order = "desc" /\ Pressure(st, a) >= Pressure(st, b))
     \/ (q.order = "asc" /\ Pressure(st, a) <= Pressure(st, b))

Least(a, b) == IF a < b THEN a ELSE b

\* The windows OFFSET and LIMIT may cut out of the rows, whatever order the
\* database returned them in.
Windows(st, q, rows) ==
  LET n == Cardinality(rows)
      off == IF q.offset = None THEN 0 ELSE Least(q.offset, n)
      lim == IF q.limit = None THEN n - off ELSE Least(q.limit, n - off)
  IN {w \in SUBSET rows :
        /\ Cardinality(w) = lim
        /\ \E skipped \in SUBSET (rows \ w) :
             /\ Cardinality(skipped) = off
             /\ Precede(st, q, skipped, w) /\ Precede(st, q, skipped \cup w, rows \ (skipped \cup w))}

\* The evidence of a row; redacted, that of documents that deny it is left out.
EvidenceOf(st, q, s) ==
  {d \in Doc : <<s, d>> \in st.links /\ (q.evidence = "redacted_if_required" => "view_anchor_location" \in st.allows[d])}

-----------------------------------------------------------------------------
(* Presets *)

\* The query with its preset applied, or None for one that is not supported.
\* ContextScope::default() is every context, also when there is no hypothesis.
WithPreset(st, q) ==
  LET name == IF q.preset = None THEN "latest" ELSE q.preset
  IN CASE name = "latest" -> q
       [] name = "raw" -> [q EXCEPT !.maturity = 0]
       [] name = "curated" -> [q EXCEPT !.maturity = IF @ < 2 THEN 2 ELSE @]
       [] name = "anywhere" -> [q EXCEPT !.scope = None]
       [] name = "under_hypothesis" -> [q EXCEPT !.scope = AnyOf(SetToSeq(st.hypotheses))]
       [] name \in DOMAIN AsOf -> [q EXCEPT !.asOf = AsOf[name]]
       [] OTHER -> None

\* validate_policy_action
Supported(q) == q # None /\ (q.policy # None => q.policy \in Action)

-----------------------------------------------------------------------------
(* One evaluation *)

Init ==
  /\ store \in Start /\ now = 1 /\ edits = 0 /\ older \in Older
  /\ pc = "idle" /\ query = DefaultQuery /\ concept = None /\ k = 1
  /\ todo = {} /\ found = {} /\ row = Nothing /\ stmts = {} /\ answer = {}
  /\ began = 0 /\ past = {}

Same(v) == UNCHANGED <<store, now, edits, older, began, past, v>>

Ended == {"done", "unsupported", "ill-typed", "failed"}

Submit(r) ==
  /\ pc = "idle"
  /\ query' = IF r.preset = None THEN r.query ELSE [r.query EXCEPT !.preset = r.preset]
  /\ pc' = IF r.query.patterns = <<>> THEN "done" ELSE "preset"
  /\ began' = now /\ past' = {store}
  /\ UNCHANGED <<store, now, edits, older, concept, k, todo, found, row, stmts, answer>>

ApplyPreset ==
  /\ pc = "preset"
  /\ LET q == WithPreset(store, query)
     IN IF Supported(q)
        THEN /\ query' = q
             /\ pc' = IF q.expands = None THEN "match" ELSE "concept"
             /\ todo' = {Nothing}
        ELSE pc' = "unsupported" /\ UNCHANGED <<query, todo>>
  /\ Same(<<concept, k, found, row, stmts, answer>>)

\* load_concept_predicate_set
LoadConcept ==
  /\ pc = "concept"
  /\ concept' = {query.expands.concept} \cup
       {e.to : e \in {x \in store.edges : x.concept = query.expands.concept /\ x.lens = query.expands.lens}}
  /\ pc' = "match"
  /\ Same(<<query, k, todo, found, row, stmts, answer>>)

\* As if the first clause asked were the only one.
NextClause_only(q, c) == "extend"

\* The first of some clauses, or what is done with the rows after the last.
FirstOf(cs) == IF cs = {} THEN "extend" ELSE CHOOSE c \in cs : \A d \in cs : Rank[c] <= Rank[d]
NextClause(q, c) == FirstOf({d \in Asked(q) : Rank[c] < Rank[d]})
FirstClause(q) == FirstOf(Asked(q))

\* One solution of the patterns so far is matched against the next; a literal
\* it bound to a subject or predicate is an error of the whole query.
MatchRow(r) ==
  /\ pc = "match" /\ r \in todo
  /\ LET pat == query.patterns[k]
         s == Substitute(pat.subject, r.env)
         p == Substitute(pat.predicate, r.env)
     IN IF IsLiteral(s) \/ IsLiteral(p)
        THEN pc' = "ill-typed" /\ UNCHANGED <<row, stmts, todo>>
        ELSE /\ stmts' = Match(store, query, s, p, Substitute(pat.object, r.env))
             /\ row' = r /\ todo' = todo \ {r}
             /\ pc' = FirstClause(query)
  /\ Same(<<query, concept, k, found, answer>>)

\* retain_with_overlay, retain_policy_allows, retain_in_schema_lens
Retain(c) ==
  /\ pc = c /\ c \in Clauses
  /\ stmts' = {r \in stmts : Has(store, query, c, r.id)}
  /\ pc' = NextClause(query, c)
  /\ Same(<<query, concept, k, todo, found, row, answer>>)

\* As if the solution just extended were extended again.
Extend_again ==
  /\ pc = "extend"
  /\ pc' = "match" /\ stmts' = {} /\ row' = Nothing /\ todo' = todo \cup {row}
  /\ LET pat == query.patterns[k]
         kept == {r \in stmts : (query.expands = None \/ r.predicate \in concept) /\ Unifies(row.env, pat, r)}
     IN found' = found \cup {Solution(Bind(row.env, pat, r), Append(row.trail, r.id)) : r \in kept}
  /\ Same(<<query, concept, k, answer>>)

\* unify: what is left of the matched rows extends the solution.
Extend ==
  /\ pc = "extend"
  /\ LET pat == query.patterns[k]
         kept == {r \in stmts : (query.expands = None \/ r.predicate \in concept) /\ Unifies(row.env, pat, r)}
     IN found' = found \cup {Solution(Bind(row.env, pat, r), Append(row.trail, r.id)) : r \in kept}
  /\ pc' = "match" /\ stmts' = {} /\ row' = Nothing
  /\ Same(<<query, concept, k, todo, answer>>)

\* The pattern is done: on to the next, unless nothing is left or it was the last.
NextPattern ==
  /\ pc = "match" /\ todo = {}
  /\ IF found = {} \/ k = Len(query.patterns)
     THEN pc' = "order" /\ UNCHANGED <<k, todo, found>>
     ELSE k' = k + 1 /\ todo' = found /\ found' = {} /\ pc' = pc
  /\ Same(<<query, concept, row, stmts, answer>>)

Passing == {r \in found : \A i \in DOMAIN query.filters : Passes(query.filters[i], r.env)}

Returned(q, r, ev) == [env |-> Project(q, r.env), trail |-> r.trail, evidence |-> ev]

\* Filters, order and window.
Order ==
  /\ pc = "order"
  /\ \E w \in Windows(store, query, Passing) :
       /\ found' = w
       /\ pc' = IF query.evidence = "none" THEN "done" ELSE "evidence"
       /\ answer' = IF query.evidence = "none" THEN {Returned(query, r, {}) : r \in w} ELSE {}
  /\ Same(<<query, concept, k, todo, row, stmts>>)

\* load_evidence_for_rows
LoadEvidence ==
  /\ pc = "evidence"
  /\ answer' = {Returned(query, r, EvidenceOf(store, query, Last(r.trail))) : r \in found}
  /\ pc' = "done"
  /\ Same(<<query, concept, k, todo, found, row, stmts>>)

Calls == {"preset", "concept", "match", "order", "evidence"} \cup Clauses

\* A step that asks the database: none is asked about no rows.
Asks ==
  CASE pc = "preset" -> query.preset = "under_hypothesis"
    [] pc = "match" -> todo # {}
    [] pc \in Clauses -> stmts # {} /\ (pc \in {"modality", "level"} => query[pc] # <<>>)
    [] pc = "order" -> query.order # None
    [] pc = "evidence" -> found # {}
    [] OTHER -> pc = "concept"

\* A call fails, and with it the query.
CallFails ==
  /\ Asks
  /\ pc' = "failed" /\ Same(locals)

Evaluate ==
  \/ ApplyPreset \/ LoadConcept \/ (\E r \in todo : MatchRow(r)) \/ (\E c \in Clauses : Retain(c))
  \/ Extend \/ NextPattern \/ Order \/ LoadEvidence

-----------------------------------------------------------------------------
\* What a transaction of another client that began at a time changes: it stamps
\* periods with its beginning, and cannot close one that began no earlier.
Edited(st, e, at) ==
  CASE e.kind = "assert" /\ ~Born(st, e.of) -> [st EXCEPT !.lo[e.of] = at]
    [] e.kind = "retract" /\ Open(st, e.of) /\ st.lo[e.of] < at -> [st EXCEPT !.hi[e.of] = at]
    [] e.kind = "promote" -> [st EXCEPT !.maturity[e.of] = e.maturity]
    [] e.kind = "modality" -> [st EXCEPT !.modality[e.of] = e.modality]
    [] e.kind = "policy" -> [st EXCEPT !.allows[e.of] = e.allows]
    [] e.kind = "lens" -> [st EXCEPT !.lenses = @ \cup {<<e.of, e.lens>>}]
    [] e.kind = "argue" -> [st EXCEPT !.pressure[e.of] = e.pressure]
    [] e.kind = "context" -> [st EXCEPT !.hypotheses = @ \cup {e.of}]
    [] OTHER -> st

\* A transaction commits, one that is older than the query or one that began since.
Others(e) ==
  /\ edits < MaxEdits /\ pc \notin Ended
  /\ edits' = edits + 1 /\ now' = now + 1
  /\ \E at \in older \cup (began + 1)..(now + 1) : store' = Edited(store, e, at)
  /\ store' # store
  /\ past' = IF pc = "idle" THEN past ELSE past \cup {store'}
  /\ UNCHANGED <<older, pc, locals, began>>

-----------------------------------------------------------------------------
(* Properties *)

\* What a query means: the ways to assign its variables and a statement to
\* each pattern such that the pattern is the statement, and the statement one
\* the clauses admit.
Admitted(st, q, s) ==
  /\ Visible(st, q, s) /\ \A c \in Asked(q) : Has(st, q, c, s)
  /\ q.expands # None =>
       \/ Content[s].predicate = q.expands.concept
       \/ [concept |-> q.expands.concept, lens |-> q.expands.lens, to |-> Content[s].predicate] \in st.edges
Good(st, q) == {s \in Id : Admitted(st, q, s)}
Facts(q, trail, n) ==
  UNION {{<<q.patterns[i].subject, Iri(Content[trail[i]].subject)>>,
          <<q.patterns[i].predicate, Iri(Content[trail[i]].predicate)>>,
          <<q.patterns[i].object, Content[trail[i]].object>>} : i \in 1..n}
Solves(fs) == \A f \in fs : IF IsVar(f[1]) THEN \A g \in Of(fs, f[1].var) : g[2] = f[2] ELSE f[1] = f[2]
Trails(st, q, n) == {t \in [1..n -> Good(st, q)] : Solves(Facts(q, t, n))}
SolutionOf(q, t, n) == Solution([x \in VarsOf(Facts(q, t, n)) |-> Bound(Facts(q, t, n), x)], t)
Join(st, q, n) == {SolutionOf(q, t, n) : t \in Trails(st, q, n)}

\* A solution of the patterns before one puts a literal where it wants an IRI.
IllTyped(st, q) ==
  \E n \in 1..Len(q.patterns) : \E r \in Join(st, q, n - 1) :
    \E t \in {q.patterns[n].subject, q.patterns[n].predicate} : IsLiteral(Substitute(t, r.env))

\* A pattern is matched with a predicate that the closure takes to that of a
\* visible statement: one that it names, or one that another pattern may bind.
Bindable(q, i) ==
  LET p == q.patterns[i].predicate
  IN IsVar(p) /\ \E j \in DOMAIN q.patterns \ {i} :
       p \in {q.patterns[j].subject, q.patterns[j].predicate, q.patterns[j].object}
Aligned(st, q) ==
  \E i \in DOMAIN q.patterns, c \in st.closure, s \in Id :
    /\ q.patterns[i].predicate = Iri(c.of) \/ Bindable(q, i)
    /\ c.of # c.to /\ Expands(q, c)
    /\ Visible(st, q, s) /\ Content[s].predicate = c.to

\* The queries of which the documentation promises other rows than the code
\* returns: statements that are reached by expansion are dropped
\* (docs/DONTOQL.md:79, :228), identity is not expanded (:217-218), the graph of a
\* pattern is not looked at (:94), and the preset under_hypothesis without a
\* hypothesis does not return nothing (evaluator.rs:496).
Disputed(st, q) ==
  \/ Aligned(st, q)
  \/ q.identity \notin {"default", "strict"}
  \/ \E i \in DOMAIN q.patterns : q.patterns[i].graph # None
  \/ q.preset = "under_hypothesis" /\ st.hypotheses = {}

Meaning(st, q) ==
  {r \in Join(st, q, Len(q.patterns)) : \A i \in DOMAIN q.filters : Passes(q.filters[i], r.env)}

Answers(st, q) ==
  {{Returned(q, r, IF q.evidence = "none" THEN {} ELSE EvidenceOf(st, q, Last(r.trail))) : r \in w} :
     w \in Windows(st, q, Meaning(st, q))}

\* Time travel is repeatable, as far as the code grants it: a question about a
\* time that was past when it was asked, and before every transaction that was
\* still running then began, has the same answer whatever is asserted and
\* retracted between its calls, unless it also asks for something that has no
\* history - a maturity, an overlay, a policy, a lens, an order, evidence.
SettledTimes == {t \in 0..began : \A b \in older : t < b}
Settled(q) ==
  /\ q.asOf \in SettledTimes /\ q.maturity = 0 /\ Asked(q) = {}
  /\ q.order = None /\ q.evidence = "none" /\ q.expands = None
AsOfIsRepeatable ==
  pc = "done" /\ query.patterns # <<>> /\ Settled(query) =>
    \A st \in past : ~IllTyped(st, query) /\ answer \in Answers(st, query)

\* Nothing is shown that never was to be seen: whoever edits meanwhile, each
\* statement behind a row was in force, in scope, of the polarity and the
\* maturity asked for at some moment since the query was submitted, and at
\* some moment each overlay clause admitted it.
RowsWereVisible ==
  \A r \in answer : \A s \in Range(r.trail) :
    /\ \E st \in past : Visible(st, query, s)
    /\ \A c \in Asked(query) : \E st \in past : Has(st, query, c, s)
=============================================================================
