---------------------------- MODULE QueryProofs ----------------------------
(***************************************************************************)
(* Proofs about a query from its text to its rows, for any texts, stores,  *)
(* statements and edits of other clients.                                  *)
(***************************************************************************)
EXTENDS QueryCommand, FiniteSetTheorems, TLAPS

\* One of the given stores showed the statement, and for each clause asked one
\* admitted it.
Shown(q, sts, s) ==
  /\ s \in Id
  /\ \E st \in sts : E!Visible(st, q, s)
  /\ \A c \in E!Asked(q) : \E st \in sts : E!Has(st, q, c, s)

\* As far as the clauses before c, or all of them, have dropped what they do
\* not admit.
ShownBefore(q, sts, c, s) ==
  /\ s \in Id
  /\ \E st \in sts : E!Visible(st, q, s)
  /\ \A d \in E!Asked(q) : (c = "extend" \/ E!Rank[d] < E!Rank[c]) => \E st \in sts : E!Has(st, q, d, s)

\* The solutions rest on statements that were shown.
Rest(q, sts, rows) ==
  \A r \in rows : r.trail \in Seq(Id) /\ \A n \in DOMAIN r.trail : Shown(q, sts, r.trail[n])

\* Before the preset is applied nothing has been found.
Fresh ==
  /\ pc = "idle" => past = {}
  /\ pc \in {"idle", "preset"} => todo = {} /\ found = {} /\ answer = {} /\ row = E!Nothing /\ stmts = {}

ShownInv ==
  /\ Fresh
  /\ pc # "idle" => store \in past
  /\ Rest(asked, past, todo) /\ Rest(asked, past, found) /\ Rest(asked, past, answer)
  /\ Rest(asked, past, {row})
  /\ pc \in E!Clauses \cup {"extend"} => \A r \in stmts : ShownBefore(asked, past, pc, r.id)

-----------------------------------------------------------------------------
(* Clauses and solutions *)

LEMMA ClausesAre ==
  /\ E!Clauses = {"modality", "level", "policy", "lens"}
  /\ \A c, d \in E!Clauses : E!Rank[c] \in 1..4 /\ (E!Rank[c] = E!Rank[d] => c = d)
BY DEF E!Clauses, E!Rank

\* The first of some clauses is one of them, and none is before it.
LEMMA FirstIsFirst ==
  ASSUME NEW cs \in SUBSET E!Clauses
  PROVE  \/ cs = {} /\ E!FirstOf(cs) = "extend"
         \/ E!FirstOf(cs) \in cs /\ \A d \in cs : E!Rank[E!FirstOf(cs)] <= E!Rank[d]
<1>1. CASE cs = {}
  BY <1>1 DEF E!FirstOf
<1>2. CASE cs # {}
  <2>1. \E c \in cs : \A d \in cs : E!Rank[c] <= E!Rank[d]
    BY <1>2, ClausesAre DEF E!Clauses, E!Rank
  <2>. QED BY <1>2, <2>1 DEF E!FirstOf
<1>. QED BY <1>1, <1>2

\* What was shown stays shown, however many stores there are later.
LEMMA ShownStays ==
  ASSUME NEW q, NEW sts, NEW more, sts \subseteq more
  PROVE  /\ \A s : Shown(q, sts, s) => Shown(q, more, s)
         /\ \A c, s : ShownBefore(q, sts, c, s) => ShownBefore(q, more, c, s)
         /\ \A rows : Rest(q, sts, rows) => Rest(q, more, rows)
<1>1. \A s : Shown(q, sts, s) => Shown(q, more, s)
  BY DEF Shown
<1>2. \A c, s : ShownBefore(q, sts, c, s) => ShownBefore(q, more, c, s)
  BY DEF ShownBefore
<1>. QED BY <1>1, <1>2 DEF Rest

\* A row that a match returns is of a statement the store shows.
LEMMA MatchShows ==
  ASSUME NEW st, NEW q, NEW s, NEW p, NEW o, NEW r \in E!Match(st, q, s, p, o)
  PROVE  r.id \in Id /\ E!Visible(st, q, r.id)
BY DEF E!Match, E!RowOf

\* What a clause admits was shown before the next one looks at it.
LEMMA RetainShows ==
  ASSUME NEW q, NEW sts, NEW st \in sts, NEW c \in E!Clauses, NEW s,
         ShownBefore(q, sts, c, s), E!Has(st, q, c, s)
  PROVE  ShownBefore(q, sts, E!NextClause(q, c), s)
<1>1. \A d \in E!Asked(q) : E!Rank[d] <= E!Rank[c] => \E st2 \in sts : E!Has(st2, q, d, s)
  BY ClausesAre DEF ShownBefore, E!Asked
<1>2. \A d \in E!Asked(q) :
        E!NextClause(q, c) = "extend" \/ E!Rank[d] < E!Rank[E!NextClause(q, c)] =>
          E!Rank[d] <= E!Rank[c] \/ \E st2 \in sts : E!Has(st2, q, d, s)
  <2>1. {d \in E!Asked(q) : E!Rank[c] < E!Rank[d]} \in SUBSET E!Clauses
    BY DEF E!Asked
  <2>2. "extend" \notin E!Clauses
    BY ClausesAre
  <2>. QED BY <2>1, <2>2, FirstIsFirst, ClausesAre DEF E!NextClause, E!Asked
<1>. QED BY <1>1, <1>2 DEF ShownBefore

\* A solution extended by a statement rests on that statement, too.
LEMMA ExtendedRests ==
  ASSUME NEW q, NEW sts, NEW r, NEW env, NEW s, Rest(q, sts, {r}), Shown(q, sts, s)
  PROVE  Rest(q, sts, {E!Solution(env, Append(r.trail, s))})
<1>. DEFINE t == Append(r.trail, s)
<1>1. r.trail \in Seq(Id) /\ s \in Id
  BY DEF Rest, Shown
<1>2. t \in Seq(Id) /\ DOMAIN t = 1..(Len(r.trail) + 1)
  BY <1>1
<1>3. \A n \in DOMAIN t : t[n] = s \/ (n \in DOMAIN r.trail /\ t[n] = r.trail[n])
  BY <1>1
<1>4. \A n \in DOMAIN t : Shown(q, sts, t[n])
  BY <1>3 DEF Rest
<1>. QED BY <1>2, <1>4, SMTT(30) DEF Rest, E!Solution

LEMMA NothingRests ==
  ASSUME NEW q, NEW sts
  PROVE  Rest(q, sts, {}) /\ Rest(q, sts, {E!Nothing})
BY DEF Rest, E!Nothing, E!Solution

LEMMA RestOfSome ==
  ASSUME NEW q, NEW sts, NEW A, NEW B
  PROVE  /\ Rest(q, sts, A \cup B) <=> Rest(q, sts, A) /\ Rest(q, sts, B)
         /\ B \subseteq A /\ Rest(q, sts, A) => Rest(q, sts, B)
BY DEF Rest

-----------------------------------------------------------------------------
(* Nothing is shown that never was to be seen *)

\* What the calls of an evaluation have in common: the query stays, and so do
\* the stores there have been.
LEMMA ShownAtRest ==
  ASSUME ShownInv, UNCHANGED <<store, pc, asked, todo, found, row, stmts, answer, past>>
  PROVE  ShownInv'
BY DEF ShownInv, Fresh

LEMMA ShownSubmit ==
  ASSUME ShownInv, NEW r, E!Submit(r)
  PROVE  ShownInv'
<1>1. /\ pc = "idle" /\ pc' \in {"done", "preset"} /\ store' = store /\ past' = {store}
      /\ UNCHANGED <<todo, found, row, stmts, answer>>
  BY DEF E!Submit
<1>2. todo = {} /\ found = {} /\ answer = {} /\ row = E!Nothing /\ stmts = {}
  BY <1>1 DEF ShownInv, Fresh
<1>3. Rest(asked', past', {}) /\ Rest(asked', past', {E!Nothing})
  BY NothingRests
<1>4. pc' \notin E!Clauses \cup {"extend"}
  BY <1>1, ClausesAre
<1>. QED BY <1>1, <1>2, <1>3, <1>4 DEF ShownInv, Fresh

LEMMA ShownPreset ==
  ASSUME ShownInv, E!ApplyPreset
  PROVE  ShownInv'
<1>1. /\ pc = "preset" /\ pc' \in {"match", "concept", "unsupported"}
      /\ todo' \in {todo, {E!Nothing}}
      /\ UNCHANGED <<store, past, found, row, stmts, answer>>
  BY DEF E!ApplyPreset, E!Same
<1>2. todo = {} /\ found = {} /\ answer = {} /\ row = E!Nothing /\ stmts = {}
  BY <1>1 DEF ShownInv, Fresh
<1>3. Rest(asked', past', {}) /\ Rest(asked', past', {E!Nothing})
  BY NothingRests
<1>4. pc' \notin E!Clauses \cup {"extend"}
  BY <1>1, ClausesAre
<1>. QED BY <1>1, <1>2, <1>3, <1>4 DEF ShownInv, Fresh

LEMMA ShownConcept ==
  ASSUME ShownInv, E!LoadConcept
  PROVE  ShownInv'
<1>1. pc = "concept" /\ pc' = "match" /\ UNCHANGED <<store, past, asked, todo, found, row, stmts, answer>>
  BY DEF E!LoadConcept, E!Same
<1>2. pc' \notin E!Clauses \cup {"extend"}
  BY <1>1, ClausesAre
<1>. QED BY <1>1, <1>2 DEF ShownInv, Fresh

LEMMA ShownMatch ==
  ASSUME ShownInv, NEW r \in todo, E!MatchRow(r)
  PROVE  ShownInv'
<1>1. pc = "match" /\ UNCHANGED <<store, past, asked, found, answer>>
  BY DEF E!MatchRow, E!Same
<1>2. CASE pc' = "ill-typed" /\ UNCHANGED <<row, stmts, todo>>
  <2>1. pc' \notin E!Clauses \cup {"extend"}
    BY <1>2, ClausesAre
  <2>. QED BY <1>1, <1>2, <2>1 DEF ShownInv, Fresh
<1>3. CASE /\ \E s, p, o : stmts' = E!Match(store, asked, s, p, o)
           /\ row' = r /\ todo' = todo \ {r} /\ pc' = E!FirstClause(asked)
  <2>1. E!Asked(asked) \in SUBSET E!Clauses
    BY DEF E!Asked
  <2>2. pc' = "extend" \/ pc' \in E!Clauses
    BY <1>3, <2>1, FirstIsFirst DEF E!FirstClause
  <2>3. \A d \in E!Asked(asked) : ~(pc' = "extend" \/ E!Rank[d] < E!Rank[pc'])
    BY <1>3, <2>1, FirstIsFirst, ClausesAre DEF E!FirstClause
  <2>4. \A x \in stmts' : x.id \in Id /\ E!Visible(store, asked, x.id)
    BY <1>3, MatchShows
  <2>5. store \in past
    BY <1>1 DEF ShownInv
  <2>6. \A x \in stmts' : ShownBefore(asked, past, pc', x.id)
    BY <2>3, <2>4, <2>5 DEF ShownBefore
  <2>7. Rest(asked, past, todo') /\ Rest(asked, past, {row'})
    <3>1. todo' \subseteq todo /\ {row'} \subseteq todo
      BY <1>3
    <3>. QED BY <3>1, RestOfSome DEF ShownInv
  <2>8. pc' \notin {"idle", "preset"}
    BY <2>2, ClausesAre
  <2>. QED BY <1>1, <2>5, <2>6, <2>7, <2>8 DEF ShownInv, Fresh
<1>. QED BY <1>2, <1>3 DEF E!MatchRow

LEMMA ShownRetain ==
  ASSUME ShownInv, NEW c \in E!Clauses, E!Retain(c)
  PROVE  ShownInv'
<1>1. /\ pc = c /\ UNCHANGED <<store, past, asked, todo, found, row, answer>>
      /\ stmts' = {r \in stmts : E!Has(store, asked, c, r.id)}
      /\ pc' = E!NextClause(asked, c)
  BY DEF E!Retain, E!Same
<1>2. store \in past
  BY <1>1, ClausesAre DEF ShownInv
<1>3. \A r \in stmts' : ShownBefore(asked, past, pc', r.id)
  BY <1>1, <1>2, RetainShows DEF ShownInv
<1>4. pc' \in E!Clauses \cup {"extend"}
  <2>1. {d \in E!Asked(asked) : E!Rank[c] < E!Rank[d]} \in SUBSET E!Clauses
    BY DEF E!Asked
  <2>. QED BY <1>1, <2>1, FirstIsFirst DEF E!NextClause
<1>5. pc' \notin {"idle", "preset"}
  BY <1>4, ClausesAre
<1>. QED BY <1>1, <1>2, <1>3, <1>5 DEF ShownInv, Fresh

LEMMA ShownExtend ==
  ASSUME ShownInv, E!Extend
  PROVE  ShownInv'
<1>1. /\ pc = "extend" /\ pc' = "match" /\ stmts' = {} /\ row' = E!Nothing
      /\ UNCHANGED <<store, past, asked, todo, answer>>
  BY DEF E!Extend, E!Same
<1>2. PICK f, g : found' = found \cup {E!Solution(f[r], Append(row.trail, r.id)) : r \in g} /\ g \subseteq stmts
  <2>. DEFINE pat == asked.patterns[k]
              kept == {r \in stmts : (asked.expands = None \/ r.predicate \in concept) /\ E!Unifies(row.env, pat, r)}
              f == [r \in kept |-> E!Bind(row.env, pat, r)]
  <2>1. found' = found \cup {E!Solution(E!Bind(row.env, pat, r), Append(row.trail, r.id)) : r \in kept}
    BY DEF E!Extend
  <2>2. found' = found \cup {E!Solution(f[r], Append(row.trail, r.id)) : r \in kept}
    BY <2>1
  <2>3. kept \subseteq stmts
    OBVIOUS
  <2>. HIDE DEF kept, f
  <2>. WITNESS f, kept
  <2>. QED BY <2>2, <2>3
<1>3. \A r \in stmts : Shown(asked, past, r.id)
  BY <1>1 DEF ShownInv, ShownBefore, Shown
<1>4. Rest(asked, past, {row}) /\ Rest(asked, past, found)
  BY DEF ShownInv
<1>5. \A r \in g : Rest(asked, past, {E!Solution(f[r], Append(row.trail, r.id))})
  BY <1>2, <1>3, <1>4, ExtendedRests
<1>6. Rest(asked, past, found')
  BY <1>2, <1>4, <1>5 DEF Rest
<1>7. Rest(asked, past, {row'})
  BY <1>1, NothingRests
<1>8. pc' \notin E!Clauses \cup {"extend", "idle", "preset"}
  BY <1>1, ClausesAre
<1>. QED BY <1>1, <1>6, <1>7, <1>8 DEF ShownInv, Fresh

LEMMA ShownNextPattern ==
  ASSUME ShownInv, E!NextPattern
  PROVE  ShownInv'
<1>1. /\ pc = "match" /\ pc' \in {"match", "order"}
      /\ UNCHANGED <<store, past, asked, row, stmts, answer>>
      /\ todo' \in {todo, found} /\ found' \in {{}, found}
  BY DEF E!NextPattern, E!Same
<1>2. pc' \notin E!Clauses \cup {"extend", "idle", "preset"}
  BY <1>1, ClausesAre
<1>3. Rest(asked, past, todo') /\ Rest(asked, past, found')
  BY <1>1, NothingRests DEF ShownInv
<1>. QED BY <1>1, <1>2, <1>3 DEF ShownInv, Fresh

\* The rows returned are the solutions, with what was asked of them.
LEMMA ReturnedRests ==
  ASSUME NEW q, NEW sts, NEW rows, Rest(q, sts, rows), NEW more,
         \A x \in more : \E r \in rows : x.trail = r.trail
  PROVE  Rest(q, sts, more)
<1>1. \A x \in more : Rest(q, sts, {x})
  BY DEF Rest
<1>. QED BY <1>1 DEF Rest

LEMMA ShownOrder ==
  ASSUME ShownInv, E!Order
  PROVE  ShownInv'
<1>1. /\ pc = "order" /\ pc' \in {"done", "evidence"}
      /\ UNCHANGED <<store, past, asked, todo, row, stmts>>
  BY DEF E!Order, E!Same
<1>2. found' \subseteq found
  BY DEF E!Order, E!Windows, E!Passing
<1>3. \A x \in answer' : \E r \in found' : x.trail = r.trail
  BY DEF E!Order, E!Returned
<1>4. Rest(asked, past, found')
  BY <1>2, RestOfSome DEF ShownInv
<1>5. Rest(asked, past, answer')
  BY <1>3, <1>4, ReturnedRests
<1>6. pc' \notin E!Clauses \cup {"extend", "idle", "preset"}
  BY <1>1, ClausesAre
<1>. QED BY <1>1, <1>4, <1>5, <1>6 DEF ShownInv, Fresh

LEMMA ShownEvidence ==
  ASSUME ShownInv, E!LoadEvidence
  PROVE  ShownInv'
<1>1. /\ pc = "evidence" /\ pc' = "done"
      /\ UNCHANGED <<store, past, asked, todo, found, row, stmts>>
  BY DEF E!LoadEvidence, E!Same
<1>2. \A x \in answer' : \E r \in found : x.trail = r.trail
  BY DEF E!LoadEvidence, E!Returned
<1>3. Rest(asked, past, answer')
  BY <1>2, ReturnedRests DEF ShownInv
<1>4. pc' \notin E!Clauses \cup {"extend", "idle", "preset"}
  BY <1>1, ClausesAre
<1>. QED BY <1>1, <1>3, <1>4 DEF ShownInv, Fresh

LEMMA ShownFails ==
  ASSUME ShownInv, E!CallFails
  PROVE  ShownInv'
<1>1. /\ pc' = "failed" /\ UNCHANGED <<store, past, asked, todo, found, row, stmts, answer>>
  BY DEF E!CallFails, E!Same, E!locals
<1>2. pc # "idle"
  BY ClausesAre DEF E!CallFails, E!Asks
<1>3. pc' \notin E!Clauses \cup {"extend", "idle", "preset"}
  BY <1>1, ClausesAre
<1>. QED BY <1>1, <1>2, <1>3 DEF ShownInv, Fresh

LEMMA ShownOthers ==
  ASSUME ShownInv, NEW e, E!Others(e)
  PROVE  ShownInv'
<1>1. /\ UNCHANGED <<pc, asked, todo, found, row, stmts, answer>>
      /\ past' = IF pc = "idle" THEN past ELSE past \cup {store'}
  BY DEF E!Others, E!locals
<1>2. past \subseteq past'
  BY <1>1
<1>3. /\ \A rows : Rest(asked, past, rows) => Rest(asked, past', rows)
      /\ \A c, s : ShownBefore(asked, past, c, s) => ShownBefore(asked, past', c, s)
  BY <1>2, ShownStays
<1>4. Fresh' /\ (pc' # "idle" => store' \in past')
  BY <1>1 DEF ShownInv, Fresh
<1>5. Rest(asked', past', todo') /\ Rest(asked', past', found') /\ Rest(asked', past', answer') /\ Rest(asked', past', {row'})
  BY <1>1, <1>3 DEF ShownInv
<1>6. pc' \in E!Clauses \cup {"extend"} => \A r \in stmts' : ShownBefore(asked', past', pc', r.id)
  BY <1>1, <1>3 DEF ShownInv
<1>. QED BY <1>4, <1>5, <1>6 DEF ShownInv

\* Whoever edits meanwhile, each statement behind a row that is returned was in
\* force, in scope, of the polarity and the maturity asked for at some moment
\* since the query was asked, and at some moment each overlay clause admitted
\* it: for any texts, queries, stores and edits.
THEOREM RowsAreShown == Spec => []RowsWereVisible
<1>1. Init => ShownInv
  <2>1. ASSUME E!Init PROVE ShownInv
    <3>1. /\ pc = "idle" /\ past = {}
          /\ todo = {} /\ found = {} /\ row = E!Nothing /\ stmts = {} /\ answer = {}
      BY <2>1 DEF E!Init
    <3>2. Rest(asked, past, {}) /\ Rest(asked, past, {E!Nothing})
      BY NothingRests
    <3>3. pc \notin E!Clauses \cup {"extend"}
      BY <3>1, ClausesAre
    <3>. QED BY <3>1, <3>2, <3>3 DEF ShownInv, Fresh
  <2>. QED BY <2>1 DEF Init
<1>2. ShownInv /\ [Next]_vars => ShownInv'
  <2>. SUFFICES ASSUME ShownInv, [Next]_vars PROVE ShownInv'
    OBVIOUS
  <2>1. CASE Read \/ UNCHANGED vars
    BY <2>1, ShownAtRest DEF Read, vars, evaluation
  <2>2. CASE Ask
    BY <2>2, ShownSubmit DEF Ask
  <2>3. CASE Answer
    <3>1. CASE E!ApplyPreset
      BY <3>1, ShownPreset
    <3>2. CASE E!LoadConcept
      BY <3>2, ShownConcept
    <3>3. CASE \E r \in todo : E!MatchRow(r)
      BY <3>3, ShownMatch
    <3>4. CASE \E c \in E!Clauses : E!Retain(c)
      BY <3>4, ShownRetain
    <3>5. CASE E!Extend
      BY <3>5, ShownExtend
    <3>6. CASE E!NextPattern
      BY <3>6, ShownNextPattern
    <3>7. CASE E!Order
      BY <3>7, ShownOrder
    <3>8. CASE E!LoadEvidence
      BY <3>8, ShownEvidence
    <3>. QED BY <2>3, <3>1, <3>2, <3>3, <3>4, <3>5, <3>6, <3>7, <3>8 DEF Answer, E!Evaluate
  <2>4. CASE Fail
    BY <2>4, ShownFails DEF Fail
  <2>5. CASE OthersEdit
    BY <2>5, ShownOthers DEF OthersEdit
  <2>. QED BY <2>1, <2>2, <2>3, <2>4, <2>5 DEF Next, Handle
<1>3. ShownInv => RowsWereVisible
  <2>. SUFFICES ASSUME ShownInv, NEW r \in answer, NEW n \in DOMAIN r.trail
       PROVE  /\ \E st \in past : E!Visible(st, asked, r.trail[n])
              /\ \A c \in E!Asked(asked) : \E st \in past : E!Has(st, asked, c, r.trail[n])
    BY DEF RowsWereVisible, E!RowsWereVisible, E!Range, Range
  <2>. QED BY DEF ShownInv, Rest, Shown
<1>. QED BY <1>1, <1>2, <1>3, PTL DEF Spec

-----------------------------------------------------------------------------
(* The nested loops compute the join *)

\* A query as the parsers and the presets leave it: its patterns are a list.
IsQuery(q) ==
  /\ DOMAIN q = DOMAIN DefaultQuery
  /\ q.patterns \in Seq({q.patterns[i] : i \in DOMAIN q.patterns})

\* The query that is asked: what was read, under the preset the caller names.
Requested == IF preset = None THEN query ELSE [query EXCEPT !.preset = preset]

\* The tables of the moments of an evaluation are tables, and agree on what was
\* in force at every settled time.
StoresOK ==
  /\ now \in Nat /\ began \in 0..now /\ older \subseteq Nat
  /\ pc # "idle" => store \in past
  /\ \A st \in past \cup {store} : E!IsStore(st)
  /\ \A st \in past : \A t \in E!SettledTimes, s \in Id : E!InForce(st, s, t) <=> E!InForce(store, s, t)

Loops == {"match", "extend"} \cup E!Clauses

\* The evaluation has a query with its preset applied.
Evaluated == pc \in Loops \cup {"concept", "order", "evidence", "ill-typed"} \/ (pc = "done" /\ asked.patterns # <<>>)

\* The queries: the one that was read, and the one that was asked.
AskedOK ==
  /\ IsQuery(query) /\ IsQuery(asked)
  /\ pc = "idle" => past = {}
  /\ pc # "idle" => status = "parsed" /\ asked.patterns = query.patterns
  /\ pc = "preset" => asked = Requested /\ asked.patterns # <<>>
  /\ Evaluated => asked.patterns # <<>>
  /\ Evaluated /\ past = {store} => asked = E!WithPreset(store, Requested)

\* The loop over the patterns is where it is, and has begun with nothing.
LoopsOK ==
  /\ pc \in {"idle", "preset", "concept"} => k = 1 /\ found = {}
  /\ pc = "concept" => todo = {E!Nothing}
  /\ pc \in Loops => k \in 1..Len(asked.patterns)
  /\ pc \in E!Clauses => pc \in E!Asked(asked)
  /\ pc \in Loops /\ asked.expands # None /\ past = {store} =>
       concept = {asked.expands.concept} \cup
         {e.to : e \in {x \in store.edges : x.concept = asked.expands.concept /\ x.lens = asked.expands.lens}}

\* The answer can be told from the tables as they are: nobody has edited them
\* since the query was asked, or it asks for nothing an edit can change.
Steady == E!Settled(asked) \/ past = {store}

\* The first statements of a trail, and the trails still to be extended.
Until(t, n) == [i \in 1..n |-> t[i]]
Waiting == {r.trail : r \in todo} \cup (IF pc = "match" THEN {} ELSE {row.trail})

\* A solution that puts no literal where the n-th pattern wants an IRI.
Proper(q, n, r) ==
  /\ ~E!IsLiteral(E!Substitute(q.patterns[n].subject, r.env))
  /\ ~E!IsLiteral(E!Substitute(q.patterns[n].predicate, r.env))
ProperBefore(st, q, n) == \A m \in 1..n : \A r \in E!Join(st, q, m - 1) : Proper(q, m, r)

\* The rows a pattern matches for a solution.
Matched(st, q, n, r) ==
  E!Match(st, q, E!Substitute(q.patterns[n].subject, r.env),
          E!Substitute(q.patterns[n].predicate, r.env), E!Substitute(q.patterns[n].object, r.env))

\* What has been found are the solutions of the patterns up to this one that
\* extend those already treated.
MatchedOK ==
  pc \in Loops /\ Steady =>
    /\ todo \subseteq E!Join(store, asked, k - 1)
    /\ ProperBefore(store, asked, k - 1)
    /\ \A r \in E!Join(store, asked, k - 1) : r \in todo \/ Proper(asked, k, r)
    /\ found = {E!SolutionOf(asked, t, k) :
                  t \in {u \in E!Trails(store, asked, k) : Until(u, k - 1) \notin Waiting}}

\* The rows being treated are what the clauses so far have left of the match.
RowsOK ==
  pc \in Loops \ {"match"} /\ Steady =>
    /\ row \in E!Join(store, asked, k - 1) \ todo
    /\ stmts = {x \in Matched(store, asked, k, row) :
                  \A d \in E!Asked(asked) : pc = "extend" \/ E!Rank[d] < E!Rank[pc] => E!Has(store, asked, d, x.id)}

\* After the loops: the join, its windows, the answer.
AnsweredOK ==
  Steady =>
    /\ Evaluated /\ pc \in {"order", "evidence", "done"} => ~E!IllTyped(store, asked)
    /\ pc = "ill-typed" => E!IllTyped(store, asked)
    /\ pc = "order" => found = E!Join(store, asked, Len(asked.patterns))
    /\ pc = "evidence" => /\ asked.evidence # "none"
                          /\ found \in E!Windows(store, asked, E!Meaning(store, asked))
    /\ Evaluated /\ pc = "done" => answer \in E!Answers(store, asked)

JoinInv == StoresOK /\ AskedOK /\ LoopsOK /\ MatchedOK /\ RowsOK /\ AnsweredOK

-----------------------------------------------------------------------------
(* Empty functions *)

LEMMA EmptyFunction ==
  ASSUME NEW f, DOMAIN f = {}, f = [x \in DOMAIN f |-> f[x]]
  PROVE  f = <<>>
OBVIOUS

LEMMA EmptyList ==
  ASSUME NEW G
  PROVE  [1..0 -> G] = {<<>>}
<1>1. <<>> \in [1..0 -> G]
  OBVIOUS
<1>2. ASSUME NEW f \in [1..0 -> G] PROVE f = <<>>
  OBVIOUS
<1>. QED BY <1>1, <1>2

-----------------------------------------------------------------------------
(* Edits *)

USE NoneIsNoTime

\* Tables whose times, maturities, closure and concepts are such are tables.
LEMMA TablesAre ==
  ASSUME NEW st, E!IsStore(st), NEW f \in E!Tables \ {"closure", "edges"}, NEW v,
         f \in {"lo", "hi"} => v \in [Id -> Nat \cup {None}],
         f = "maturity" => v \in [Id -> Nat]
  PROVE  /\ E!IsStore([st EXCEPT ![f] = v])
         /\ [st EXCEPT ![f] = v].closure = st.closure
         /\ [st EXCEPT ![f] = v].lo = IF f = "lo" THEN v ELSE st.lo
         /\ [st EXCEPT ![f] = v].hi = IF f = "hi" THEN v ELSE st.hi
<1>. DEFINE st2 == [st EXCEPT ![f] = v]
<1>1. DOMAIN st = E!Tables
  BY DEF E!IsStore
<1>2. DOMAIN st2 = E!Tables /\ st2[f] = v /\ \A g \in E!Tables \ {f} : st2[g] = st[g]
  BY <1>1
<1>3. /\ st2.closure = st.closure /\ st2.edges = st.edges
      /\ st2.lo = (IF f = "lo" THEN v ELSE st.lo) /\ st2.hi = (IF f = "hi" THEN v ELSE st.hi)
      /\ st2.maturity = (IF f = "maturity" THEN v ELSE st.maturity)
  BY <1>2 DEF E!Tables
<1>4. {st2.lo, st2.hi} \subseteq [Id -> Nat \cup {None}] /\ st2.maturity \in [Id -> Nat]
  BY <1>3 DEF E!IsStore
<1>. HIDE DEF st2
<1>5. E!IsStore(st2)
  BY <1>2, <1>3, <1>4 DEF E!IsStore
<1>. QED BY <1>3, <1>5 DEF st2

\* An edit leaves tables, leaves the closure, and leaves what was in force at
\* any time before its stamp.
LEMMA EditLeaves ==
  ASSUME NEW st, E!IsStore(st), NEW n \in Nat, NEW e \in Edit
  PROVE  /\ E!IsStore(E!Edited(st, e, n))
         /\ E!Edited(st, e, n).closure = st.closure
         /\ \A t \in Nat, s \in Id : t < n => (E!InForce(E!Edited(st, e, n), s, t) <=> E!InForce(st, s, t))
<1>1. /\ st.lo \in [Id -> Nat \cup {None}] /\ st.hi \in [Id -> Nat \cup {None}] /\ st.maturity \in [Id -> Nat]
  BY DEF E!IsStore
<1>2. CASE e.kind = "assert" /\ ~E!Born(st, e.of)
  <2>. DEFINE v == [st.lo EXCEPT ![e.of] = n]
  <2>1. E!Edited(st, e, n) = [st EXCEPT !["lo"] = v]
    BY <1>2 DEF E!Edited
  <2>2. v \in [Id -> Nat \cup {None}] /\ \A s \in Id : v[s] = IF s = e.of THEN n ELSE st.lo[s]
    BY <1>1
  <2>. HIDE DEF v
  <2>3. /\ E!IsStore([st EXCEPT !["lo"] = v]) /\ [st EXCEPT !["lo"] = v].closure = st.closure
        /\ [st EXCEPT !["lo"] = v].lo = v /\ [st EXCEPT !["lo"] = v].hi = st.hi
    BY <2>2, TablesAre DEF E!Tables
  <2>. HIDE DEF E!IsStore
  <2>4. \A t \in Nat, s \in Id : t < n => (E!InForce([st EXCEPT !["lo"] = v], s, t) <=> E!InForce(st, s, t))
    BY <1>1, <1>2, <2>2, <2>3 DEF E!InForce, E!Born
  <2>. QED BY <2>1, <2>3, <2>4
<1>3. CASE e.kind = "retract" /\ E!Open(st, e.of) /\ st.lo[e.of] < n
  <2>. DEFINE v == [st.hi EXCEPT ![e.of] = n]
  <2>1. E!Edited(st, e, n) = [st EXCEPT !["hi"] = v]
    BY <1>3 DEF E!Edited
  <2>2. v \in [Id -> Nat \cup {None}] /\ \A s \in Id : v[s] = IF s = e.of THEN n ELSE st.hi[s]
    BY <1>1
  <2>. HIDE DEF v
  <2>3. /\ E!IsStore([st EXCEPT !["hi"] = v]) /\ [st EXCEPT !["hi"] = v].closure = st.closure
        /\ [st EXCEPT !["hi"] = v].lo = st.lo /\ [st EXCEPT !["hi"] = v].hi = v
    BY <2>2, TablesAre DEF E!Tables
  <2>4. \A t \in Nat, s \in Id : t < n => (E!InForce([st EXCEPT !["hi"] = v], s, t) <=> E!InForce(st, s, t))
    BY <1>1, <1>3, <2>2, <2>3 DEF E!InForce, E!Born, E!Open
  <2>. QED BY <2>1, <2>3, <2>4
<1>4. CASE \E f \in E!Tables \ {"closure", "edges", "lo", "hi"} : \E v :
             E!Edited(st, e, n) = [st EXCEPT ![f] = v] /\ (f = "maturity" => v \in [Id -> Nat])
  <2>0. PICK f \in E!Tables \ {"closure", "edges", "lo", "hi"} : \E v :
          E!Edited(st, e, n) = [st EXCEPT ![f] = v] /\ (f = "maturity" => v \in [Id -> Nat])
    BY <1>4
  <2>1. PICK v :
          E!Edited(st, e, n) = [st EXCEPT ![f] = v] /\ (f = "maturity" => v \in [Id -> Nat])
    BY <2>0
  <2>2. /\ E!IsStore([st EXCEPT ![f] = v]) /\ [st EXCEPT ![f] = v].closure = st.closure
        /\ [st EXCEPT ![f] = v].lo = st.lo /\ [st EXCEPT ![f] = v].hi = st.hi
    <3>. DEFINE st2 == [st EXCEPT ![f] = v]
    <3>1. DOMAIN st = E!Tables
      BY DEF E!IsStore
    <3>2. DOMAIN st2 = E!Tables /\ \A g \in E!Tables : st2[g] = IF g = f THEN v ELSE st[g]
      BY <3>1
    <3>. HIDE DEF st2
    <3>3. /\ st2.closure = st.closure /\ st2.edges = st.edges /\ st2.lo = st.lo /\ st2.hi = st.hi
          /\ st2.maturity \in [Id -> Nat]
      BY <1>1, <2>1, <3>2 DEF E!Tables
    <3>4. E!IsStore(st2)
      BY <3>2, <3>3 DEF E!IsStore
    <3>. QED BY <3>3, <3>4 DEF st2
  <2>. QED BY <2>1, <2>2 DEF E!InForce, E!Born, E!Open
<1>5. CASE e.kind = "promote"
  <2>. DEFINE v == [st.maturity EXCEPT ![e.of] = e.maturity]
  <2>1. E!Edited(st, e, n) = [st EXCEPT !["maturity"] = v]
    BY <1>5 DEF E!Edited
  <2>2. v \in [Id -> Nat]
    BY <1>1, <1>5, MaturitiesAreNumbers
  <2>. QED BY <2>1, <2>2, <1>4 DEF E!Tables
<1>6. CASE e.kind \in {"modality", "policy", "lens", "argue", "context"}
  <2>1. E!Edited(st, e, n) \in {[st EXCEPT !["modality"] = [st.modality EXCEPT ![e.of] = e.modality]],
                             [st EXCEPT !["allows"] = [st.allows EXCEPT ![e.of] = e.allows]],
                             [st EXCEPT !["lenses"] = st.lenses \cup {<<e.of, e.lens>>}],
                             [st EXCEPT !["pressure"] = [st.pressure EXCEPT ![e.of] = e.pressure]],
                             [st EXCEPT !["hypotheses"] = st.hypotheses \cup {e.of}]}
    BY <1>6 DEF E!Edited
  <2>. QED BY <2>1, <1>4 DEF E!Tables
<1>7. CASE E!Edited(st, e, n) = st
  BY <1>7
<1>. QED BY <1>2, <1>3, <1>5, <1>6, <1>7 DEF E!Edited

-----------------------------------------------------------------------------
(* Facts and bindings *)

Env(fs) == [x \in E!VarsOf(fs) |-> E!Bound(fs, x)]

\* Consistent facts bind each variable to what it faces in any of them.
LEMMA BoundIs ==
  ASSUME NEW fs, E!Solves(fs), NEW f \in fs, E!IsVar(f[1])
  PROVE  f[1].var \in E!VarsOf(fs) /\ E!Bound(fs, f[1].var) = f[2]
<1>1. f \in E!Of(fs, f[1].var)
  BY DEF E!Of
<1>2. \A g \in E!Of(fs, f[1].var) : g[2] = f[2]
  BY DEF E!Solves
<1>3. E!Bound(fs, f[1].var) = f[2]
  BY <1>1, <1>2 DEF E!Bound
<1>. QED BY <1>3 DEF E!VarsOf

LEMMA FewerSolve ==
  ASSUME NEW fs, NEW gs, gs \subseteq fs, E!Solves(fs)
  PROVE  E!Solves(gs)
BY DEF E!Solves, E!Of

\* A variable of some facts faces something in one of them.
LEMMA VarsFace ==
  ASSUME NEW fs, NEW x \in E!VarsOf(fs)
  PROVE  \E f \in fs : E!IsVar(f[1]) /\ f[1].var = x
BY DEF E!VarsOf

\* A row extends a binding just when its facings are consistent with the facts
\* the binding is made of.
LEMMA UnifyingSolves ==
  ASSUME NEW fs, E!Solves(fs), NEW pat, NEW r
  PROVE  E!Unifies(Env(fs), pat, r) <=> E!Solves(fs \cup E!Facing(pat, r))
<1>. DEFINE new == E!Facing(pat, r)
            e == Env(fs)
<1>. HIDE DEF new
<1>1. DOMAIN e = E!VarsOf(fs)
  BY DEF Env
<1>2. \A f \in fs : E!IsVar(f[1]) => f[1].var \in DOMAIN e /\ e[f[1].var] = f[2]
  BY BoundIs DEF Env
<1>3. \A x \in DOMAIN e : \E f \in fs : E!IsVar(f[1]) /\ f[1].var = x
  BY <1>1, VarsFace
<1>. HIDE DEF e
<1>4. ASSUME E!Unifies(e, pat, r) PROVE E!Solves(fs \cup new)
  <2>. SUFFICES ASSUME NEW f \in fs \cup new
       PROVE  IF E!IsVar(f[1]) THEN \A g \in E!Of(fs \cup new, f[1].var) : g[2] = f[2] ELSE f[1] = f[2]
    BY DEF E!Solves
  <2>1. \A h \in new : IF ~E!IsVar(h[1]) THEN h[1] = h[2]
                       ELSE IF h[1].var \in DOMAIN e THEN e[h[1].var] = h[2]
                       ELSE \A g \in new : E!IsVar(g[1]) /\ g[1].var = h[1].var => g[2] = h[2]
    BY <1>4 DEF E!Unifies, E!Of, new
  <2>2. CASE ~E!IsVar(f[1])
    BY <2>1, <2>2 DEF E!Solves
  <2>3. CASE E!IsVar(f[1])
    <3>1. ASSUME NEW g \in fs \cup new, E!IsVar(g[1]), g[1].var = f[1].var PROVE g[2] = f[2]
      <4>1. CASE f[1].var \in DOMAIN e
        <5>1. e[f[1].var] = f[2]
          BY <1>2, <2>1, <2>3, <4>1
        <5>2. e[g[1].var] = g[2]
          BY <1>2, <2>1, <3>1, <4>1
        <5>. QED BY <3>1, <5>1, <5>2
      <4>2. CASE f[1].var \notin DOMAIN e
        BY <1>2, <2>1, <2>3, <3>1, <4>2
      <4>. QED BY <4>1, <4>2
    <3>. QED BY <2>3, <3>1 DEF E!Of
  <2>. QED BY <2>2, <2>3
<1>5. ASSUME E!Solves(fs \cup new) PROVE E!Unifies(e, pat, r)
  <2>. SUFFICES ASSUME NEW f \in new
       PROVE  IF ~E!IsVar(f[1]) THEN f[1] = f[2]
              ELSE IF f[1].var \in DOMAIN e THEN e[f[1].var] = f[2]
              ELSE \A g \in E!Of(new, f[1].var) : g[2] = f[2]
    BY DEF E!Unifies, new
  <2>1. IF E!IsVar(f[1]) THEN \A g \in fs \cup new : E!IsVar(g[1]) /\ g[1].var = f[1].var => g[2] = f[2] ELSE f[1] = f[2]
    BY <1>5 DEF E!Solves, E!Of
  <2>2. E!IsVar(f[1]) /\ f[1].var \in DOMAIN e => e[f[1].var] = f[2]
    BY <1>2, <1>3, <2>1
  <2>. QED BY <2>1, <2>2 DEF E!Of
<1>. QED BY <1>4, <1>5 DEF e, new

\* The binding it then makes is the one of all the facts.
LEMMA BindingBinds ==
  ASSUME NEW fs, NEW pat, NEW r, E!Solves(fs \cup E!Facing(pat, r))
  PROVE  E!Bind(Env(fs), pat, r) = Env(fs \cup E!Facing(pat, r))
<1>. DEFINE new == E!Facing(pat, r)
<1>. HIDE DEF new
<1>1. E!Solves(fs) /\ E!Solves(new) /\ E!Solves(fs \cup new)
  BY FewerSolve DEF new
<1>2. E!VarsOf(fs \cup new) = E!VarsOf(fs) \cup E!VarsOf(new)
  BY DEF E!VarsOf
<1>3. \A x \in E!VarsOf(fs) : E!Bound(fs, x) = E!Bound(fs \cup new, x)
  <2>. SUFFICES ASSUME NEW x \in E!VarsOf(fs) PROVE E!Bound(fs, x) = E!Bound(fs \cup new, x)
    OBVIOUS
  <2>1. PICK f \in fs : E!IsVar(f[1]) /\ f[1].var = x
    BY VarsFace
  <2>2. E!Bound(fs, x) = f[2]
    BY <1>1, <2>1, BoundIs
  <2>3. E!Bound(fs \cup new, x) = f[2]
    BY <1>1, <2>1, BoundIs
  <2>. QED BY <2>2, <2>3
<1>4. \A x \in E!VarsOf(new) : E!Bound(new, x) = E!Bound(fs \cup new, x)
  <2>. SUFFICES ASSUME NEW x \in E!VarsOf(new) PROVE E!Bound(new, x) = E!Bound(fs \cup new, x)
    OBVIOUS
  <2>1. PICK f \in new : E!IsVar(f[1]) /\ f[1].var = x
    BY VarsFace
  <2>2. E!Bound(new, x) = f[2]
    BY <1>1, <2>1, BoundIs
  <2>3. E!Bound(fs \cup new, x) = f[2]
    BY <1>1, <2>1, BoundIs
  <2>. QED BY <2>2, <2>3
<1>5. E!Bind(Env(fs), pat, r) = [x \in E!VarsOf(fs) \cup E!VarsOf(new) |->
                                   IF x \in E!VarsOf(fs) THEN E!Bound(fs, x) ELSE E!Bound(new, x)]
  BY DEF E!Bind, Env, new
<1>6. E!Bind(Env(fs), pat, r) = [x \in E!VarsOf(fs) \cup E!VarsOf(new) |-> E!Bound(fs \cup new, x)]
  BY <1>3, <1>4, <1>5
<1>. QED BY <1>2, <1>6 DEF Env, new

-----------------------------------------------------------------------------
(* Trails *)

LEMMA FactsAre ==
  ASSUME NEW q, NEW t, NEW n
  PROVE  E!Facts(q, t, n) = UNION {E!Facing(q.patterns[i], E!RowOf(t[i])) : i \in 1..n}
BY DEF E!Facts, E!Facing, E!RowOf

\* The first part of a trail is a trail.
LEMMA BeginningsAreTrails ==
  ASSUME NEW st, NEW q, NEW n \in Nat, NEW m \in 0..n, NEW u \in E!Trails(st, q, n)
  PROVE  Until(u, m) \in E!Trails(st, q, m)
<1>1. u \in [1..n -> E!Good(st, q)] /\ E!Solves(E!Facts(q, u, n))
  BY DEF E!Trails
<1>2. Until(u, m) \in [1..m -> E!Good(st, q)] /\ \A i \in 1..m : i \in 1..n /\ Until(u, m)[i] = u[i]
  BY <1>1 DEF Until
<1>3. E!Facts(q, Until(u, m), m) \subseteq E!Facts(q, u, n)
  BY <1>2, FactsAre
<1>4. E!Solves(E!Facts(q, Until(u, m), m))
  BY <1>1, <1>3, FewerSolve
<1>. QED BY <1>2, <1>4 DEF E!Trails

LEMMA FactsOfOneMore ==
  ASSUME NEW q, NEW n \in Nat, NEW t, NEW u, \A i \in 1..n : u[i] = t[i]
  PROVE  E!Facts(q, u, n + 1) = E!Facts(q, t, n) \cup E!Facing(q.patterns[n + 1], E!RowOf(u[n + 1]))
<1>1. 1..(n + 1) = 1..n \cup {n + 1}
  OBVIOUS
<1>. DEFINE F(i) == E!Facing(q.patterns[i], E!RowOf(u[i]))
<1>2. E!Facts(q, u, n + 1) = UNION {F(i) : i \in 1..(n + 1)}
  BY FactsAre
<1>3. E!Facts(q, t, n) = UNION {F(i) : i \in 1..n}
  BY FactsAre
<1>. HIDE DEF F
<1>4. UNION {F(i) : i \in 1..(n + 1)} = (UNION {F(i) : i \in 1..n}) \cup F(n + 1)
  BY <1>1
<1>. QED BY <1>2, <1>3, <1>4 DEF F

\* Trails are sequences; one more statement makes one of the next trails.
Lists(G, n) == [1..n -> G]

Longer(u, t, s, G, n) ==
  u \in Lists(G, n + 1) /\ u[n + 1] = s /\ (\A i \in 1..n : u[i] = t[i]) /\ Until(u, n) = t

LEMMA OneMore ==
  ASSUME NEW G, NEW n \in Nat, NEW t \in Lists(G, n), NEW s \in G, NEW u, u = Append(t, s)
  PROVE  Longer(u, t, s, G, n)
<1>1. t \in Seq(G) /\ Len(t) = n
  BY DEF Lists
<1>2. u \in Seq(G) /\ Len(u) = n + 1 /\ u[n + 1] = s
  BY <1>1
<1>3. \A i \in 1..n : u[i] = t[i]
  BY <1>1
<1>4. u \in [1..(n + 1) -> G]
  BY ONLY n \in Nat, <1>2
<1>5. Until(u, n) = t
  BY <1>3, <1>4 DEF Until, Lists
<1>. QED BY <1>2, <1>3, <1>4, <1>5 DEF Lists, Longer

LEMMA OneLess ==
  ASSUME NEW G, NEW n \in Nat, NEW u \in Lists(G, n + 1)
  PROVE  Until(u, n) \in Lists(G, n) /\ u[n + 1] \in G /\ u = Append(Until(u, n), u[n + 1])
<1>1. Until(u, n) \in Lists(G, n) /\ u[n + 1] \in G /\ \A i \in 1..n : Until(u, n)[i] = u[i]
  BY DEF Until, Lists
<1>2. PICK v : v = Append(Until(u, n), u[n + 1])
  OBVIOUS
<1>. DEFINE t == Until(u, n)
            s == u[n + 1]
<1>. HIDE DEF t, s
<1>6. t \in Lists(G, n) /\ s \in G /\ v = Append(t, s)
  BY <1>1, <1>2 DEF t, s
<1>7. Longer(v, t, s, G, n)
  BY <1>6, OneMore
<1>3. v \in Lists(G, n + 1) /\ v[n + 1] = u[n + 1] /\ \A i \in 1..n : v[i] = Until(u, n)[i]
  BY <1>7 DEF Longer, t, s
<1>4. \A i \in 1..(n + 1) : v[i] = u[i]
  <2>1. \A i \in 1..(n + 1) : i \in 1..n \/ i = n + 1
    OBVIOUS
  <2>. QED BY <1>1, <1>3, <2>1
<1>5. v = u
  BY <1>3, <1>4 DEF Lists
<1>. QED BY <1>1, <1>2, <1>5

-----------------------------------------------------------------------------
(* Matches *)

\* A row that is matched and unified is a visible statement as it was asserted:
\* of a swapped one the predicate differs from the pattern's.
LEMMA UnifiedAreVisible ==
  ASSUME NEW st, E!IsStore(st), NEW q, NEW n, NEW r, NEW x \in Matched(st, q, n, r),
         E!Unifies(r.env, q.patterns[n], x)
  PROVE  x.id \in Id /\ E!Visible(st, q, x.id) /\ x = E!RowOf(x.id)
<1>. DEFINE pat == q.patterns[n]
            s == E!Substitute(pat.subject, r.env)
            p == E!Substitute(pat.predicate, r.env)
            o == E!Substitute(pat.object, r.env)
            near(y) == {c \in st.closure : /\ E!Iri(c.of) = p /\ c.to = Content[y].predicate
                                           /\ E!Expands(q, c)}
            swapped(y) == [id |-> y, subject |-> Content[y].object.iri, predicate |-> Content[y].predicate,
                           object |-> E!Iri(Content[y].subject)]
<1>1. \/ \E y \in Id : E!Visible(st, q, y) /\ x = E!RowOf(y)
      \/ \E y \in Id : E!Visible(st, q, y) /\ x = swapped(y) /\ \E c \in near(y) : c.swap
  BY DEF Matched, E!Match
<1>2. ASSUME NEW y \in Id, x = swapped(y), NEW c \in near(y), c.swap PROVE FALSE
  <2>1. x.predicate = Content[y].predicate /\ E!Iri(c.of) = p /\ c.to = x.predicate /\ c \in st.closure
    BY <1>2
  <2>2. <<pat.predicate, E!Iri(x.predicate)>> \in E!Facing(pat, x)
    BY DEF E!Facing
  <2>3. IF ~E!IsVar(pat.predicate) THEN pat.predicate = E!Iri(x.predicate)
        ELSE pat.predicate.var \in DOMAIN r.env => r.env[pat.predicate.var] = E!Iri(x.predicate)
    BY <2>2 DEF E!Unifies
  <2>4. ~E!IsVar(E!Iri(c.of))
    BY DEF E!IsVar, E!Iri
  <2>5. p = E!Iri(x.predicate)
    BY <2>1, <2>3, <2>4 DEF E!Substitute
  <2>6. c.of = x.predicate
    BY <2>1, <2>5 DEF E!Iri
  <2>. QED BY <1>2, <2>1, <2>6 DEF E!IsStore
<1>3. PICK y \in Id : E!Visible(st, q, y) /\ x = E!RowOf(y)
  BY <1>1, <1>2
<1>. QED BY <1>3 DEF E!RowOf

\* A visible statement whose row unifies is matched.
LEMMA VisibleAreMatched ==
  ASSUME NEW st, NEW q, NEW n, NEW r, NEW y \in Id, E!Visible(st, q, y),
         E!Unifies(r.env, q.patterns[n], E!RowOf(y))
  PROVE  E!RowOf(y) \in Matched(st, q, n, r)
<1>. DEFINE pat == q.patterns[n]
            x == E!RowOf(y)
<1>1. x = [id |-> y, subject |-> Content[y].subject, predicate |-> Content[y].predicate,
           object |-> Content[y].object]
  BY DEF E!RowOf
<1>2. {<<pat.subject, E!Iri(Content[y].subject)>>, <<pat.predicate, E!Iri(Content[y].predicate)>>,
       <<pat.object, Content[y].object>>} = E!Facing(pat, x)
  BY <1>1 DEF E!Facing
<1>3. ASSUME NEW a, NEW b, <<a, b>> \in E!Facing(pat, x)
      PROVE  E!IsVar(E!Substitute(a, r.env)) \/ E!Substitute(a, r.env) = b
  <2>1. IF ~E!IsVar(a) THEN a = b ELSE a.var \in DOMAIN r.env => r.env[a.var] = b
    BY <1>3 DEF E!Unifies
  <2>. QED BY <2>1 DEF E!Substitute
<1>4. /\ E!Wanted(E!Substitute(pat.subject, r.env), Content[y].subject)
      /\ E!Wanted(E!Substitute(pat.predicate, r.env), Content[y].predicate)
      /\ E!WantedObject(E!Substitute(pat.object, r.env), Content[y].object)
  BY <1>2, <1>3 DEF E!Wanted, E!WantedObject
<1>. QED BY <1>4 DEF Matched, E!Match

\* The predicates of EXPANDS_FROM are those of the concept.
Concepts(st, q) ==
  {q.expands.concept} \cup
    {e.to : e \in {x \in st.edges : x.concept = q.expands.concept /\ x.lens = q.expands.lens}}

LEMMA ConceptsAdmit ==
  ASSUME NEW st, E!IsStore(st), NEW q, NEW p
  PROVE  p \in Concepts(st, q) <=>
           \/ p = q.expands.concept
           \/ [concept |-> q.expands.concept, lens |-> q.expands.lens, to |-> p] \in st.edges
<1>. DEFINE e == [concept |-> q.expands.concept, lens |-> q.expands.lens, to |-> p]
<1>1. e.concept = q.expands.concept /\ e.lens = q.expands.lens /\ e.to = p
  OBVIOUS
<1>2. \A x \in st.edges : x.concept = q.expands.concept /\ x.lens = q.expands.lens /\ x.to = p => x = e
  BY DEF E!IsStore
<1>. HIDE DEF e
<1>3. (\E x \in st.edges : x.concept = q.expands.concept /\ x.lens = q.expands.lens /\ x.to = p) <=> e \in st.edges
  BY <1>1, <1>2
<1>. QED BY <1>3 DEF Concepts, e

\* The rows of a match that are kept, what they make of a solution, and the
\* solutions that go on from a trail.
KeptRows(st, q, n, r, cs) ==
  {x \in Matched(st, q, n, r) :
     /\ \A d \in E!Asked(q) : E!Has(st, q, d, x.id)
     /\ q.expands = None \/ x.predicate \in cs
     /\ E!Unifies(r.env, q.patterns[n], x)}
Extensions(q, n, r, xs) ==
  {E!Solution(E!Bind(r.env, q.patterns[n], x), Append(r.trail, x.id)) : x \in xs}
Onward(st, q, n, t) ==
  {E!SolutionOf(q, u, n + 1) : u \in {v \in E!Trails(st, q, n + 1) : Until(v, n) = t}}

\* The rows that extend a solution are those of the statements that make one
\* of the next trails of its trail.
LEMMA ExtensionsAre ==
  ASSUME NEW st, E!IsStore(st), NEW q, NEW n \in Nat, NEW t \in E!Trails(st, q, n),
         NEW r, r = E!SolutionOf(q, t, n), NEW cs, q.expands # None => cs = Concepts(st, q)
  PROVE  Extensions(q, n + 1, r, KeptRows(st, q, n + 1, r, cs)) = Onward(st, q, n, t)
<1>. DEFINE kept == KeptRows(st, q, n + 1, r, cs)
<1>. DEFINE pat == q.patterns[n + 1]
            fs == E!Facts(q, t, n)
            good == E!Good(st, q)
            next == E!Trails(st, q, n + 1)
<1>1. r.env = Env(fs) /\ r.trail = t /\ E!Solves(fs) /\ t \in Lists(good, n)
  BY DEF E!SolutionOf, E!Solution, Env, E!Trails, Lists
<1>2. \A s \in Id : s \in good <=>
        /\ E!Visible(st, q, s) /\ \A d \in E!Asked(q) : E!Has(st, q, d, s)
        /\ q.expands = None \/ Content[s].predicate \in cs
  BY ConceptsAdmit DEF E!Good, E!Admitted
<1>3. \A s : E!RowOf(s).id = s /\ E!RowOf(s).predicate = Content[s].predicate
  BY DEF E!RowOf
<1>4. \A x \in kept : x.id \in good /\ x = E!RowOf(x.id) /\ E!Unifies(r.env, pat, E!RowOf(x.id))
  <2>. SUFFICES ASSUME NEW x \in kept
       PROVE  x.id \in good /\ x = E!RowOf(x.id) /\ E!Unifies(r.env, pat, E!RowOf(x.id))
    OBVIOUS
  <2>1. /\ x \in Matched(st, q, n + 1, r) /\ \A d \in E!Asked(q) : E!Has(st, q, d, x.id)
        /\ q.expands = None \/ x.predicate \in cs
        /\ E!Unifies(r.env, pat, x)
    BY DEF KeptRows
  <2>2. x.id \in Id /\ E!Visible(st, q, x.id) /\ x = E!RowOf(x.id)
    BY <2>1, UnifiedAreVisible
  <2>3. x.predicate = Content[x.id].predicate
    BY <2>2, <1>3
  <2>. QED BY <1>2, <2>1, <2>2, <2>3
<1>5. \A s \in good : E!Unifies(r.env, pat, E!RowOf(s)) => E!RowOf(s) \in kept
  <2>. SUFFICES ASSUME NEW s \in good, E!Unifies(r.env, pat, E!RowOf(s)) PROVE E!RowOf(s) \in kept
    OBVIOUS
  <2>1. s \in Id
    BY DEF E!Good
  <2>2. /\ E!Visible(st, q, s) /\ \A d \in E!Asked(q) : E!Has(st, q, d, s)
        /\ q.expands = None \/ Content[s].predicate \in cs
    BY <2>1, <1>2
  <2>3. E!RowOf(s) \in Matched(st, q, n + 1, r)
    BY <2>1, <2>2, VisibleAreMatched
  <2>. QED BY <1>3, <2>2, <2>3 DEF KeptRows
<1>6. \A s \in good :
        /\ E!Unifies(r.env, pat, E!RowOf(s)) <=> Append(t, s) \in next
        /\ Append(t, s) \in next =>
             E!Solution(E!Bind(r.env, pat, E!RowOf(s)), Append(t, s)) = E!SolutionOf(q, Append(t, s), n + 1)
  <2>. SUFFICES ASSUME NEW s \in good
       PROVE  /\ E!Unifies(r.env, pat, E!RowOf(s)) <=> Append(t, s) \in next
              /\ Append(t, s) \in next =>
                   E!Solution(E!Bind(r.env, pat, E!RowOf(s)), Append(t, s)) = E!SolutionOf(q, Append(t, s), n + 1)
    OBVIOUS
  <2>1. PICK u : u = Append(t, s)
    OBVIOUS
  <2>2. u \in Lists(good, n + 1) /\ u[n + 1] = s /\ \A i \in 1..n : u[i] = t[i]
    <3>. HIDE DEF good
    <3>1. Longer(u, t, s, good, n)
      BY <1>1, <2>1, OneMore
    <3>. QED BY <3>1 DEF Longer
  <2>3. E!Facts(q, u, n + 1) = fs \cup E!Facing(pat, E!RowOf(s))
    BY <2>2, FactsOfOneMore
  <2>4. u \in next <=> E!Solves(fs \cup E!Facing(pat, E!RowOf(s)))
    BY <2>2, <2>3 DEF E!Trails, Lists
  <2>5. E!Unifies(r.env, pat, E!RowOf(s)) <=> E!Solves(fs \cup E!Facing(pat, E!RowOf(s)))
    BY <1>1, UnifyingSolves
  <2>6. u \in next => E!Bind(r.env, pat, E!RowOf(s)) = Env(E!Facts(q, u, n + 1))
    <3>1. ASSUME u \in next PROVE E!Bind(Env(fs), pat, E!RowOf(s)) = Env(fs \cup E!Facing(pat, E!RowOf(s)))
      BY <2>4, <3>1, BindingBinds
    <3>. QED BY <1>1, <2>3, <3>1
  <2>7. E!SolutionOf(q, u, n + 1) = E!Solution(Env(E!Facts(q, u, n + 1)), u)
    BY DEF E!SolutionOf, Env
  <2>. QED BY <2>1, <2>4, <2>5, <2>6, <2>7
<1>7. \A v \in next : Until(v, n) = t => v[n + 1] \in good /\ v = Append(t, v[n + 1])
  <2>1. \A v \in next : v \in Lists(good, n + 1)
    BY DEF E!Trails, Lists
  <2>. HIDE DEF good, next
  <2>. QED BY <2>1, OneLess
<1>8. \A s \in good : Until(Append(t, s), n) = t
  <2>. HIDE DEF good
  <2>. SUFFICES ASSUME NEW s \in good, NEW u, u = Append(t, s) PROVE Until(u, n) = t
    OBVIOUS
  <2>1. Longer(u, t, s, good, n)
    BY <1>1, OneMore
  <2>. QED BY <2>1 DEF Longer
<1>. DEFINE f(x) == E!Solution(E!Bind(r.env, pat, x), Append(r.trail, x.id))
            g(u) == E!SolutionOf(q, u, n + 1)
<1>9. ASSUME NEW x \in kept PROVE \E u \in {v \in next : Until(v, n) = t} : f(x) = g(u)
  <2>1. x.id \in good /\ x = E!RowOf(x.id) /\ E!Unifies(r.env, pat, E!RowOf(x.id))
    BY <1>4
  <2>2. Append(t, x.id) \in next /\ Until(Append(t, x.id), n) = t
    BY <1>6, <1>8, <2>1
  <2>3. f(x) = g(Append(t, x.id))
    BY <1>1, <1>6, <2>1, <2>2
  <2>. QED BY <2>2, <2>3
<1>10. ASSUME NEW u \in next, Until(u, n) = t PROVE \E x \in kept : g(u) = f(x)
  <2>1. PICK s \in good : u = Append(t, s)
    BY <1>7, <1>10
  <2>2. E!RowOf(s) \in kept
    BY <1>5, <1>6, <2>1
  <2>3. f(E!RowOf(s)) = g(u)
    BY <1>1, <1>3, <1>6, <2>1
  <2>. QED BY <2>2, <2>3
<1>. HIDE DEF f, g, next, kept
<1>11. {f(x) : x \in kept} = {g(u) : u \in {v \in next : Until(v, n) = t}}
  BY <1>9, <1>10
<1>. QED BY <1>11 DEF f, g, next, kept, Extensions, Onward

-----------------------------------------------------------------------------
(* Queries *)

LEMMA QueryFields ==
  DOMAIN DefaultQuery =
    {"scope", "preset", "patterns", "filters", "polarity", "maturity", "identity", "project",
     "limit", "offset", "expansion", "asOf", "modality", "level", "policy", "lens", "expands",
     "order", "evidence"}
BY DEF DefaultQuery

LEMMA DefaultIsQuery == IsQuery(DefaultQuery)
BY DEF IsQuery, DefaultQuery

\* Any other field may be set, and a pattern added.
LEMMA SettingKeeps ==
  ASSUME NEW q, IsQuery(q), NEW f \in DOMAIN DefaultQuery \ {"patterns"}, NEW v
  PROVE  IsQuery([q EXCEPT ![f] = v]) /\ [q EXCEPT ![f] = v].patterns = q.patterns
<1>. DEFINE q2 == [q EXCEPT ![f] = v]
<1>1. DOMAIN q2 = DOMAIN q /\ q2["patterns"] = q["patterns"]
  BY QueryFields DEF IsQuery
<1>2. q2.patterns = q.patterns
  BY <1>1
<1>. HIDE DEF q2
<1>3. IsQuery(q2)
  BY <1>1, <1>2 DEF IsQuery
<1>. QED BY <1>2, <1>3 DEF q2

LEMMA PatternsKeep ==
  ASSUME NEW q, IsQuery(q)
  PROVE  /\ IsQuery([q EXCEPT !["patterns"] = <<>>])
         /\ \A pat : IsQuery([q EXCEPT !["patterns"] = Append(@, pat)])
<1>1. ASSUME NEW ps, NEW G, ps \in Seq(G) PROVE IsQuery([q EXCEPT !["patterns"] = ps])
  <2>. DEFINE q2 == [q EXCEPT !["patterns"] = ps]
  <2>1. DOMAIN q2 = DOMAIN DefaultQuery /\ q2["patterns"] = ps
    BY QueryFields DEF IsQuery
  <2>2. q2.patterns = ps
    BY <2>1
  <2>3. ps \in Seq({ps[i] : i \in DOMAIN ps})
    BY <1>1
  <2>. HIDE DEF q2
  <2>4. IsQuery(q2)
    BY <2>1, <2>2, <2>3 DEF IsQuery
  <2>. QED BY <2>4 DEF q2
<1>2. IsQuery([q EXCEPT !["patterns"] = <<>>])
  <2>1. <<>> \in Seq({})
    OBVIOUS
  <2>. QED BY <1>1, <2>1
<1>3. ASSUME NEW pat PROVE IsQuery([q EXCEPT !["patterns"] = Append(@, pat)])
  <2>. DEFINE G == {q.patterns[i] : i \in DOMAIN q.patterns} \cup {pat}
  <2>1. q.patterns \in Seq(G)
    BY DEF IsQuery
  <2>. HIDE DEF G
  <2>2. Append(q.patterns, pat) \in Seq(G)
    <3>1. pat \in G
      BY DEF G
    <3>. QED BY <2>1, <3>1
  <2>. QED BY <1>1, <2>2
<1>. QED BY <1>2, <1>3

\* A preset sets a field.
LEMMA PresetKeeps ==
  ASSUME NEW st, NEW q, IsQuery(q), E!Supported(E!WithPreset(st, q))
  PROVE  IsQuery(E!WithPreset(st, q)) /\ E!WithPreset(st, q).patterns = q.patterns
<1>1. E!WithPreset(st, q) \in
        {q, [q EXCEPT !["maturity"] = 0], [q EXCEPT !["maturity"] = IF q["maturity"] < 2 THEN 2 ELSE q["maturity"]],
         [q EXCEPT !["scope"] = None], [q EXCEPT !["scope"] = E!AnyOf(E!SetToSeq(st.hypotheses))],
         [q EXCEPT !["asOf"] = AsOf[IF q.preset = None THEN "latest" ELSE q.preset]]}
  BY DEF E!WithPreset, E!Supported
<1>2. {"maturity", "scope", "asOf"} \subseteq DOMAIN DefaultQuery \ {"patterns"}
  BY QueryFields
<1>3. \A f \in {"maturity", "scope", "asOf"} : \A v :
        IsQuery([q EXCEPT ![f] = v]) /\ [q EXCEPT ![f] = v].patterns = q.patterns
  BY <1>2, SettingKeeps
<1>. QED BY <1>1, <1>3

\* Whatever is read, it is a query; once it is read, nothing more is.
LEMMA ListFields ==
  /\ DOMAIN ListField = {"MATCH", "FILTER", "MODALITY", "EXTRACTION_LEVEL", "PROJECT"}
  /\ ListField["MATCH"] = "patterns"
  /\ \A l \in DOMAIN ListField \ {"MATCH"} : ListField[l] \in DOMAIN DefaultQuery \ {"patterns"}
BY QueryFields DEF ListField

LEMMA ValuesSet ==
  ASSUME NEW kw \in OneValue, NEW e
  PROVE  \E f \in DOMAIN DefaultQuery \ {"patterns"} : \E v : Sets(kw, e) = [query EXCEPT ![f] = v]
<1>. DEFINE W(f) == \E v : Sets(kw, e) = [query EXCEPT ![f] = v]
            v == toks[e]
<1>1. kw = "PRESET" => Sets(kw, e) = [query EXCEPT !["preset"] = v.s]
  BY DEF Sets
<1>2. kw = "POLARITY" => Sets(kw, e) = [query EXCEPT !["polarity"] = v.s]
  BY DEF Sets
<1>3. kw = "MATURITY" => Sets(kw, e) = [query EXCEPT !["maturity"] = AsU8(v.n)]
  BY DEF Sets
<1>4. kw \in {"IDENTITY", "IDENTITY_LENS"} => Sets(kw, e) = [query EXCEPT !["identity"] = IdentityModes[v.s]]
  BY DEF Sets
<1>5. kw = "PREDICATES" =>
        Sets(kw, e) = [query EXCEPT !["expansion"] =
            IF v.t = "int" THEN [mode |-> "above", percent |-> v.n]
            ELSE IF v.s = "STRICT" THEN [mode |-> "strict"] ELSE [mode |-> "expand"]]
  BY DEF Sets
<1>6. kw \in {"TRANSACTION_TIME", "AS_OF"} => Sets(kw, e) = [query EXCEPT !["asOf"] = v.s]
  BY DEF Sets
<1>7. kw = "POLICY" => Sets(kw, e) = [query EXCEPT !["policy"] = v.s]
  BY DEF Sets
<1>8. kw = "SCHEMA_LENS" => Sets(kw, e) = [query EXCEPT !["lens"] = v.s]
  BY DEF Sets
<1>9. kw = "EXPANDS_FROM" => Sets(kw, e) = [query EXCEPT !["expands"] = [concept |-> toks[e - 3].s, lens |-> v.s]]
  BY DEF Sets
<1>10. kw \in {"ORDER_BY", "ORDER"} =>
         Sets(kw, e) = [query EXCEPT !["order"] = IF toks[e + 1] = Ident("ASC") THEN "asc" ELSE "desc"]
  BY DEF Sets
<1>11. kw = "WITH" => Sets(kw, e) = [query EXCEPT !["evidence"] = v.s]
  BY DEF Sets
<1>12. kw = "LIMIT" => Sets(kw, e) = [query EXCEPT !["limit"] = AsU64(v.n)]
  BY DEF Sets
<1>13. kw = "OFFSET" => Sets(kw, e) = [query EXCEPT !["offset"] = AsU64(v.n)]
  BY DEF Sets
<1>14. \E f \in {"preset", "polarity", "maturity", "identity", "expansion", "asOf", "policy", "lens",
                  "expands", "order", "evidence", "limit", "offset"} : W(f)
  BY <1>1, <1>2, <1>3, <1>4, <1>5, <1>6, <1>7, <1>8, <1>9, <1>10, <1>11, <1>12, <1>13 DEF OneValue
<1>. QED BY <1>14, QueryFields

LEMMA ReadsQueries ==
  ASSUME IsQuery(query), Parse
  PROVE  IsQuery(query') /\ status \notin {"parsed", "error", "panic"}
<1>. DEFINE Set(q) == \/ q = query
                      \/ \E f \in DOMAIN DefaultQuery \ {"patterns"} : \E v : q = [query EXCEPT ![f] = v]
                      \/ q = [query EXCEPT !["patterns"] = <<>>]
                      \/ \E pat : q = [query EXCEPT !["patterns"] = Append(@, pat)]
<1>1. \A q : Set(q) => IsQuery(q)
  <2>. SUFFICES ASSUME NEW q, Set(q) PROVE IsQuery(q)
    OBVIOUS
  <2>1. CASE q = query
    BY <2>1
  <2>2. CASE \E f \in DOMAIN DefaultQuery \ {"patterns"} : \E v : q = [query EXCEPT ![f] = v]
    <3>0. PICK f \in DOMAIN DefaultQuery \ {"patterns"} : \E v : q = [query EXCEPT ![f] = v]
      BY <2>2
    <3>1. PICK v : q = [query EXCEPT ![f] = v]
      BY <3>0
    <3>2. IsQuery([query EXCEPT ![f] = v])
      BY SettingKeeps
    <3>. QED BY <3>1, <3>2
  <2>3. CASE q = [query EXCEPT !["patterns"] = <<>>]
    BY <2>3, PatternsKeep
  <2>4. CASE \E pat : q = [query EXCEPT !["patterns"] = Append(@, pat)]
    <3>1. PICK pat : q = [query EXCEPT !["patterns"] = Append(@, pat)]
      BY <2>4
    <3>2. IsQuery([query EXCEPT !["patterns"] = Append(@, pat)])
      BY PatternsKeep
    <3>. QED BY <3>1, <3>2
  <2>. QED BY <2>1, <2>2, <2>3, <2>4
<1>4. \A f \in DOMAIN DefaultQuery \ {"patterns"} : \A v : Set([query EXCEPT ![f] = v])
  OBVIOUS
<1>. HIDE DEF Set
<1>2. ASSUME ParseDontoQL PROVE Set(query') /\ status \in {"unlexed", "running"}
  <2>1. CASE Tokens \/ Finish \/ NoClause
    BY <2>1 DEF Tokens, Finish, NoClause, End, Running, Set
  <2>2. CASE Skip
    BY <2>2 DEF Skip, Advance, Running, Set
  <2>3. CASE Clause
    <3>1. status = "running" /\ Here.s \in OneValue
      BY <2>3 DEF Clause, Running
    <3>2. query' = query \/ \E e : query' = Sets(Here.s, e)
      BY <2>3 DEF Clause, Refuse, End, Advance
    <3>3. \A e : Set(Sets(Here.s, e))
      BY <1>4, <3>1, ValuesSet
    <3>. QED BY <3>1, <3>2, <3>3 DEF Set
  <2>4. CASE StartList
    <3>1. status = "running" /\ \E l \in DOMAIN ListField : query' = [query EXCEPT ![ListField[l]] = <<>>]
      BY <2>4 DEF StartList, Running, Advance
    <3>. QED BY <3>1, ListFields DEF Set
  <2>5. CASE \E list \in DOMAIN ListField : ReadItem(list)
    <3>1. status = "running"
      BY <2>5 DEF ReadItem, Running
    <3>2. query' = query \/ \E l \in DOMAIN ListField : \E v : query' = [query EXCEPT ![ListField[l]] = Append(@, v)]
      BY <2>5 DEF ReadItem, Refuse, End, Goon, Advance
    <3>. QED BY <3>1, <3>2, ListFields DEF Set
  <2>6. CASE StartScope
    BY <2>6, QueryFields DEF StartScope, Running, Advance, Set
  <2>7. CASE ScopeWord
    <3>1. status = "running"
      BY <2>7 DEF ScopeWord, Running
    <3>2. query' = query \/ \E v : query' = [query EXCEPT !["scope"] = v]
      BY <2>7 DEF ScopeWord, Advance
    <3>. QED BY <3>1, <3>2, QueryFields DEF Set
  <2>8. CASE \E side \in {"include", "exclude"} : ReadContext(side)
    <3>1. status = "running"
      BY <2>8 DEF ReadContext, Running
    <3>2. query' = query \/ \E v : query' = [query EXCEPT !["scope"] = v]
      BY <2>8 DEF ReadContext, Refuse, End, Goon, Advance
    <3>. QED BY <3>1, <3>2, QueryFields DEF Set
  <2>. QED BY <1>2, <2>1, <2>2, <2>3, <2>4, <2>5, <2>6, <2>7, <2>8 DEF ParseDontoQL, NextDontoQL
<1>3. ASSUME ParseSparql PROVE Set(query') /\ status = "running"
  <2>1. CASE S!Prologue
    BY <2>1 DEF S!Prologue, S!Running, S!Goto, S!End, Set
  <2>2. CASE S!Variables
    <3>1. query' = query \/ \E v : query' = [query EXCEPT !["project"] = v]
      BY <2>2 DEF S!Variables, S!Goto, S!End
    <3>. QED BY <2>2, <3>1, QueryFields DEF S!Variables, S!Running, Set
  <2>3. CASE S!CloseBlock \/ S!Dot \/ S!Graph
    BY <2>3 DEF S!CloseBlock, S!Dot, S!Graph, S!Running, S!Goto, S!End, Set
  <2>4. CASE S!FilterClause
    <3>1. query' = query \/ \E v : query' = [query EXCEPT !["filters"] = v]
      BY <2>4 DEF S!FilterClause, S!Goto, S!End
    <3>. QED BY <2>4, <3>1, QueryFields DEF S!FilterClause, S!Running, Set
  <2>5. CASE S!Triple
    <3>1. query' = query \/ \E pat : query' = [query EXCEPT !["patterns"] = Append(@, pat)]
      BY <2>5 DEF S!Triple, S!Goto, S!End
    <3>. QED BY <2>5, <3>1 DEF S!Triple, S!Running, Set
  <2>6. CASE S!After
    <3>1. query' = query \/ \E f \in {"limit", "offset"} : \E v : query' = [query EXCEPT ![f] = v]
      BY <2>6 DEF S!After, S!Goto, S!End
    <3>. QED BY <2>6, <3>1, QueryFields DEF S!After, S!Running, Set
  <2>. QED BY <1>3, <2>1, <2>2, <2>3, <2>4, <2>5, <2>6 DEF ParseSparql, S!NextSparql
<1>. QED BY <1>1, <1>2, <1>3 DEF Parse

-----------------------------------------------------------------------------
(* A settled question *)

\* Two moments of an evaluation, of which one knows what was in force then.
Agree(st1, st2) ==
  /\ E!IsStore(st1) /\ E!IsStore(st2)
  /\ \A t \in E!SettledTimes, s \in Id : E!InForce(st1, s, t) <=> E!InForce(st2, s, t)

LEMMA SettledVisible ==
  ASSUME NEW q, E!Settled(q), NEW st1, NEW st2, Agree(st1, st2), NEW s \in Id
  PROVE  /\ E!Visible(st1, q, s) <=> E!Visible(st2, q, s)
         /\ E!Admitted(st1, q, s) <=> E!Admitted(st2, q, s)
<1>1. q.asOf \in E!SettledTimes /\ q.maturity = 0 /\ E!Asked(q) = {} /\ q.expands = None
  BY DEF E!Settled
<1>2. E!InForce(st1, s, q.asOf) <=> E!InForce(st2, s, q.asOf)
  BY <1>1 DEF Agree
<1>3. st1.maturity[s] \in Nat /\ st2.maturity[s] \in Nat
  BY DEF Agree, E!IsStore
<1>4. E!Visible(st1, q, s) <=> E!Visible(st2, q, s)
  BY <1>1, <1>2, <1>3 DEF E!Visible
<1>. QED BY <1>1, <1>4 DEF E!Admitted

\* It has the same solutions at both.
LEMMA SettledJoin ==
  ASSUME NEW q, E!Settled(q), NEW st1, NEW st2, Agree(st1, st2)
  PROVE  /\ \A n : E!Trails(st1, q, n) = E!Trails(st2, q, n)
         /\ \A n : E!Join(st1, q, n) = E!Join(st2, q, n)
         /\ E!IllTyped(st1, q) <=> E!IllTyped(st2, q)
         /\ E!Meaning(st1, q) = E!Meaning(st2, q)
<1>1. E!Good(st1, q) = E!Good(st2, q)
  BY SettledVisible DEF E!Good
<1>2. \A n : E!Trails(st1, q, n) = E!Trails(st2, q, n)
  BY <1>1 DEF E!Trails
<1>3. \A n : E!Join(st1, q, n) = E!Join(st2, q, n)
  BY <1>2 DEF E!Join
<1>. QED BY <1>2, <1>3 DEF E!IllTyped, E!Meaning

\* So it has the same answers.
LEMMA SettledAnswers ==
  ASSUME NEW q, E!Settled(q), NEW st1, NEW st2, Agree(st1, st2)
  PROVE  E!Answers(st1, q) = E!Answers(st2, q)
<1>1. q.order = None /\ q.evidence = "none"
  BY DEF E!Settled
<1>2. \A A, B : E!Precede(st1, q, A, B) /\ E!Precede(st2, q, A, B)
  BY <1>1 DEF E!Precede
<1>3. \A rows : E!Windows(st1, q, rows) = E!Windows(st2, q, rows)
  BY <1>2 DEF E!Windows
<1>4. E!Windows(st1, q, E!Meaning(st1, q)) = E!Windows(st2, q, E!Meaning(st2, q))
  BY <1>3, SettledJoin
<1>5. \A st : E!Answers(st, q) = {{E!Returned(q, r, {}) : r \in w} : w \in E!Windows(st, q, E!Meaning(st, q))}
  BY <1>1 DEF E!Answers
<1>. QED BY <1>4, <1>5

\* With the same closure, each pattern is matched by the same rows.
LEMMA SettledMatched ==
  ASSUME NEW q, E!Settled(q), NEW st1, NEW st2, Agree(st1, st2), st1.closure = st2.closure,
         NEW n, NEW r
  PROVE  Matched(st1, q, n, r) = Matched(st2, q, n, r)
<1>1. {x \in Id : E!Visible(st1, q, x)} = {x \in Id : E!Visible(st2, q, x)}
  BY SettledVisible
<1>. QED BY <1>1 DEF Matched, E!Match

-----------------------------------------------------------------------------
(* The beginning and the end of the loop *)

\* No pattern has one solution, which binds nothing.
LEMMA NoPattern ==
  ASSUME NEW st, NEW q
  PROVE  E!Trails(st, q, 0) = {<<>>} /\ E!Join(st, q, 0) = {E!Nothing} /\ E!Nothing.trail = <<>>
<1>1. E!Facts(q, <<>>, 0) = {}
  BY DEF E!Facts
<1>2. E!Solves({}) /\ E!VarsOf({}) = {}
  BY DEF E!Solves, E!VarsOf
<1>3. [1..0 -> E!Good(st, q)] = {<<>>}
  BY EmptyList
<1>4. E!Trails(st, q, 0) = {<<>>}
  BY <1>1, <1>2, <1>3 DEF E!Trails
<1>5. E!SolutionOf(q, <<>>, 0) = E!Nothing
  <2>1. E!SolutionOf(q, <<>>, 0) = E!Solution(Env({}), <<>>)
    BY <1>1 DEF E!SolutionOf, Env
  <2>2. DOMAIN Env({}) = {} /\ Env({}) = [x \in DOMAIN Env({}) |-> Env({})[x]]
    BY <1>2 DEF Env
  <2>3. Env({}) = <<>>
    BY <2>2, EmptyFunction
  <2>. QED BY <2>1, <2>3 DEF E!Nothing
<1>. QED BY <1>4, <1>5 DEF E!Join, E!Nothing, E!Solution

\* A solution is the one of its trail.
LEMMA TrailsTell ==
  ASSUME NEW st, NEW q, NEW n, NEW r \in E!Join(st, q, n)
  PROVE  r.trail \in E!Trails(st, q, n) /\ r = E!SolutionOf(q, r.trail, n)
BY DEF E!Join, E!SolutionOf, E!Solution

\* Patterns that have no solution have none with more of them.
LEMMA NoneFromNone ==
  ASSUME NEW st, NEW q, NEW n \in Nat, NEW m \in 0..n, E!Join(st, q, m) = {}
  PROVE  E!Join(st, q, n) = {}
<1>1. E!Trails(st, q, m) = {}
  BY DEF E!Join
<1>2. E!Trails(st, q, n) = {}
  BY <1>1, BeginningsAreTrails
<1>. QED BY <1>2 DEF E!Join

\* The next pattern's loop starts with every solution and has found nothing.
LEMMA AllAreWaiting ==
  ASSUME NEW st, NEW q, NEW n \in Nat
  PROVE  {u \in E!Trails(st, q, n + 1) : Until(u, n) \notin {r.trail : r \in E!Join(st, q, n)}} = {}
<1>1. \A u \in E!Trails(st, q, n + 1) : Until(u, n) \in E!Trails(st, q, n)
  <2>1. n + 1 \in Nat /\ n \in 0..(n + 1)
    OBVIOUS
  <2>. QED BY <2>1, BeginningsAreTrails
<1>2. \A t \in E!Trails(st, q, n) : E!SolutionOf(q, t, n) \in E!Join(st, q, n) /\ E!SolutionOf(q, t, n).trail = t
  BY DEF E!Join, E!SolutionOf, E!Solution
<1>. QED BY <1>1, <1>2

-----------------------------------------------------------------------------
(* The steps of an evaluation *)

LEMMA LoopsAre ==
  /\ Loops = {"match", "extend", "modality", "level", "policy", "lens"}
  /\ E!Clauses = Loops \ {"match", "extend"}
BY ClausesAre DEF Loops

\* What the caller and the parsers keep.
Kept == <<query, status, preset>>

\* Between two calls the tables and the query stay as they are.
LEMMA StepsKeep ==
  ASSUME JoinInv, UNCHANGED Kept, UNCHANGED <<store, now, older, began, past, asked>>,
         pc \in Loops \cup {"concept", "order", "evidence"}, pc' \notin {"idle", "preset"}
  PROVE  StoresOK' /\ AskedOK' /\ (Steady' <=> Steady)
<1>1. pc # "idle" /\ Evaluated
  BY LoopsAre DEF Evaluated
<1>2. StoresOK'
  BY <1>1 DEF JoinInv, StoresOK, E!SettledTimes
<1>3. AskedOK'
  BY <1>1 DEF JoinInv, AskedOK, Kept, Requested
<1>4. Steady' <=> Steady
  BY DEF Steady, E!Settled, E!SettledTimes
<1>. QED BY <1>2, <1>3, <1>4

\* The loop begins with one solution, which is still to be extended.
LEMMA LoopBegins ==
  ASSUME NEW st, NEW q
  PROVE  /\ {E!Nothing} = E!Join(st, q, 1 - 1) /\ ProperBefore(st, q, 1 - 1)
         /\ {u \in E!Trails(st, q, 1) : Until(u, 1 - 1) \notin {r.trail : r \in {E!Nothing}}} = {}
<1>1. 1 - 1 = 0 /\ 0 + 1 = 1 /\ 0 \in Nat /\ 1..0 = {}
  OBVIOUS
<1>2. E!Join(st, q, 0) = {E!Nothing}
  BY NoPattern
<1>3. {u \in E!Trails(st, q, 0 + 1) : Until(u, 0) \notin {r.trail : r \in E!Join(st, q, 0)}} = {}
  BY <1>1, AllAreWaiting
<1>4. ProperBefore(st, q, 0)
  BY <1>1 DEF ProperBefore
<1>. QED BY <1>1, <1>2, <1>3, <1>4

\* The loop's part of the invariant when it begins.
LEMMA BeginningIsMatched ==
  ASSUME pc' = "match", k' = 1, todo' = {E!Nothing}, found' = {}
  PROVE  MatchedOK' /\ RowsOK' /\ AnsweredOK'
<1>1. Waiting' = {r.trail : r \in {E!Nothing}}
  BY DEF Waiting
<1>2. {t \in {u \in E!Trails(store', asked', 1) : Until(u, 1 - 1) \notin Waiting'} : TRUE} = {}
  BY <1>1, LoopBegins
<1>3. MatchedOK'
  <2>1. {E!Nothing} = E!Join(store', asked', 1 - 1) /\ ProperBefore(store', asked', 1 - 1)
    BY LoopBegins
  <2>2. \A t \in {u \in E!Trails(store', asked', 1) : Until(u, 1 - 1) \notin Waiting'} : FALSE
    BY <1>2
  <2>3. {E!SolutionOf(asked', t, 1) : t \in {u \in E!Trails(store', asked', 1) : Until(u, 1 - 1) \notin Waiting'}} = {}
    BY <2>2
  <2>. QED BY <2>1, <2>3 DEF MatchedOK
<1>4. RowsOK'
  BY DEF RowsOK
<1>5. AnsweredOK'
  BY DEF AnsweredOK, Evaluated
<1>. QED BY <1>3, <1>4, <1>5

LEMMA JoinSubmit ==
  ASSUME JoinInv, status = "parsed", E!Submit([query |-> query, preset |-> preset]), UNCHANGED Kept
  PROVE  JoinInv'
<1>1. /\ pc = "idle" /\ asked' = Requested
      /\ pc' = (IF query.patterns = <<>> THEN "done" ELSE "preset")
      /\ began' = now /\ past' = {store} /\ UNCHANGED <<store, now, older, k, found>>
  BY DEF E!Submit, Requested
<1>2. StoresOK'
  BY <1>1 DEF JoinInv, StoresOK, E!SettledTimes
<1>3. IsQuery(query) /\ IsQuery(asked') /\ asked'.patterns = query.patterns
  BY <1>1, QueryFields, SettingKeeps DEF JoinInv, AskedOK, Requested
<1>4. Requested' = Requested
  BY DEF Kept, Requested
<1>5. AskedOK'
  BY <1>1, <1>3, <1>4, LoopsAre DEF AskedOK, Evaluated, Kept
<1>6. LoopsOK' /\ MatchedOK' /\ RowsOK'
  BY <1>1, LoopsAre DEF JoinInv, LoopsOK, MatchedOK, RowsOK
<1>7. AnsweredOK'
  BY <1>1, <1>3, LoopsAre DEF AnsweredOK, Evaluated
<1>. QED BY <1>2, <1>5, <1>6, <1>7 DEF JoinInv

LEMMA JoinPreset ==
  ASSUME JoinInv, E!ApplyPreset, UNCHANGED Kept
  PROVE  JoinInv'
<1>1. /\ pc = "preset" /\ UNCHANGED <<store, now, older, began, past, k, found>>
      /\ k = 1 /\ found = {} /\ asked = Requested /\ asked.patterns # <<>> /\ status = "parsed"
      /\ asked.patterns = query.patterns /\ IsQuery(asked) /\ IsQuery(query)
  BY DEF E!ApplyPreset, E!Same, JoinInv, LoopsOK, AskedOK
<1>2. StoresOK'
  <2>1. pc' # "idle"
    BY <1>1 DEF E!ApplyPreset
  <2>. QED BY <1>1, <2>1 DEF JoinInv, StoresOK, E!SettledTimes
<1>3. CASE pc' = "unsupported" /\ UNCHANGED asked
  <2>1. AskedOK' /\ LoopsOK' /\ MatchedOK' /\ RowsOK' /\ AnsweredOK'
    BY <1>1, <1>3, LoopsAre DEF AskedOK, LoopsOK, MatchedOK, RowsOK, AnsweredOK, Evaluated, Kept
  <2>. QED BY <1>2, <2>1 DEF JoinInv
<1>4. CASE /\ asked' = E!WithPreset(store, asked) /\ E!Supported(asked')
           /\ pc' = (IF asked'.expands = None THEN "match" ELSE "concept") /\ todo' = {E!Nothing}
  <2>1. IsQuery(asked') /\ asked'.patterns = asked.patterns
    BY <1>1, <1>4, PresetKeeps
  <2>2. Requested' = Requested
    BY DEF Kept, Requested
  <2>3. AskedOK'
    BY <1>1, <1>4, <2>1, <2>2 DEF AskedOK, Kept
  <2>4. Len(asked'.patterns) \in Nat /\ Len(asked'.patterns) # 0
    BY <1>1, <2>1 DEF IsQuery
  <2>5. LoopsOK'
    BY <1>1, <1>4, <2>4, LoopsAre DEF LoopsOK
  <2>6. MatchedOK' /\ RowsOK' /\ AnsweredOK'
    <3>1. CASE pc' = "match"
      BY <1>1, <1>4, <3>1, BeginningIsMatched
    <3>2. CASE pc' = "concept"
      BY <3>2, LoopsAre DEF MatchedOK, RowsOK, AnsweredOK
    <3>. QED BY <1>4, <3>1, <3>2
  <2>. QED BY <1>2, <2>3, <2>5, <2>6 DEF JoinInv
<1>. QED BY <1>3, <1>4 DEF E!ApplyPreset

LEMMA JoinConcept ==
  ASSUME JoinInv, E!LoadConcept, UNCHANGED Kept
  PROVE  JoinInv'
<1>1. /\ pc = "concept" /\ pc' = "match"
      /\ UNCHANGED <<store, now, older, began, past, asked, k, todo, found>>
      /\ concept' = {asked.expands.concept} \cup
           {e.to : e \in {x \in store.edges : x.concept = asked.expands.concept /\ x.lens = asked.expands.lens}}
  BY DEF E!LoadConcept, E!Same
<1>2. StoresOK' /\ AskedOK'
  BY <1>1, StepsKeep
<1>3. k = 1 /\ found = {} /\ todo = {E!Nothing} /\ asked.patterns # <<>> /\ IsQuery(asked)
  BY <1>1 DEF JoinInv, LoopsOK, AskedOK, Evaluated
<1>4. Len(asked.patterns) \in Nat /\ Len(asked.patterns) # 0
  BY <1>3 DEF IsQuery
<1>5. LoopsOK'
  BY <1>1, <1>3, <1>4, LoopsAre DEF LoopsOK
<1>6. MatchedOK' /\ RowsOK' /\ AnsweredOK'
  BY <1>1, <1>3, BeginningIsMatched
<1>. QED BY <1>2, <1>5, <1>6 DEF JoinInv

LEMMA JoinMatch ==
  ASSUME JoinInv, NEW r \in todo, E!MatchRow(r), UNCHANGED Kept
  PROVE  JoinInv'
<1>1. pc = "match" /\ UNCHANGED <<store, now, older, began, past, asked, concept, k, found, answer>>
  BY DEF E!MatchRow, E!Same
<1>2. k \in 1..Len(asked.patterns) /\ pc \in Loops
  BY <1>1, LoopsAre DEF JoinInv, LoopsOK
<1>3. Steady => /\ todo \subseteq E!Join(store, asked, k - 1)
                /\ ProperBefore(store, asked, k - 1)
                /\ \A x \in E!Join(store, asked, k - 1) : x \in todo \/ Proper(asked, k, x)
                /\ found = {E!SolutionOf(asked, t, k) :
                              t \in {u \in E!Trails(store, asked, k) : Until(u, k - 1) \notin Waiting}}
  BY <1>2 DEF JoinInv, MatchedOK
<1>4. CASE pc' = "ill-typed" /\ ~Proper(asked, k, r)
  <2>1. StoresOK' /\ AskedOK' /\ (Steady' <=> Steady)
    BY <1>1, <1>2, <1>4, StepsKeep
  <2>2. LoopsOK' /\ MatchedOK' /\ RowsOK'
    BY <1>4, LoopsAre DEF LoopsOK, MatchedOK, RowsOK
  <2>3. Steady => E!IllTyped(store, asked)
    BY <1>2, <1>3, <1>4 DEF E!IllTyped, Proper
  <2>4. AnsweredOK'
    BY <1>1, <1>4, <2>1, <2>3 DEF AnsweredOK
  <2>. QED BY <2>1, <2>2, <2>4 DEF JoinInv
<1>5. CASE /\ Proper(asked, k, r) /\ stmts' = Matched(store, asked, k, r)
           /\ row' = r /\ todo' = todo \ {r} /\ pc' = E!FirstClause(asked)
  <2>1. E!Asked(asked) \in SUBSET E!Clauses
    BY DEF E!Asked
  <2>2. /\ pc' = "extend" \/ pc' \in E!Asked(asked)
        /\ \A d \in E!Asked(asked) : ~(pc' = "extend" \/ E!Rank[d] < E!Rank[pc'])
    BY <1>5, <2>1, FirstIsFirst, ClausesAre DEF E!FirstClause
  <2>3. pc' \in Loops /\ pc' # "match"
    BY <2>1, <2>2, LoopsAre
  <2>4. StoresOK' /\ AskedOK' /\ (Steady' <=> Steady)
    BY <1>1, <1>2, <2>3, LoopsAre, StepsKeep
  <2>5. LoopsOK'
    BY <1>1, <1>2, <2>2, <2>3, LoopsAre DEF JoinInv, LoopsOK
  <2>6. Waiting' = Waiting
    BY <1>1, <1>5, <2>3 DEF Waiting
  <2>7. MatchedOK'
    BY <1>1, <1>3, <1>5, <2>4, <2>6 DEF MatchedOK
  <2>8. RowsOK'
    <3>1. Steady => row' \in E!Join(store, asked, k - 1) \ todo'
      BY <1>3, <1>5
    <3>2. stmts' = {x \in Matched(store, asked, k, r) :
                      \A d \in E!Asked(asked) : pc' = "extend" \/ E!Rank[d] < E!Rank[pc'] => E!Has(store, asked, d, x.id)}
      BY <1>5, <2>2
    <3>. QED BY <1>1, <1>5, <2>4, <3>1, <3>2 DEF RowsOK
  <2>9. AnsweredOK'
    BY <2>3, LoopsAre DEF AnsweredOK
  <2>. QED BY <2>4, <2>5, <2>7, <2>8, <2>9 DEF JoinInv
<1>. QED BY <1>4, <1>5 DEF E!MatchRow, Proper, Matched

LEMMA JoinRetain ==
  ASSUME JoinInv, NEW c \in E!Clauses, E!Retain(c), UNCHANGED Kept
  PROVE  JoinInv'
<1>1. /\ pc = c /\ UNCHANGED <<store, now, older, began, past, asked, concept, k, todo, found, row, answer>>
      /\ stmts' = {r \in stmts : E!Has(store, asked, c, r.id)}
      /\ pc' = E!NextClause(asked, c)
  BY DEF E!Retain, E!Same
<1>2. pc \in Loops \ {"match", "extend"} /\ k \in 1..Len(asked.patterns) /\ c \in E!Asked(asked)
  BY <1>1, LoopsAre DEF JoinInv, LoopsOK
<1>3. {d \in E!Asked(asked) : E!Rank[c] < E!Rank[d]} \in SUBSET E!Clauses
  BY DEF E!Asked
<1>4. /\ pc' = "extend" \/ pc' \in E!Asked(asked)
      /\ \A d \in E!Asked(asked) :
           (pc' = "extend" \/ E!Rank[d] < E!Rank[pc']) <=> (E!Rank[d] < E!Rank[c] \/ d = c)
  BY <1>1, <1>3, FirstIsFirst, ClausesAre DEF E!NextClause, E!Asked
<1>5. pc' \in Loops /\ pc' # "match"
  BY <1>4, LoopsAre DEF E!Asked
<1>6. StoresOK' /\ AskedOK' /\ (Steady' <=> Steady)
  BY <1>1, <1>2, <1>5, LoopsAre, StepsKeep
<1>7. LoopsOK'
  BY <1>1, <1>2, <1>4, <1>5, LoopsAre DEF JoinInv, LoopsOK
<1>8. Waiting' = Waiting
  BY <1>1, <1>2, <1>5 DEF Waiting
<1>9. MatchedOK'
  BY <1>1, <1>2, <1>6, <1>8 DEF JoinInv, MatchedOK
<1>10. RowsOK'
  <2>1. Steady => /\ row \in E!Join(store, asked, k - 1) \ todo
                  /\ stmts = {x \in Matched(store, asked, k, row) :
                                \A d \in E!Asked(asked) : pc = "extend" \/ E!Rank[d] < E!Rank[pc] => E!Has(store, asked, d, x.id)}
    BY <1>2 DEF JoinInv, RowsOK
  <2>2. Steady => stmts' = {x \in Matched(store, asked, k, row) :
                              \A d \in E!Asked(asked) : pc' = "extend" \/ E!Rank[d] < E!Rank[pc'] => E!Has(store, asked, d, x.id)}
    BY <1>1, <1>2, <1>4, <2>1
  <2>. QED BY <1>1, <1>6, <2>1, <2>2 DEF RowsOK
<1>11. AnsweredOK'
  BY <1>5, LoopsAre DEF AnsweredOK
<1>. QED BY <1>6, <1>7, <1>9, <1>10, <1>11 DEF JoinInv

LEMMA JoinExtend ==
  ASSUME JoinInv, E!Extend, UNCHANGED Kept
  PROVE  JoinInv'
<1>1. /\ pc = "extend" /\ pc' = "match"
      /\ UNCHANGED <<store, now, older, began, past, asked, concept, k, todo, answer>>
  BY DEF E!Extend, E!Same
<1>2. pc \in Loops \ {"match"} /\ pc' \in Loops /\ k \in 1..Len(asked.patterns)
  BY <1>1, LoopsAre DEF JoinInv, LoopsOK
<1>3. StoresOK' /\ AskedOK' /\ (Steady' <=> Steady)
  BY <1>1, <1>2, LoopsAre, StepsKeep
<1>4. LoopsOK'
  BY <1>1, <1>2, LoopsAre DEF JoinInv, LoopsOK
<1>. DEFINE j == k - 1
            kept == {r \in stmts : (asked.expands = None \/ r.predicate \in concept)
                                   /\ E!Unifies(row.env, asked.patterns[k], r)}
            more == Extensions(asked, k, row, kept)
<1>5. found' = found \cup more
  BY DEF E!Extend, Extensions
<1>6. Waiting = Waiting' \cup {row.trail}
  BY <1>1 DEF Waiting
<1>7. ASSUME Steady PROVE MatchedOK'
  <2>1. /\ todo \subseteq E!Join(store, asked, k - 1)
        /\ ProperBefore(store, asked, k - 1)
        /\ \A x \in E!Join(store, asked, k - 1) : x \in todo \/ Proper(asked, k, x)
        /\ found = {E!SolutionOf(asked, t, k) :
                      t \in {u \in E!Trails(store, asked, k) : Until(u, k - 1) \notin Waiting}}
    BY <1>2, <1>7 DEF JoinInv, MatchedOK
  <2>2. /\ row \in E!Join(store, asked, k - 1) /\ row \notin todo
        /\ stmts = {x \in Matched(store, asked, k, row) : \A d \in E!Asked(asked) : E!Has(store, asked, d, x.id)}
    BY <1>1, <1>2, <1>7 DEF JoinInv, RowsOK
  <2>3. PICK n \in Nat : n = k - 1 /\ n + 1 = k
    BY <1>2
  <2>4. row.trail \in E!Trails(store, asked, n) /\ row = E!SolutionOf(asked, row.trail, n)
    BY <2>2, <2>3, TrailsTell
  <2>5. E!IsStore(store)
    BY DEF JoinInv, StoresOK, E!SettledTimes
  <2>6. asked.expands # None => concept = Concepts(store, asked)
    <3>1. asked.expands # None => past = {store}
      BY <1>7 DEF Steady, E!Settled, E!SettledTimes
    <3>. QED BY <1>2, <3>1 DEF JoinInv, LoopsOK, Concepts
  <2>7. kept = KeptRows(store, asked, n + 1, row, concept)
    BY <2>2, <2>3 DEF KeptRows
  <2>8. more = Onward(store, asked, n, row.trail)
    <3>. HIDE DEF kept
    <3>. QED BY <2>3, <2>4, <2>5, <2>6, <2>7, ExtensionsAre
  <2>9. row.trail \notin Waiting'
    <3>1. ASSUME NEW r \in todo, r.trail = row.trail PROVE FALSE
      <4>1. r = E!SolutionOf(asked, r.trail, n)
        BY <2>1, <2>3, TrailsTell
      <4>. QED BY <2>2, <2>4, <3>1, <4>1
    <3>. QED BY <1>1, <3>1 DEF Waiting
  <2>10. {u \in E!Trails(store, asked, k) : Until(u, k - 1) \notin Waiting'}
           = {u \in E!Trails(store, asked, k) : Until(u, k - 1) \notin Waiting}
             \cup {v \in E!Trails(store, asked, k) : Until(v, k - 1) = row.trail}
    BY <1>6, <2>9
  <2>11. found' = {E!SolutionOf(asked, t, k) :
                    t \in {u \in E!Trails(store, asked, k) : Until(u, k - 1) \notin Waiting'}}
    <3>. DEFINE A == {u \in E!Trails(store, asked, k) : Until(u, k - 1) \notin Waiting}
                B == {v \in E!Trails(store, asked, k) : Until(v, k - 1) = row.trail}
    <3>1. found = {E!SolutionOf(asked, t, k) : t \in A}
      BY <2>1
    <3>2. more = {E!SolutionOf(asked, t, k) : t \in B}
      BY <2>3, <2>8 DEF Onward
    <3>. HIDE DEF A, B, more
    <3>3. found' = {E!SolutionOf(asked, t, k) : t \in A \cup B}
      BY <1>5, <3>1, <3>2
    <3>. QED BY <2>10, <3>3 DEF A, B
  <2>. QED BY <1>1, <2>1, <2>11 DEF MatchedOK
<1>8. MatchedOK' /\ RowsOK' /\ AnsweredOK'
  BY <1>1, <1>3, <1>7, LoopsAre DEF MatchedOK, RowsOK, AnsweredOK, Evaluated
<1>. QED BY <1>3, <1>4, <1>8 DEF JoinInv

LEMMA JoinNextPattern ==
  ASSUME JoinInv, E!NextPattern, UNCHANGED Kept
  PROVE  JoinInv'
<1>1. /\ pc = "match" /\ todo = {} /\ UNCHANGED <<store, now, older, began, past, asked, concept, row, stmts, answer>>
  BY DEF E!NextPattern, E!Same
<1>2. pc \in Loops /\ k \in 1..Len(asked.patterns) /\ IsQuery(asked)
  BY <1>1, LoopsAre DEF JoinInv, LoopsOK, AskedOK
<1>3. PICK n \in Nat : n = Len(asked.patterns)
  BY <1>2 DEF IsQuery
<1>4. PICK m \in Nat : m = k - 1 /\ m + 1 = k
  BY <1>2, <1>3
<1>5. pc' \in {"match", "order"}
  BY <1>1 DEF E!NextPattern
<1>6. StoresOK' /\ AskedOK' /\ (Steady' <=> Steady)
  BY <1>1, <1>2, <1>5, LoopsAre, StepsKeep
<1>7. ASSUME Steady
      PROVE  found = E!Join(store, asked, k) /\ ProperBefore(store, asked, k)
  <2>1. /\ ProperBefore(store, asked, k - 1)
        /\ \A x \in E!Join(store, asked, k - 1) : Proper(asked, k, x)
        /\ found = {E!SolutionOf(asked, t, k) :
                      t \in {u \in E!Trails(store, asked, k) : Until(u, k - 1) \notin Waiting}}
    BY <1>1, <1>2, <1>7 DEF JoinInv, MatchedOK
  <2>2. Waiting = {}
    BY <1>1 DEF Waiting
  <2>3. {u \in E!Trails(store, asked, k) : Until(u, k - 1) \notin Waiting} = E!Trails(store, asked, k)
    BY <2>2
  <2>4. found = E!Join(store, asked, k)
    BY <2>1, <2>3 DEF E!Join
  <2>5. \A i \in 1..k : i \in 1..(k - 1) \/ i = k
    BY <1>2
  <2>6. ProperBefore(store, asked, k)
    BY <2>1, <2>5 DEF ProperBefore
  <2>. QED BY <2>4, <2>6
<1>8. CASE found # {} /\ k # Len(asked.patterns)
  <2>1. k' = k + 1 /\ todo' = found /\ found' = {} /\ pc' = "match"
    BY <1>1, <1>8 DEF E!NextPattern
  <2>2. k' \in 1..Len(asked.patterns)
    BY <1>2, <1>3, <1>8, <2>1
  <2>3. LoopsOK'
    BY <1>1, <1>2, <2>1, <2>2, LoopsAre DEF JoinInv, LoopsOK
  <2>4. ASSUME Steady PROVE MatchedOK'
    <3>1. k \in Nat /\ k' - 1 = k
      BY <1>2, <1>3, <2>1
    <3>2. todo' = E!Join(store, asked, k) /\ ProperBefore(store, asked, k)
      BY <1>7, <2>1, <2>4
    <3>3. {u \in E!Trails(store, asked, k + 1) : Until(u, k) \notin {r.trail : r \in E!Join(store, asked, k)}} = {}
      BY <3>1, AllAreWaiting
    <3>4. Waiting' = {r.trail : r \in E!Join(store, asked, k)}
      BY <2>1, <3>2 DEF Waiting
    <3>5. \A t \in {u \in E!Trails(store, asked, k') : Until(u, k' - 1) \notin Waiting'} : FALSE
      BY <2>1, <3>1, <3>3, <3>4
    <3>6. found' = {E!SolutionOf(asked, t, k') :
                      t \in {u \in E!Trails(store, asked, k') : Until(u, k' - 1) \notin Waiting'}}
      BY <2>1, <3>5
    <3>. QED BY <1>1, <3>1, <3>2, <3>6 DEF MatchedOK
  <2>5. MatchedOK' /\ RowsOK' /\ AnsweredOK'
    BY <1>6, <2>1, <2>4, LoopsAre DEF MatchedOK, RowsOK, AnsweredOK, Evaluated
  <2>. QED BY <1>6, <2>3, <2>5 DEF JoinInv
<1>9. CASE found = {} \/ k = Len(asked.patterns)
  <2>1. pc' = "order" /\ UNCHANGED <<k, todo, found>>
    BY <1>9 DEF E!NextPattern
  <2>2. LoopsOK' /\ MatchedOK' /\ RowsOK'
    BY <2>1, LoopsAre DEF LoopsOK, MatchedOK, RowsOK
  <2>3. ASSUME Steady
        PROVE  found = E!Join(store, asked, n) /\ ~E!IllTyped(store, asked)
    <3>1. \A i \in k..n : E!Join(store, asked, i) = found
      <4>1. CASE k = n
        BY <1>7, <2>3, <4>1
      <4>2. CASE found = {}
        <5>1. \A i \in k..n : i \in Nat /\ k \in 0..i
          BY <1>2, <1>3
        <5>2. E!Join(store, asked, k) = {}
          BY <1>7, <2>3, <4>2
        <5>. QED BY <4>2, <5>1, <5>2, NoneFromNone
      <4>. QED BY <1>3, <1>9, <4>1, <4>2
    <3>2. found = E!Join(store, asked, n)
      BY <1>2, <1>3, <3>1
    <3>3. ASSUME NEW i \in 1..n, NEW r \in E!Join(store, asked, i - 1)
          PROVE  Proper(asked, i, r)
      <4>1. CASE i \in 1..k
        BY <1>7, <2>3, <3>3, <4>1 DEF ProperBefore
      <4>2. CASE i \notin 1..k
        <5>1. i - 1 \in k..n /\ k # n
          BY <1>2, <1>3, <4>2
        <5>2. found = {}
          BY <1>3, <1>9, <5>1
        <5>. QED BY <3>1, <3>3, <5>1, <5>2
      <4>. QED BY <4>1, <4>2
    <3>4. ~E!IllTyped(store, asked)
      BY <1>3, <3>3 DEF E!IllTyped, Proper
    <3>. QED BY <3>2, <3>4
  <2>4. AnsweredOK'
    BY <1>1, <1>3, <1>6, <2>1, <2>3 DEF AnsweredOK
  <2>. QED BY <1>6, <2>2, <2>4 DEF JoinInv
<1>. QED BY <1>8, <1>9

LEMMA JoinOrder ==
  ASSUME JoinInv, E!Order, UNCHANGED Kept
  PROVE  JoinInv'
<1>1. /\ pc = "order" /\ UNCHANGED <<store, now, older, began, past, asked, concept, k, todo, row, stmts>>
      /\ pc' = IF asked.evidence = "none" THEN "done" ELSE "evidence"
  BY DEF E!Order, E!Same
<1>2. PICK w \in E!Windows(store, asked, E!Passing) :
        found' = w /\ (asked.evidence = "none" => answer' = {E!Returned(asked, r, {}) : r \in w})
  BY DEF E!Order
<1>3. StoresOK' /\ AskedOK' /\ (Steady' <=> Steady)
  BY <1>1, StepsKeep
<1>4. LoopsOK' /\ MatchedOK' /\ RowsOK'
  BY <1>1, LoopsAre DEF LoopsOK, MatchedOK, RowsOK
<1>5. ASSUME Steady PROVE AnsweredOK'
  <2>1. ~E!IllTyped(store, asked) /\ found = E!Join(store, asked, Len(asked.patterns))
    BY <1>1, <1>5 DEF JoinInv, AnsweredOK, Evaluated
  <2>2. E!Passing = E!Meaning(store, asked)
    BY <2>1 DEF E!Passing, E!Meaning
  <2>3. w \in E!Windows(store, asked, E!Meaning(store, asked))
    BY <1>2, <2>2
  <2>4. asked.evidence = "none" => answer' \in E!Answers(store, asked)
    BY <1>2, <2>3 DEF E!Answers
  <2>. QED BY <1>1, <1>2, <2>1, <2>3, <2>4 DEF AnsweredOK
<1>6. AnsweredOK'
  BY <1>3, <1>5 DEF AnsweredOK
<1>. QED BY <1>3, <1>4, <1>6 DEF JoinInv

LEMMA JoinEvidence ==
  ASSUME JoinInv, E!LoadEvidence, UNCHANGED Kept
  PROVE  JoinInv'
<1>1. /\ pc = "evidence" /\ pc' = "done"
      /\ UNCHANGED <<store, now, older, began, past, asked, concept, k, todo, found, row, stmts>>
      /\ answer' = {E!Returned(asked, r, E!EvidenceOf(store, asked, E!Last(r.trail))) : r \in found}
  BY DEF E!LoadEvidence, E!Same
<1>2. StoresOK' /\ AskedOK' /\ (Steady' <=> Steady)
  BY <1>1, StepsKeep
<1>3. LoopsOK' /\ MatchedOK' /\ RowsOK'
  BY <1>1, LoopsAre DEF LoopsOK, MatchedOK, RowsOK
<1>4. ASSUME Steady PROVE AnsweredOK'
  <2>1. /\ ~E!IllTyped(store, asked) /\ asked.evidence # "none"
        /\ found \in E!Windows(store, asked, E!Meaning(store, asked))
    BY <1>1, <1>4 DEF JoinInv, AnsweredOK, Evaluated
  <2>2. answer' \in E!Answers(store, asked)
    BY <1>1, <2>1 DEF E!Answers
  <2>. QED BY <1>1, <2>1, <2>2 DEF AnsweredOK
<1>5. AnsweredOK'
  BY <1>2, <1>4 DEF AnsweredOK
<1>. QED BY <1>2, <1>3, <1>5 DEF JoinInv

LEMMA JoinFails ==
  ASSUME JoinInv, E!CallFails, UNCHANGED Kept
  PROVE  JoinInv'
<1>1. pc' = "failed" /\ UNCHANGED <<store, now, older, began, past, asked, query, status>>
  BY DEF E!CallFails, E!Same, E!locals, Kept
<1>2. pc # "idle"
  BY ClausesAre DEF E!CallFails, E!Asks
<1>3. StoresOK'
  BY <1>1, <1>2 DEF JoinInv, StoresOK, E!SettledTimes
<1>4. AskedOK' /\ LoopsOK' /\ MatchedOK' /\ RowsOK' /\ AnsweredOK'
  BY <1>1, <1>2, LoopsAre DEF JoinInv, AskedOK, LoopsOK, MatchedOK, RowsOK, AnsweredOK, Evaluated
<1>. QED BY <1>3, <1>4 DEF JoinInv

LEMMA JoinOthers ==
  ASSUME JoinInv, NEW e \in Edit, E!Others(e), UNCHANGED Kept
  PROVE  JoinInv'
<1>1. /\ UNCHANGED <<pc, asked, concept, k, todo, found, row, stmts, answer, began>>
      /\ now' = now + 1 /\ store' # store /\ older' = older
      /\ \E b \in older \cup (began + 1)..(now + 1) : store' = E!Edited(store, e, b)
      /\ past' = (IF pc = "idle" THEN past ELSE past \cup {store'})
      /\ pc \notin E!Ended
  BY DEF E!Others, E!locals
<1>2. now \in Nat /\ began \in 0..now /\ older \subseteq Nat /\ E!IsStore(store)
  BY DEF JoinInv, StoresOK
<1>3. PICK b \in older \cup (began + 1)..(now + 1) : store' = E!Edited(store, e, b)
  BY <1>1
<1>4. b \in Nat /\ \A t \in E!SettledTimes : t \in Nat /\ t < b
  BY <1>2 DEF E!SettledTimes
<1>5. /\ E!IsStore(store') /\ store'.closure = store.closure
      /\ \A t \in E!SettledTimes, s \in Id : E!InForce(store', s, t) <=> E!InForce(store, s, t)
  BY <1>2, <1>3, <1>4, EditLeaves
<1>6. E!SettledTimes' = E!SettledTimes
  BY <1>1 DEF E!SettledTimes
<1>7. StoresOK'
  <2>1. now' \in Nat /\ began' \in 0..now'
    BY <1>1, <1>2
  <2>2. past' \subseteq past \cup {store'} /\ (pc' # "idle" => store' \in past')
    BY <1>1
  <2>3. /\ \A st \in past : E!IsStore(st)
        /\ \A st \in past : \A t \in E!SettledTimes, s \in Id : E!InForce(st, s, t) <=> E!InForce(store, s, t)
    BY DEF JoinInv, StoresOK, E!SettledTimes
  <2>4. \A st \in past' \cup {store'} : E!IsStore(st)
    BY <1>5, <2>2, <2>3
  <2>5. \A st \in past' : \A t \in E!SettledTimes, s \in Id : E!InForce(st, s, t) <=> E!InForce(store', s, t)
    <3>. SUFFICES ASSUME NEW st \in past', NEW t \in E!SettledTimes, NEW s \in Id
         PROVE  E!InForce(st, s, t) <=> E!InForce(store', s, t)
      OBVIOUS
    <3>1. CASE st = store'
      BY <3>1
    <3>2. CASE st \in past
      BY <1>5, <2>3, <3>2
    <3>. QED BY <2>2, <3>1, <3>2
  <2>. QED BY <1>1, <1>2, <1>6, <2>1, <2>2, <2>4, <2>5 DEF StoresOK
<1>8. pc # "idle" => past' # {store'} /\ past # {}
  BY <1>1 DEF JoinInv, StoresOK, E!SettledTimes
<1>9. AskedOK'
  BY <1>1, <1>8, LoopsAre DEF JoinInv, AskedOK, Evaluated, Kept, Requested
<1>10. LoopsOK'
  BY <1>1, <1>8, LoopsAre DEF JoinInv, LoopsOK
<1>11. CASE ~E!Settled(asked) /\ pc # "idle"
  <2>1. ~Steady'
    BY <1>1, <1>8, <1>11, <1>6 DEF Steady, E!Settled
  <2>2. MatchedOK' /\ RowsOK' /\ AnsweredOK'
    BY <2>1 DEF MatchedOK, RowsOK, AnsweredOK
  <2>. QED BY <1>7, <1>9, <1>10, <2>2 DEF JoinInv
<1>12. CASE pc = "idle"
  <2>1. MatchedOK' /\ RowsOK' /\ AnsweredOK'
    BY <1>1, <1>12, LoopsAre DEF MatchedOK, RowsOK, AnsweredOK, Evaluated
  <2>. QED BY <1>7, <1>9, <1>10, <2>1 DEF JoinInv
<1>13. CASE E!Settled(asked)
  <2>1. Agree(store, store')
    BY <1>2, <1>5 DEF Agree
  <2>2. Steady
    BY <1>13 DEF Steady
  <2>3. /\ \A n : E!Trails(store', asked, n) = E!Trails(store, asked, n)
        /\ \A n : E!Join(store', asked, n) = E!Join(store, asked, n)
        /\ E!IllTyped(store', asked) <=> E!IllTyped(store, asked)
        /\ E!Meaning(store', asked) = E!Meaning(store, asked)
    BY <1>13, <2>1, SettledJoin
  <2>4. \A n, r : Matched(store', asked, n, r) = Matched(store, asked, n, r)
    BY <1>5, <1>13, <2>1, SettledMatched
  <2>5. E!Asked(asked) = {} /\ asked.evidence = "none"
    BY <1>13 DEF E!Settled
  <2>6. MatchedOK'
    <3>1. Waiting' = Waiting
      BY <1>1 DEF Waiting
    <3>2. ProperBefore(store', asked, k - 1) <=> ProperBefore(store, asked, k - 1)
      BY <2>3 DEF ProperBefore
    <3>. QED BY <1>1, <2>2, <2>3, <3>1, <3>2 DEF JoinInv, MatchedOK
  <2>7. RowsOK'
    BY <1>1, <2>2, <2>3, <2>4, <2>5 DEF JoinInv, RowsOK
  <2>8. AnsweredOK'
    BY <1>1, <2>2, <2>3, <2>5, LoopsAre DEF JoinInv, AnsweredOK, Evaluated, E!Ended
  <2>. QED BY <1>7, <1>9, <1>10, <2>6, <2>7, <2>8 DEF JoinInv
<1>. QED BY <1>11, <1>12, <1>13

LEMMA JoinAtRest ==
  ASSUME JoinInv, UNCHANGED <<Kept, evaluation>>
  PROVE  JoinInv'
<1>1. UNCHANGED <<store, now, older, pc, asked, concept, k, todo, found, row, stmts, answer, began, past>>
  BY DEF evaluation
<1>2. StoresOK' /\ AskedOK' /\ LoopsOK'
  BY <1>1 DEF JoinInv, StoresOK, E!SettledTimes, AskedOK, LoopsOK, Evaluated, Requested, Kept
<1>3. (Steady' <=> Steady) /\ Waiting' = Waiting
  BY <1>1 DEF Steady, E!Settled, E!SettledTimes, Waiting
<1>4. MatchedOK' /\ RowsOK' /\ AnsweredOK'
  BY <1>1, <1>3 DEF JoinInv, MatchedOK, RowsOK, AnsweredOK, Evaluated
<1>. QED BY <1>2, <1>4 DEF JoinInv

\* Nothing is asked yet while the text is read.
LEMMA JoinReads ==
  ASSUME JoinInv, Read
  PROVE  JoinInv'
<1>1. /\ UNCHANGED <<store, now, older, pc, asked, k, found, began, past>>
      /\ IsQuery(query') /\ status \notin {"parsed", "error", "panic"}
  BY ReadsQueries DEF Read, caller, evaluation, JoinInv, AskedOK
<1>2. pc = "idle"
  BY <1>1 DEF JoinInv, AskedOK
<1>3. StoresOK' /\ AskedOK' /\ LoopsOK'
  BY <1>1, <1>2, LoopsAre DEF JoinInv, StoresOK, E!SettledTimes, AskedOK, LoopsOK, Evaluated
<1>4. MatchedOK' /\ RowsOK' /\ AnsweredOK'
  BY <1>1, <1>2, LoopsAre DEF MatchedOK, RowsOK, AnsweredOK, Evaluated
<1>. QED BY <1>3, <1>4 DEF JoinInv

LEMMA JoinInit ==
  ASSUME Init
  PROVE  JoinInv
<1>1. /\ store \in Start /\ older \in Older /\ now = 1 /\ pc = "idle" /\ asked = DefaultQuery /\ k = 1 /\ found = {}
      /\ began = 0 /\ past = {}
  BY DEF Init, E!Init, E!DefaultQuery, DefaultQuery, E!Anywhere, Anywhere
<1>2. query = DefaultQuery
  BY DEF Init, InitText, InitDontoQL, S!InitSparql, S!DefaultQuery, DefaultQuery
<1>3. StoresOK
  BY <1>1, StartsAreStores, OlderAreTimes DEF StoresOK, E!SettledTimes
<1>4. AskedOK /\ LoopsOK
  BY <1>1, <1>2, DefaultIsQuery, LoopsAre DEF AskedOK, LoopsOK, Evaluated
<1>5. MatchedOK /\ RowsOK /\ AnsweredOK
  BY <1>1, LoopsAre DEF MatchedOK, RowsOK, AnsweredOK, Evaluated
<1>. QED BY <1>3, <1>4, <1>5 DEF JoinInv

LEMMA JoinIsInvariant == Spec => []JoinInv
<1>1. Init => JoinInv
  BY JoinInit
<1>2. JoinInv /\ [Next]_vars => JoinInv'
  <2>. SUFFICES ASSUME JoinInv, [Next]_vars PROVE JoinInv'
    OBVIOUS
  <2>1. CASE Read
    BY <2>1, JoinReads
  <2>2. CASE UNCHANGED vars
    BY <2>2, JoinAtRest DEF vars, tvars, dvars, caller, Kept
  <2>3. ASSUME UNCHANGED <<tvars, caller>> PROVE UNCHANGED Kept
    BY <2>3 DEF tvars, dvars, caller, Kept
  <2>4. CASE Ask
    BY <2>3, <2>4, JoinSubmit DEF Ask
  <2>5. CASE Answer
    <3>1. UNCHANGED Kept
      BY <2>3, <2>5 DEF Answer
    <3>2. CASE E!ApplyPreset
      BY <3>1, <3>2, JoinPreset
    <3>3. CASE E!LoadConcept
      BY <3>1, <3>3, JoinConcept
    <3>4. CASE \E r \in todo : E!MatchRow(r)
      BY <3>1, <3>4, JoinMatch
    <3>5. CASE \E c \in E!Clauses : E!Retain(c)
      BY <3>1, <3>5, JoinRetain
    <3>6. CASE E!Extend
      BY <3>1, <3>6, JoinExtend
    <3>7. CASE E!NextPattern
      BY <3>1, <3>7, JoinNextPattern
    <3>8. CASE E!Order
      BY <3>1, <3>8, JoinOrder
    <3>9. CASE E!LoadEvidence
      BY <3>1, <3>9, JoinEvidence
    <3>. QED BY <2>5, <3>2, <3>3, <3>4, <3>5, <3>6, <3>7, <3>8, <3>9 DEF Answer, E!Evaluate
  <2>6. CASE Fail
    BY <2>3, <2>6, JoinFails DEF Fail
  <2>7. CASE OthersEdit
    BY <2>3, <2>7, JoinOthers DEF OthersEdit
  <2>. QED BY <2>1, <2>2, <2>4, <2>5, <2>6, <2>7 DEF Next, Handle
<1>. QED BY <1>1, <1>2, PTL DEF Spec

\* A question about a time that was past when it was asked, and before all that
\* still ran then began, has the answer each moment since would have given it,
\* whatever transactions, old and new, commit between the evaluator's calls:
\* for any texts, queries, stores and edits.
THEOREM SettledIsRepeatable == Spec => []AsOfIsRepeatable
<1>1. JoinInv => AsOfIsRepeatable
  <2>. SUFFICES ASSUME JoinInv, pc = "done", asked.patterns # <<>>, E!Settled(asked), NEW st \in past
       PROVE  ~E!IllTyped(st, asked) /\ answer \in E!Answers(st, asked)
    BY DEF AsOfIsRepeatable, E!AsOfIsRepeatable
  <2>1. Agree(store, st)
    BY DEF JoinInv, StoresOK, E!SettledTimes, Agree
  <2>2. ~E!IllTyped(store, asked) /\ answer \in E!Answers(store, asked)
    BY DEF JoinInv, AnsweredOK, Steady, Evaluated
  <2>. QED BY <2>1, <2>2, SettledJoin, SettledAnswers
<1>. QED BY <1>1, JoinIsInvariant, PTL

-----------------------------------------------------------------------------
(* What DontoQL reads.  A layout tells which words the clauses of a text   *)
(* are made of: between two clauses the parser holds what those before say, *)
(* inside one also what its entries so far say.                            *)

\* The words before which a clause ends.
Follows(tok) ==
  tok \in {Eof, Semi} \cup {Ident(w) : w \in OneValue \cup DOMAIN ListField \cup {"SCOPE"}}

\* The parser is at these words.
StandsAt(words) ==
  /\ IsList(words) /\ Len(toks) \in Nat /\ at \in Nat \ {0}
  /\ at + Len(words) <= Len(toks)
  /\ \A m \in DOMAIN words : toks[at + m - 1] = words[m]
  /\ Follows(toks[at + Len(words)])

LEMMA LexemesDiffer ==
  ASSUME NEW tok, Follows(tok)
  PROVE  /\ tok # Comma /\ tok # Op(">=")
         /\ \A w \in {"ASC", "DESC", "IN", "EXPAND_ABOVE", "include", "exclude", "no_descendants", "ancestors"} :
              tok # Ident(w)
<1>1. CASE tok \in {Eof, Semi}
  <2>1. /\ Eof.t = "eof" /\ Semi.t = "semi" /\ Comma.t = "comma" /\ Op(">=").t = "op"
        /\ \A w : Ident(w).t = "ident"
    BY DEF Eof, Semi, Comma, Tok, Ident, Op
  <2>. QED BY <1>1, <2>1
<1>2. ASSUME NEW kw \in OneValue \cup DOMAIN ListField \cup {"SCOPE"}, tok = Ident(kw)
      PROVE  /\ tok.t = "ident" /\ tok.s = kw
             /\ kw \notin {"ASC", "DESC", "IN", "EXPAND_ABOVE", "include", "exclude", "no_descendants", "ancestors"}
  <2>1. DOMAIN ListField = {"MATCH", "FILTER", "MODALITY", "EXTRACTION_LEVEL", "PROJECT"}
    BY DEF ListField
  <2>. QED BY <1>2, <2>1 DEF Tok, Ident, OneValue
<1>3. ASSUME NEW kw \in OneValue \cup DOMAIN ListField \cup {"SCOPE"}, tok = Ident(kw)
      PROVE  /\ tok # Comma /\ tok # Op(">=")
             /\ \A w \in {"ASC", "DESC", "IN", "EXPAND_ABOVE", "include", "exclude", "no_descendants", "ancestors"} :
                  tok # Ident(w)
  BY <1>2, <1>3 DEF Comma, Tok, Ident, Op
<1>. QED BY <1>1, <1>3 DEF Follows

\* A clause whose words fit its form sets what its last word says.
LEMMA FittingIsRead ==
  ASSUME Clause, NEW kw \in OneValue, Here = Ident(kw), NEW slots, Form(kw) = slots, IsList(slots), at \in Nat,
         NEW e \in Nat, e = at + Len(slots),
         \A j \in DOMAIN slots : Fits(slots[j], toks[at + j]), InRange(kw, e)
  PROVE  /\ kw \notin {"ORDER", "ORDER_BY"} => Advance(e + 1, "clause", Sets(kw, e))
         /\ kw \in {"ORDER", "ORDER_BY"} =>
              Advance(IF toks[e + 1] \in Directions THEN e + 2 ELSE e + 1, "clause", Sets(kw, e))
<1>1. Here.s = kw
  BY DEF Ident, Tok
<1>2. Misfits(slots, at + 1) = {}
  BY DEF Misfits, IsList
<1>. QED BY <1>1, <1>2 DEF Clause

\* The same by the number of words.
Plain(kw) == kw \in OneValue \ {"ORDER", "ORDER_BY"}

LEMMA OneMoreWord ==
  ASSUME Clause, NEW words, StandsAt(words), NEW kw, Plain(kw), NEW v,
         words = <<Ident(kw), v>>, NEW slot1,
         Form(kw) = <<slot1>>,
         Fits(slot1, v), InRange(kw, at + 1)
  PROVE  /\ toks[at + 1] = v
         /\ Advance(at + Len(words), "clause", Sets(kw, at + 1))
<1>1. Here = Ident(kw) /\ Len(words) = 2 /\ at \in Nat
  BY DEF StandsAt, Here
<1>2. toks[at + 1] = v
  BY DEF StandsAt
<1>. DEFINE slots == <<slot1>>
<1>3. IsList(slots) /\ at + 1 = at + Len(slots) /\ at + 1 \in Nat
  BY <1>1 DEF IsList, Range
<1>4. \A j \in DOMAIN slots : Fits(slots[j], toks[at + j])
  BY <1>2
<1>. HIDE DEF slots
<1>5. Form(kw) = slots
  BY DEF slots
<1>6. Advance(at + 1 + 1, "clause", Sets(kw, at + 1))
  BY <1>1, <1>3, <1>4, <1>5, FittingIsRead DEF Plain
<1>. QED BY <1>1, <1>2, <1>6

LEMMA WordsAreRead ==
  ASSUME Clause, NEW words, StandsAt(words), NEW kw, Plain(kw), words[1] = Ident(kw),
         NEW slots, Form(kw) = slots, IsList(slots), Len(words) = Len(slots) + 1,
         \A j \in DOMAIN slots : Fits(slots[j], words[j + 1]), InRange(kw, at + Len(slots))
  PROVE  Advance(at + Len(words), "clause", Sets(kw, at + Len(slots)))
<1>1. Here = Ident(kw) /\ at \in Nat /\ Len(slots) \in Nat /\ DOMAIN slots = 1..Len(slots) /\ DOMAIN words = 1..Len(words)
  BY DEF StandsAt, Here, IsList
<1>2. \A j \in DOMAIN slots : toks[at + j] = words[j + 1]
  <2>. TAKE j \in DOMAIN slots
  <2>1. j + 1 \in DOMAIN words /\ at + (j + 1) - 1 = at + j
    BY <1>1
  <2>. QED BY <2>1 DEF StandsAt
<1>. DEFINE e == at + Len(slots)
<1>3. e \in Nat /\ e + 1 = at + Len(words)
  BY <1>1
<1>. HIDE DEF e
<1>4. Advance(e + 1, "clause", Sets(kw, e))
  BY <1>1, <1>2, <1>3, FittingIsRead DEF Plain, e
<1>. QED BY <1>3, <1>4 DEF e

\* Numbers in range stay what they are.
LEMMA NumbersStay ==
  ASSUME NEW n
  PROVE  (n \in 0..255 => AsU8(n) = n) /\ (n \in Nat => AsU64(n) = n)
BY DEF AsU8, AsU64

\* What is read of a clause is what its words say.
LEMMA ValueIsRead ==
  ASSUME NEW words, StandsAt(words), Clause, NEW sets, ValueClause(words, sets)
  PROVE  \E f \in DOMAIN DefaultQuery : \E x :
            sets = [g \in {f} |-> x] /\ Advance(at + Len(words), "clause", [query EXCEPT ![f] = x])
<1>. DEFINE Says(f, x) == sets = [g \in {f} |-> x] /\ Advance(at + Len(words), "clause", [query EXCEPT ![f] = x])
<1>0. PICK v \in Range(words) : ValueSays(words, v, sets)
  BY DEF ValueClause
<1>01. (v.n \in 0..255 => AsU8(v.n) = v.n) /\ (v.n \in Nat => AsU64(v.n) = v.n)
  BY NumbersStay
<1>1. ASSUME words = <<Ident("PRESET"), v>>, IsOf(v, {"ident", "prefixed", "str"}), sets = [preset |-> v.s]
      PROVE  Says("preset", v.s)
  <2>1. Fits(Value({"ident", "prefixed", "str"}), v)
    BY <1>1 DEF Fits, Value, OneOf, Word, Sign, IsOf, IsOneOf, Ident, Op, Tok
  <2>2. InRange("PRESET", at + 1) /\ Plain("PRESET")
    BY <1>1 DEF InRange, Plain, OneValue
  <2>3. Form("PRESET") = <<Value({"ident", "prefixed", "str"})>>
    BY DEF Form
  <2>4. toks[at + 1] = v /\ Advance(at + Len(words), "clause", Sets("PRESET", at + 1))
    BY <1>1, <2>1, <2>2, <2>3, OneMoreWord
  <2>. QED BY <1>1, <2>4 DEF Sets, IsOf, Ident, Tok
<1>2. ASSUME words = <<Ident("POLARITY"), v>>, IsOneOf(v, {"ident"}, Polarities), sets = [polarity |-> v.s]
      PROVE  Says("polarity", v.s)
  <2>1. Fits(OneOf(Polarities, {"ident"}), v)
    BY <1>2 DEF Fits, Value, OneOf, Word, Sign, IsOf, IsOneOf, Ident, Op, Tok
  <2>2. InRange("POLARITY", at + 1) /\ Plain("POLARITY")
    BY <1>2 DEF InRange, Plain, OneValue
  <2>3. Form("POLARITY") = <<OneOf(Polarities, {"ident"})>>
    BY DEF Form
  <2>4. toks[at + 1] = v /\ Advance(at + Len(words), "clause", Sets("POLARITY", at + 1))
    BY <1>2, <2>1, <2>2, <2>3, OneMoreWord
  <2>. QED BY <1>2, <2>4 DEF Sets, IsOf, Ident, Tok
<1>3. ASSUME words = <<Ident("MATURITY"), v>>, IsOf(v, {"int"}), sets = [maturity |-> AsU8(v.n)]
      PROVE  Says("maturity", AsU8(v.n))
  <2>1. Fits(Value({"int"}), v)
    BY <1>3 DEF Fits, Value, OneOf, Word, Sign, IsOf, IsOneOf, Ident, Op, Tok
  <2>2. InRange("MATURITY", at + 1) /\ Plain("MATURITY")
    BY <1>3 DEF InRange, Plain, OneValue
  <2>3. Form("MATURITY") = <<Value({"int"})>>
    <3>1. ~ Ahead(1, Op(">="))
      BY <1>3, LexemesDiffer DEF StandsAt, Ahead, IsOf, Ident, Op, Tok
    <3>. QED BY <3>1 DEF Form
  <2>4. toks[at + 1] = v /\ Advance(at + Len(words), "clause", Sets("MATURITY", at + 1))
    BY <1>3, <2>1, <2>2, <2>3, OneMoreWord
  <2>. QED BY <1>3, <2>4 DEF Sets, IsOf, Ident, Tok
<1>4. ASSUME words = <<Ident("MATURITY"), Op(">="), v>>, IsOf(v, {"int"}), sets = [maturity |-> AsU8(v.n)]
      PROVE  Says("maturity", AsU8(v.n))
  <2>. DEFINE slots == <<Sign(">="), Value({"int"})>>
  <2>1. words[1] = Ident("MATURITY") /\ IsList(slots) /\ Len(slots) = 2 /\ Len(words) = Len(slots) + 1
    BY <1>4 DEF IsList, Range
  <2>2. \A j \in DOMAIN slots : Fits(slots[j], words[j + 1])
    BY <1>4 DEF Fits, Value, OneOf, Word, Sign, IsOf, IsOneOf, Ident, Op, Tok
  <2>3. toks[at + 2] = v /\ at \in Nat
    BY <1>4 DEF StandsAt
  <2>4. InRange("MATURITY", at + Len(slots)) /\ Plain("MATURITY")
    BY <1>4, <2>1, <2>3 DEF InRange, Plain, OneValue
  <2>5. Form("MATURITY") = slots
    <3>1. Ahead(1, Op(">="))
      BY <1>4 DEF StandsAt, Ahead, IsOf, Ident, Op, Tok
    <3>. QED BY <3>1 DEF Form
  <2>. HIDE DEF slots
  <2>6. Advance(at + Len(words), "clause", Sets("MATURITY", at + Len(slots)))
    BY <2>1, <2>2, <2>4, <2>5, WordsAreRead
  <2>. QED BY <1>4, <2>1, <2>3, <2>6 DEF Sets, IsOf, Ident, Tok
<1>5. ASSUME words = <<Ident("IDENTITY"), v>>, IsOneOf(v, {"ident"}, DOMAIN IdentityModes), sets = [identity |-> IdentityModes[v.s]]
      PROVE  Says("identity", IdentityModes[v.s])
  <2>1. Fits(OneOf(DOMAIN IdentityModes, {"ident"}), v)
    BY <1>5 DEF Fits, Value, OneOf, Word, Sign, IsOf, IsOneOf, Ident, Op, Tok
  <2>2. InRange("IDENTITY", at + 1) /\ Plain("IDENTITY")
    BY <1>5 DEF InRange, Plain, OneValue
  <2>3. Form("IDENTITY") = <<OneOf(DOMAIN IdentityModes, {"ident"})>>
    BY DEF Form
  <2>4. toks[at + 1] = v /\ Advance(at + Len(words), "clause", Sets("IDENTITY", at + 1))
    BY <1>5, <2>1, <2>2, <2>3, OneMoreWord
  <2>. QED BY <1>5, <2>4 DEF Sets, IsOf, Ident, Tok
<1>6. ASSUME words = <<Ident("IDENTITY_LENS"), v>>, IsOneOf(v, {"ident"}, DOMAIN IdentityModes), sets = [identity |-> IdentityModes[v.s]]
      PROVE  Says("identity", IdentityModes[v.s])
  <2>1. Fits(OneOf(DOMAIN IdentityModes, {"ident"}), v)
    BY <1>6 DEF Fits, Value, OneOf, Word, Sign, IsOf, IsOneOf, Ident, Op, Tok
  <2>2. InRange("IDENTITY_LENS", at + 1) /\ Plain("IDENTITY_LENS")
    BY <1>6 DEF InRange, Plain, OneValue
  <2>3. Form("IDENTITY_LENS") = <<OneOf(DOMAIN IdentityModes, {"ident"})>>
    BY DEF Form
  <2>4. toks[at + 1] = v /\ Advance(at + Len(words), "clause", Sets("IDENTITY_LENS", at + 1))
    BY <1>6, <2>1, <2>2, <2>3, OneMoreWord
  <2>. QED BY <1>6, <2>4 DEF Sets, IsOf, Ident, Tok
<1>7. ASSUME words = <<Ident("PREDICATES"), v>>, v = Ident("EXPAND"), sets = [expansion |-> [mode |-> "expand"]]
      PROVE  Says("expansion", [mode |-> "expand"])
  <2>1. Fits(OneOf({"EXPAND", "STRICT", "EXPAND_ABOVE"}, {"ident"}), v)
    BY <1>7 DEF Fits, Value, OneOf, Word, Sign, IsOf, IsOneOf, Ident, Op, Tok
  <2>2. InRange("PREDICATES", at + 1) /\ Plain("PREDICATES")
    <3>1. toks[at + 1] = v
      BY <1>7 DEF StandsAt
    <3>. QED BY <1>7, <3>1 DEF InRange, Plain, OneValue, Ident, Tok
  <2>3. Form("PREDICATES") = <<OneOf({"EXPAND", "STRICT", "EXPAND_ABOVE"}, {"ident"})>>
    <3>1. ~ Ahead(1, Ident("EXPAND_ABOVE"))
      BY <1>7, LexemesDiffer DEF StandsAt, Ahead, IsOf, Ident, Op, Tok
    <3>. QED BY <3>1 DEF Form
  <2>4. toks[at + 1] = v /\ Advance(at + Len(words), "clause", Sets("PREDICATES", at + 1))
    BY <1>7, <2>1, <2>2, <2>3, OneMoreWord
  <2>. QED BY <1>7, <2>4 DEF Sets, IsOf, Ident, Tok
<1>8. ASSUME words = <<Ident("PREDICATES"), v>>, v = Ident("STRICT"), sets = [expansion |-> [mode |-> "strict"]]
      PROVE  Says("expansion", [mode |-> "strict"])
  <2>1. Fits(OneOf({"EXPAND", "STRICT", "EXPAND_ABOVE"}, {"ident"}), v)
    BY <1>8 DEF Fits, Value, OneOf, Word, Sign, IsOf, IsOneOf, Ident, Op, Tok
  <2>2. InRange("PREDICATES", at + 1) /\ Plain("PREDICATES")
    <3>1. toks[at + 1] = v
      BY <1>8 DEF StandsAt
    <3>. QED BY <1>8, <3>1 DEF InRange, Plain, OneValue, Ident, Tok
  <2>3. Form("PREDICATES") = <<OneOf({"EXPAND", "STRICT", "EXPAND_ABOVE"}, {"ident"})>>
    <3>1. ~ Ahead(1, Ident("EXPAND_ABOVE"))
      BY <1>8, LexemesDiffer DEF StandsAt, Ahead, IsOf, Ident, Op, Tok
    <3>. QED BY <3>1 DEF Form
  <2>4. toks[at + 1] = v /\ Advance(at + Len(words), "clause", Sets("PREDICATES", at + 1))
    BY <1>8, <2>1, <2>2, <2>3, OneMoreWord
  <2>. QED BY <1>8, <2>4 DEF Sets, IsOf, Ident, Tok
<1>9. ASSUME words = <<Ident("PREDICATES"), Ident("EXPAND_ABOVE"), v>>, IsOf(v, {"int"}), v.n \in 0..100, sets = [expansion |-> [mode |-> "above", percent |-> v.n]]
      PROVE  Says("expansion", [mode |-> "above", percent |-> v.n])
  <2>. DEFINE slots == <<OneOf({"EXPAND", "STRICT", "EXPAND_ABOVE"}, {"ident"}), Value({"int"})>>
  <2>1. words[1] = Ident("PREDICATES") /\ IsList(slots) /\ Len(slots) = 2 /\ Len(words) = Len(slots) + 1
    BY <1>9 DEF IsList, Range
  <2>2. \A j \in DOMAIN slots : Fits(slots[j], words[j + 1])
    BY <1>9 DEF Fits, Value, OneOf, Word, Sign, IsOf, IsOneOf, Ident, Op, Tok
  <2>3. toks[at + 2] = v /\ at \in Nat
    BY <1>9 DEF StandsAt, Ident
  <2>4. InRange("PREDICATES", at + Len(slots)) /\ Plain("PREDICATES")
    BY <1>9, <2>1, <2>3 DEF InRange, Plain, OneValue
  <2>5. Form("PREDICATES") = slots
    <3>1. Ahead(1, Ident("EXPAND_ABOVE"))
      BY <1>9 DEF StandsAt, Ahead, IsOf, Ident, Op, Tok
    <3>. QED BY <3>1 DEF Form
  <2>. HIDE DEF slots
  <2>6. Advance(at + Len(words), "clause", Sets("PREDICATES", at + Len(slots)))
    BY <2>1, <2>2, <2>4, <2>5, WordsAreRead
  <2>. QED BY <1>9, <2>1, <2>3, <2>6 DEF Sets, IsOf, Ident, Tok
<1>10. ASSUME words = <<Ident("AS_OF"), v>>, IsOneOf(v, {"str", "prefixed", "ident"}, Timestamp), sets = [asOf |-> v.s]
      PROVE  Says("asOf", v.s)
  <2>1. Fits(OneOf(Timestamp, {"str", "prefixed", "ident"}), v)
    BY <1>10 DEF Fits, Value, OneOf, Word, Sign, IsOf, IsOneOf, Ident, Op, Tok
  <2>2. InRange("AS_OF", at + 1) /\ Plain("AS_OF")
    BY <1>10 DEF InRange, Plain, OneValue
  <2>3. Form("AS_OF") = <<OneOf(Timestamp, {"str", "prefixed", "ident"})>>
    BY DEF Form
  <2>4. toks[at + 1] = v /\ Advance(at + Len(words), "clause", Sets("AS_OF", at + 1))
    BY <1>10, <2>1, <2>2, <2>3, OneMoreWord
  <2>. QED BY <1>10, <2>4 DEF Sets, IsOf, Ident, Tok
<1>11. ASSUME words = <<Ident("TRANSACTION_TIME"), Ident("AS_OF"), v>>, IsOneOf(v, {"str", "prefixed", "ident"}, Timestamp), sets = [asOf |-> v.s]
      PROVE  Says("asOf", v.s)
  <2>. DEFINE slots == <<Word("AS_OF"), OneOf(Timestamp, {"str", "prefixed", "ident"})>>
  <2>1. words[1] = Ident("TRANSACTION_TIME") /\ IsList(slots) /\ Len(slots) = 2 /\ Len(words) = Len(slots) + 1
    BY <1>11 DEF IsList, Range
  <2>2. \A j \in DOMAIN slots : Fits(slots[j], words[j + 1])
    BY <1>11 DEF Fits, Value, OneOf, Word, Sign, IsOf, IsOneOf, Ident, Op, Tok
  <2>3. toks[at + 2] = v /\ at \in Nat
    BY <1>11 DEF StandsAt
  <2>4. InRange("TRANSACTION_TIME", at + Len(slots)) /\ Plain("TRANSACTION_TIME")
    BY <1>11, <2>1, <2>3 DEF InRange, Plain, OneValue
  <2>5. Form("TRANSACTION_TIME") = slots
    BY DEF Form
  <2>. HIDE DEF slots
  <2>6. Advance(at + Len(words), "clause", Sets("TRANSACTION_TIME", at + Len(slots)))
    BY <2>1, <2>2, <2>4, <2>5, WordsAreRead
  <2>. QED BY <1>11, <2>1, <2>3, <2>6 DEF Sets, IsOf, Ident, Tok
<1>12. ASSUME words = <<Ident("POLICY"), Ident("ALLOWS"), v>>, IsOf(v, {"ident"}), sets = [policy |-> v.s]
      PROVE  Says("policy", v.s)
  <2>. DEFINE slots == <<Word("ALLOWS"), Value({"ident"})>>
  <2>1. words[1] = Ident("POLICY") /\ IsList(slots) /\ Len(slots) = 2 /\ Len(words) = Len(slots) + 1
    BY <1>12 DEF IsList, Range
  <2>2. \A j \in DOMAIN slots : Fits(slots[j], words[j + 1])
    BY <1>12 DEF Fits, Value, OneOf, Word, Sign, IsOf, IsOneOf, Ident, Op, Tok
  <2>3. toks[at + 2] = v /\ at \in Nat
    BY <1>12 DEF StandsAt
  <2>4. InRange("POLICY", at + Len(slots)) /\ Plain("POLICY")
    BY <1>12, <2>1, <2>3 DEF InRange, Plain, OneValue
  <2>5. Form("POLICY") = slots
    BY DEF Form
  <2>. HIDE DEF slots
  <2>6. Advance(at + Len(words), "clause", Sets("POLICY", at + Len(slots)))
    BY <2>1, <2>2, <2>4, <2>5, WordsAreRead
  <2>. QED BY <1>12, <2>1, <2>3, <2>6 DEF Sets, IsOf, Ident, Tok
<1>13. ASSUME words = <<Ident("SCHEMA_LENS"), v>>, IsOf(v, {"angle", "prefixed", "ident"}), sets = [lens |-> v.s]
      PROVE  Says("lens", v.s)
  <2>1. Fits(Value({"angle", "prefixed", "ident"}), v)
    BY <1>13 DEF Fits, Value, OneOf, Word, Sign, IsOf, IsOneOf, Ident, Op, Tok
  <2>2. InRange("SCHEMA_LENS", at + 1) /\ Plain("SCHEMA_LENS")
    BY <1>13 DEF InRange, Plain, OneValue
  <2>3. Form("SCHEMA_LENS") = <<Value({"angle", "prefixed", "ident"})>>
    BY DEF Form
  <2>4. toks[at + 1] = v /\ Advance(at + Len(words), "clause", Sets("SCHEMA_LENS", at + 1))
    BY <1>13, <2>1, <2>2, <2>3, OneMoreWord
  <2>. QED BY <1>13, <2>4 DEF Sets, IsOf, Ident, Tok
<1>14. ASSUME words = <<Ident("LIMIT"), v>>, IsOf(v, {"int"}), sets = [limit |-> AsU64(v.n)]
      PROVE  Says("limit", AsU64(v.n))
  <2>1. Fits(Value({"int"}), v)
    BY <1>14 DEF Fits, Value, OneOf, Word, Sign, IsOf, IsOneOf, Ident, Op, Tok
  <2>2. InRange("LIMIT", at + 1) /\ Plain("LIMIT")
    BY <1>14 DEF InRange, Plain, OneValue
  <2>3. Form("LIMIT") = <<Value({"int"})>>
    BY DEF Form
  <2>4. toks[at + 1] = v /\ Advance(at + Len(words), "clause", Sets("LIMIT", at + 1))
    BY <1>14, <2>1, <2>2, <2>3, OneMoreWord
  <2>. QED BY <1>14, <2>4 DEF Sets, IsOf, Ident, Tok
<1>15. ASSUME words = <<Ident("OFFSET"), v>>, IsOf(v, {"int"}), sets = [offset |-> AsU64(v.n)]
      PROVE  Says("offset", AsU64(v.n))
  <2>1. Fits(Value({"int"}), v)
    BY <1>15 DEF Fits, Value, OneOf, Word, Sign, IsOf, IsOneOf, Ident, Op, Tok
  <2>2. InRange("OFFSET", at + 1) /\ Plain("OFFSET")
    BY <1>15 DEF InRange, Plain, OneValue
  <2>3. Form("OFFSET") = <<Value({"int"})>>
    BY DEF Form
  <2>4. toks[at + 1] = v /\ Advance(at + Len(words), "clause", Sets("OFFSET", at + 1))
    BY <1>15, <2>1, <2>2, <2>3, OneMoreWord
  <2>. QED BY <1>15, <2>4 DEF Sets, IsOf, Ident, Tok
<1>16. ASSUME words = <<Ident("WITH"), Ident("evidence"), Op("="), v>>, IsOneOf(v, {"ident"}, Evidence), sets = [evidence |-> v.s]
      PROVE  Says("evidence", v.s)
  <2>. DEFINE slots == <<Word("evidence"), Sign("="), OneOf(Evidence, {"ident"})>>
  <2>1. words[1] = Ident("WITH") /\ IsList(slots) /\ Len(slots) = 3 /\ Len(words) = Len(slots) + 1
    BY <1>16 DEF IsList, Range
  <2>2. \A j \in DOMAIN slots : Fits(slots[j], words[j + 1])
    BY <1>16 DEF Fits, Value, OneOf, Word, Sign, IsOf, IsOneOf, Ident, Op, Tok
  <2>3. toks[at + 3] = v /\ at \in Nat
    BY <1>16 DEF StandsAt
  <2>4. InRange("WITH", at + Len(slots)) /\ Plain("WITH")
    BY <1>16, <2>1, <2>3 DEF InRange, Plain, OneValue
  <2>5. Form("WITH") = slots
    BY DEF Form
  <2>. HIDE DEF slots
  <2>6. Advance(at + Len(words), "clause", Sets("WITH", at + Len(slots)))
    BY <2>1, <2>2, <2>4, <2>5, WordsAreRead
  <2>. QED BY <1>16, <2>1, <2>3, <2>6 DEF Sets, IsOf, Ident, Tok
<1>17. ASSUME NEW c \in Range(words),
             words = <<Ident("EXPANDS_FROM"), Ident("concept"), c, Ident("USING"), Ident("schema_lens"), v>>,
             IsOf(c, {"angle", "prefixed", "str"}), IsOf(v, {"angle", "prefixed", "str"}),
             sets = [expands |-> [concept |-> c.s, lens |-> v.s]]
      PROVE  Says("expands", [concept |-> c.s, lens |-> v.s])
  <2>. DEFINE slots == <<Word("concept"), Value({"angle", "prefixed", "str"}), Word("USING"), Word("schema_lens"), Value({"angle", "prefixed", "str"})>>
  <2>1. words[1] = Ident("EXPANDS_FROM") /\ IsList(slots) /\ Len(slots) = 5 /\ Len(words) = Len(slots) + 1
    BY <1>17 DEF IsList, Range
  <2>2. \A j \in DOMAIN slots : Fits(slots[j], words[j + 1])
    BY <1>17 DEF Fits, Value, OneOf, Word, Sign, IsOf, IsOneOf, Ident, Op, Tok
  <2>3. toks[at + 5] = v /\ toks[at + 5 - 3] = c /\ at \in Nat
    BY <1>17 DEF StandsAt
  <2>4. InRange("EXPANDS_FROM", at + Len(slots)) /\ Plain("EXPANDS_FROM")
    BY <1>17, <2>1, <2>3 DEF InRange, Plain, OneValue
  <2>5. Form("EXPANDS_FROM") = slots
    BY DEF Form
  <2>. HIDE DEF slots
  <2>6. Advance(at + Len(words), "clause", Sets("EXPANDS_FROM", at + Len(slots)))
    BY <2>1, <2>2, <2>4, <2>5, WordsAreRead
  <2>. QED BY <1>17, <2>1, <2>3, <2>6 DEF Sets, IsOf, Ident, Tok
<1>18. ASSUME NEW kw \in {"ORDER_BY", "ORDER"}, NEW slots, Form(kw) = slots, IsList(slots),
              NEW way \in {"none", "DESC", "ASC"}, Len(words) = Len(slots) + (IF way = "none" THEN 1 ELSE 2),
              words[1] = Ident(kw), \A j \in DOMAIN slots : Fits(slots[j], words[j + 1]),
              way # "none" => words[Len(words)] = Ident(way),
              sets = [order |-> IF way = "ASC" THEN "asc" ELSE "desc"]
      PROVE  Says("order", IF way = "ASC" THEN "asc" ELSE "desc")
  <2>1. Here = Ident(kw) /\ at \in Nat /\ Len(slots) \in Nat /\ DOMAIN slots = 1..Len(slots) /\ DOMAIN words = 1..Len(words)
    <3>1. 1 \in DOMAIN words /\ at + 1 - 1 = at
      BY <1>18 DEF StandsAt, IsList
    <3>. QED BY <1>18, <3>1 DEF StandsAt, Here, IsList
  <2>2. \A j \in DOMAIN slots : toks[at + j] = words[j + 1]
    <3>. TAKE j \in DOMAIN slots
    <3>1. j + 1 \in DOMAIN words /\ at + (j + 1) - 1 = at + j
      BY <1>18, <2>1
    <3>. QED BY <3>1 DEF StandsAt
  <2>. DEFINE e == at + Len(slots)
  <2>3. e \in Nat /\ at + Len(words) = (IF way = "none" THEN e + 1 ELSE e + 2)
    BY <1>18, <2>1
  <2>4. way # "none" => toks[e + 1] = Ident(way)
    <3>. SUFFICES ASSUME way # "none" PROVE toks[e + 1] = Ident(way)
      OBVIOUS
    <3>1. Len(words) \in DOMAIN words /\ e + 1 = at + Len(words) - 1
      BY <1>18, <2>1
    <3>. QED BY <1>18, <3>1 DEF StandsAt
  <2>5. way = "none" => toks[e + 1] \notin Directions
    BY <2>3, LexemesDiffer DEF StandsAt, Directions
  <2>6. toks[e + 1] = Ident("ASC") <=> way = "ASC"
    BY <2>3, <2>4, LexemesDiffer DEF StandsAt, Ident, Tok
  <2>7. toks[e + 1] \in Directions <=> way # "none"
    BY <1>18, <2>4, <2>5 DEF Directions
  <2>. HIDE DEF e
  <2>8. Advance(IF toks[e + 1] \in Directions THEN e + 2 ELSE e + 1, "clause", Sets(kw, e))
    BY <1>18, <2>1, <2>2, <2>3, FittingIsRead DEF InRange, OneValue, e
  <2>9. Sets(kw, e) = [query EXCEPT !["order"] = IF way = "ASC" THEN "asc" ELSE "desc"]
    BY <1>18, <2>6 DEF Sets
  <2>. QED BY <1>18, <2>3, <2>7, <2>8, <2>9
<1>19. ASSUME NEW kw \in {"ORDER_BY", "ORDER"}, NEW ways, IsOneOf(v, {"ident"}, Orders),
              ways \in {<<>>, <<Ident("DESC")>>, <<Ident("ASC")>>},
              words = (IF kw = "ORDER_BY" THEN <<Ident(kw), v>> ELSE <<Ident(kw), Ident("BY"), v>>) \o ways,
              sets = [order |-> IF ways = <<Ident("ASC")>> THEN "asc" ELSE "desc"]
       PROVE  \E x : Says("order", x)
  <2>. DEFINE order == OneOf(Orders, {"ident"})
              slots == IF kw = "ORDER_BY" THEN <<order>> ELSE <<Word("BY"), order>>
              way == IF ways = <<>> THEN "none" ELSE IF ways = <<Ident("ASC")>> THEN "ASC" ELSE "DESC"
  <2>1. Form(kw) = slots /\ IsList(slots)
    <3>1. Form("ORDER_BY") = <<order>> /\ Form("ORDER") = <<Word("BY"), order>>
      BY DEF Form
    <3>2. IsList(<<order>>) /\ IsList(<<Word("BY"), order>>)
      BY DEF IsList, Range
    <3>. QED BY <1>19, <3>1, <3>2
  <2>2. Ident("ASC") # Ident("DESC")
    BY DEF Ident, Tok
  <2>3. /\ way = "none" <=> ways = <<>>
        /\ way = "ASC" <=> ways = <<Ident("ASC")>>
        /\ way = "DESC" <=> ways = <<Ident("DESC")>>
    <3>1. <<>> # <<Ident("ASC")>> /\ <<>> # <<Ident("DESC")>> /\ <<Ident("ASC")>> # <<Ident("DESC")>>
      BY <2>2
    <3>2. ways = <<>> \/ ways = <<Ident("DESC")>> \/ ways = <<Ident("ASC")>>
      BY <1>19
    <3>. QED BY <3>1, <3>2
  <2>4. /\ words[1] = Ident(kw) /\ Len(words) = Len(slots) + (IF way = "none" THEN 1 ELSE 2)
        /\ words[Len(slots) + 1] = v /\ Len(slots) = 2 => words[2] = Ident("BY")
        /\ way # "none" => words[Len(words)] = Ident(way)
    BY <1>19, <2>3
  <2>5. \A j \in DOMAIN slots : Fits(slots[j], words[j + 1])
    BY <1>19, <2>4 DEF Fits, OneOf, Word, IsOneOf, Ident, Tok
  <2>6. way \in {"none", "DESC", "ASC"} /\ sets = [order |-> IF way = "ASC" THEN "asc" ELSE "desc"]
    BY <1>19, <2>3
  <2>. HIDE DEF slots, way
  <2>. QED BY <1>18, <2>1, <2>4, <2>5, <2>6
<1>20. ASSUME \/ words = <<Ident("ORDER_BY"), v>> \/ words = <<Ident("ORDER_BY"), v, Ident("DESC")>>
              \/ words = <<Ident("ORDER"), Ident("BY"), v>> \/ words = <<Ident("ORDER"), Ident("BY"), v, Ident("DESC")>>,
              IsOneOf(v, {"ident"}, Orders), sets = [order |-> "desc"]
       PROVE  \E x : Says("order", x)
  <2>1. <<Ident("DESC")>> # <<Ident("ASC")>> /\ <<>> # <<Ident("ASC")>>
    BY DEF Ident, Tok
  <2>2. words \in {<<Ident("ORDER_BY"), v>> \o <<>>, <<Ident("ORDER_BY"), v>> \o <<Ident("DESC")>>,
                   <<Ident("ORDER"), Ident("BY"), v>> \o <<>>, <<Ident("ORDER"), Ident("BY"), v>> \o <<Ident("DESC")>>}
    BY <1>20
  <2>. QED BY <1>19, <1>20, <2>1, <2>2
<1>21. ASSUME \/ words = <<Ident("ORDER_BY"), v, Ident("ASC")>> \/ words = <<Ident("ORDER"), Ident("BY"), v, Ident("ASC")>>,
              IsOneOf(v, {"ident"}, Orders), sets = [order |-> "asc"]
       PROVE  \E x : Says("order", x)
  <2>1. words \in {<<Ident("ORDER_BY"), v>> \o <<Ident("ASC")>>, <<Ident("ORDER"), Ident("BY"), v>> \o <<Ident("ASC")>>}
    BY <1>21
  <2>. QED BY <1>19, <1>21, <2>1
<1>22. \E f \in {"preset", "polarity", "maturity", "identity", "expansion", "asOf", "policy", "lens",
                  "expands", "order", "evidence", "limit", "offset"} : \E x : Says(f, x)
  <2>. HIDE DEF Says
  <2>. QED
    BY <1>0, <1>01, <1>1, <1>2, <1>3, <1>4, <1>5, <1>6, <1>7, <1>8, <1>9, <1>10, <1>11, <1>12, <1>13, <1>14, <1>15,
       <1>16, <1>17, <1>20, <1>21 DEF ValueSays
<1>. QED BY <1>22, QueryFields

\* A name of a term is a token that fits, and the term it is read as.
LEMMA NameIsRead ==
  ASSUME NEW tok, NEW term, Names(tok, term)
  PROVE  Fits(ATerm, tok) /\ TermOf(tok) = term
BY DEF Names, Fits, ATerm, Value, TermOf

\* Slots written out.
LEMMA OneSlot ==
  ASSUME NEW s1, NEW slots, slots = <<s1>>, at \in Nat, Fits(s1, toks[at])
  PROVE  /\ IsList(slots) /\ Len(slots) = 1
         /\ \A j \in DOMAIN slots : Fits(slots[j], toks[at + j - 1])
<1>1. IsList(slots) /\ Len(slots) = 1 /\ DOMAIN slots = {1} /\ slots[1] = s1 /\ at + 1 - 1 = at
  BY DEF IsList, Range
<1>. QED BY <1>1

LEMMA ThreeSlots ==
  ASSUME NEW s1, NEW s2, NEW s3, NEW slots, slots = <<s1, s2, s3>>, at \in Nat,
         Fits(s1, toks[at]), Fits(s2, toks[at + 1]), Fits(s3, toks[at + 2])
  PROVE  /\ IsList(slots) /\ Len(slots) = 3
         /\ \A j \in DOMAIN slots : Fits(slots[j], toks[at + j - 1])
<1>1. IsList(slots) /\ Len(slots) = 3 /\ DOMAIN slots = {1, 2, 3} /\ slots[1] = s1 /\ slots[2] = s2 /\ slots[3] = s3
  BY DEF IsList, Range
<1>2. at + 1 - 1 = at /\ at + 2 - 1 = at + 1 /\ at + 3 - 1 = at + 2
  OBVIOUS
<1>. QED BY <1>1, <1>2

LEMMA FiveSlots ==
  ASSUME NEW s1, NEW s2, NEW s3, NEW s4, NEW s5, NEW slots, slots = <<s1, s2, s3, s4, s5>>, at \in Nat,
         Fits(s1, toks[at]), Fits(s2, toks[at + 1]), Fits(s3, toks[at + 2]),
         Fits(s4, toks[at + 3]), Fits(s5, toks[at + 4])
  PROVE  /\ IsList(slots) /\ Len(slots) = 5
         /\ \A j \in DOMAIN slots : Fits(slots[j], toks[at + j - 1])
<1>1. IsList(slots) /\ Len(slots) = 5 /\ DOMAIN slots = {1, 2, 3, 4, 5}
  BY DEF IsList, Range
<1>2. slots[1] = s1 /\ slots[2] = s2 /\ slots[3] = s3 /\ slots[4] = s4 /\ slots[5] = s5
  OBVIOUS
<1>3. at + 1 - 1 = at /\ at + 2 - 1 = at + 1 /\ at + 3 - 1 = at + 2 /\ at + 4 - 1 = at + 3 /\ at + 5 - 1 = at + 4
  OBVIOUS
<1>. QED BY <1>1, <1>2, <1>3

\* The parser is at the words from a to b - 1.
ItemStands(words, a, b) ==
  /\ at \in Nat /\ Len(toks) \in Nat /\ at + (b - a) <= Len(toks)
  /\ \A m \in 0..b - a - 1 : toks[at + m] = words[a + m]
  /\ toks[at + (b - a)] # Ident("IN")

\* The words of an item are read as it.
LEMMA ItemIsRead ==
  ASSUME NEW list \in DOMAIN ListField, NEW words, NEW a \in Nat, NEW b, NEW x, IsItem(list, words, a, b, x),
         ItemStands(words, a, b)
  PROVE  /\ IsList(ItemForm(list)) /\ Len(ItemForm(list)) = b - a
         /\ \A j \in DOMAIN ItemForm(list) : Fits(ItemForm(list)[j], toks[at + j - 1])
         /\ Item(list) = x
<1>. DEFINE Reading ==
              /\ IsList(ItemForm(list)) /\ Len(ItemForm(list)) = b - a
              /\ \A j \in DOMAIN ItemForm(list) : Fits(ItemForm(list)[j], toks[at + j - 1])
              /\ Item(list) = x
<1>0. /\ at \in Nat /\ Len(toks) \in Nat /\ at + (b - a) <= Len(toks)
      /\ \A m \in 0..b - a - 1 : toks[at + m] = words[a + m]
      /\ toks[at + (b - a)] # Ident("IN")
  BY DEF ItemStands
<1>1. CASE list = "MATCH" /\ b = a + 3
  <2>1. /\ x = Pattern(x.subject, x.predicate, x.object, None)
        /\ Names(words[a], x.subject) /\ Names(words[a + 1], x.predicate) /\ Names(words[a + 2], x.object)
    BY <1>1 DEF IsItem
  <2>2. toks[at] = words[a] /\ toks[at + 1] = words[a + 1] /\ toks[at + 2] = words[a + 2] /\ toks[at + 3] # Ident("IN")
    <3>1. \A m \in 0..2 : toks[at + m] = words[a + m]
      <4>1. b - a - 1 = 2
        BY <1>1
      <4>2. \A m \in 0..b - a - 1 : toks[at + m] = words[a + m]
        BY <1>0
      <4>. QED BY <4>1, <4>2
    <3>2. at + 0 = at /\ a + 0 = a /\ {0, 1, 2} \subseteq 0..2
      BY <1>0
    <3>3. toks[at + 3] # Ident("IN")
      <4>1. b - a = 3
        BY <1>1
      <4>. QED BY <1>0, <4>1
    <3>. QED BY <3>1, <3>2, <3>3
  <2>3. ~ Ahead(3, Ident("IN"))
    BY <2>2 DEF Ahead
  <2>4. ItemForm(list) = <<ATerm, ATerm, ATerm>>
    BY <1>0, <1>1, <2>3 DEF ItemForm
  <2>5. Fits(ATerm, toks[at]) /\ Fits(ATerm, toks[at + 1]) /\ Fits(ATerm, toks[at + 2])
    BY <2>1, <2>2, NameIsRead
  <2>6. Item(list) = Pattern(x.subject, x.predicate, x.object, None)
    BY <1>0, <1>1, <2>1, <2>2, <2>3, NameIsRead DEF Item
  <2>7. IsList(ItemForm(list)) /\ Len(ItemForm(list)) = 3 /\ \A j \in DOMAIN ItemForm(list) : Fits(ItemForm(list)[j], toks[at + j - 1])
    <3>1. at \in Nat
      BY <1>0
    <3>. QED BY <3>1, <2>4, <2>5, ThreeSlots
  <2>8. b - a = 3
    BY <1>1
  <2>. QED BY <2>1, <2>6, <2>7, <2>8
<1>2. CASE list = "MATCH" /\ b = a + 5
  <2>1. /\ x = Pattern(x.subject, x.predicate, x.object, x.graph)
        /\ Names(words[a], x.subject) /\ Names(words[a + 1], x.predicate) /\ Names(words[a + 2], x.object)
        /\ words[a + 3] = Ident("IN") /\ Names(words[a + 4], x.graph)
    BY <1>2 DEF IsItem
  <2>2. /\ toks[at] = words[a] /\ toks[at + 1] = words[a + 1] /\ toks[at + 2] = words[a + 2]
        /\ toks[at + 3] = words[a + 3] /\ toks[at + 4] = words[a + 4]
    <3>1. \A m \in 0..4 : toks[at + m] = words[a + m]
      <4>1. b - a - 1 = 4
        BY <1>2
      <4>2. \A m \in 0..b - a - 1 : toks[at + m] = words[a + m]
        BY <1>0
      <4>. QED BY <4>1, <4>2
    <3>2. at + 0 = at /\ a + 0 = a /\ {0, 1, 2, 3, 4} \subseteq 0..4
      BY <1>0
    <3>. QED BY <3>1, <3>2
  <2>3. Ahead(3, Ident("IN"))
    BY <1>0, <1>2, <2>1, <2>2 DEF Ahead
  <2>4. ItemForm(list) = <<ATerm, ATerm, ATerm, Word("IN"), ATerm>>
    BY <1>0, <1>2, <2>3 DEF ItemForm
  <2>5. /\ Fits(ATerm, toks[at]) /\ Fits(ATerm, toks[at + 1]) /\ Fits(ATerm, toks[at + 2])
        /\ Fits(Word("IN"), toks[at + 3]) /\ Fits(ATerm, toks[at + 4])
    <3>1. Fits(Word("IN"), Ident("IN"))
      BY DEF Fits, Word, Ident, Tok
    <3>. QED BY <2>1, <2>2, <3>1, NameIsRead
  <2>6. Item(list) = Pattern(x.subject, x.predicate, x.object, x.graph)
    BY <1>0, <1>2, <2>1, <2>2, <2>3, NameIsRead DEF Item
  <2>7. IsList(ItemForm(list)) /\ Len(ItemForm(list)) = 5 /\ \A j \in DOMAIN ItemForm(list) : Fits(ItemForm(list)[j], toks[at + j - 1])
    <3>1. at \in Nat
      BY <1>0
    <3>. QED BY <3>1, <2>4, <2>5, FiveSlots
  <2>8. b - a = 5
    BY <1>2
  <2>. QED BY <2>1, <2>6, <2>7, <2>8
<1>3. CASE list = "FILTER"
  <2>1. /\ b = a + 3 /\ words[a + 1].t = "op" /\ x = Filter(words[a + 1].s, x.lhs, x.rhs)
        /\ Names(words[a], x.lhs) /\ Names(words[a + 2], x.rhs)
    BY <1>3 DEF IsItem
  <2>2. toks[at] = words[a] /\ toks[at + 1] = words[a + 1] /\ toks[at + 2] = words[a + 2]
    <3>1. \A m \in 0..2 : toks[at + m] = words[a + m]
      <4>1. b - a - 1 = 2
        BY <2>1
      <4>2. \A m \in 0..b - a - 1 : toks[at + m] = words[a + m]
        BY <1>0
      <4>. QED BY <4>1, <4>2
    <3>2. at + 0 = at /\ a + 0 = a /\ {0, 1, 2} \subseteq 0..2
      BY <1>0
    <3>. QED BY <3>1, <3>2
  <2>3. ItemForm(list) = <<ATerm, AnyOp, ATerm>>
    BY <1>3 DEF ItemForm
  <2>4. Fits(ATerm, toks[at]) /\ Fits(AnyOp, toks[at + 1]) /\ Fits(ATerm, toks[at + 2])
    <3>1. Fits(AnyOp, words[a + 1])
      BY <2>1 DEF Fits, AnyOp
    <3>. QED BY <2>1, <2>2, <3>1, NameIsRead
  <2>5. Item(list) = Filter(words[a + 1].s, x.lhs, x.rhs)
    BY <1>3, <2>1, <2>2, NameIsRead DEF Item
  <2>6. IsList(ItemForm(list)) /\ Len(ItemForm(list)) = 3 /\ \A j \in DOMAIN ItemForm(list) : Fits(ItemForm(list)[j], toks[at + j - 1])
    <3>1. at \in Nat
      BY <1>0
    <3>. QED BY <3>1, <2>3, <2>4, ThreeSlots
  <2>7. b - a = 3
    BY <2>1
  <2>. QED BY <2>1, <2>5, <2>6, <2>7
<1>4. CASE list \in {"MODALITY", "EXTRACTION_LEVEL", "PROJECT"}
  <2>1. b = a + 1 /\ words[a].t = (IF list = "PROJECT" THEN "var" ELSE "ident") /\ x = words[a].s
    BY <1>4 DEF IsItem
  <2>2. toks[at] = words[a]
    <3>1. toks[at + 0] = words[a + 0]
      <4>1. 0 \in 0..b - a - 1
        BY <2>1
      <4>. QED BY <1>0, <4>1
    <3>2. at + 0 = at /\ a + 0 = a
      BY <1>0
    <3>. QED BY <3>1, <3>2
  <2>3. ItemForm(list) = <<Value({IF list = "PROJECT" THEN "var" ELSE "ident"})>>
    BY <1>4 DEF ItemForm
  <2>4. Fits(Value({IF list = "PROJECT" THEN "var" ELSE "ident"}), toks[at])
    BY <2>1, <2>2 DEF Fits, Value
  <2>5. Item(list) = x
    BY <1>4, <2>1, <2>2 DEF Item, Here
  <2>6. IsList(ItemForm(list)) /\ Len(ItemForm(list)) = 1 /\ \A j \in DOMAIN ItemForm(list) : Fits(ItemForm(list)[j], toks[at + j - 1])
    BY <1>0, <2>3, <2>4, OneSlot
  <2>7. b - a = 1
    BY <2>1
  <2>. QED BY <2>5, <2>6, <2>7
<1>5. DOMAIN ListField = {"MATCH", "FILTER", "MODALITY", "EXTRACTION_LEVEL", "PROJECT"}
  BY DEF ListField
<1>6. list = "MATCH" => b \in {a + 3, a + 5}
  BY DEF IsItem
<1>. QED BY <1>1, <1>2, <1>3, <1>4, <1>5, <1>6

-----------------------------------------------------------------------------
(* What clauses say. *)

LEMMA SayMore ==
  ASSUME NEW cs, NEW n \in Nat \ {0}, NEW q, Say(cs, n - 1, q), NEW f \in DOMAIN DefaultQuery, NEW x,
         cs[n].sets = [g \in {f} |-> x]
  PROVE  Say(cs, n, [q EXCEPT ![f] = x])
<1>. DEFINE q2 == [q EXCEPT ![f] = x]
<1>1. q2 = [g \in DOMAIN DefaultQuery |-> IF g = f THEN x ELSE q[g]]
  BY DEF Say
<1>2. DOMAIN cs[n].sets = {f} /\ cs[n].sets[f] = x
  OBVIOUS
<1>. HIDE DEF q2
<1>3. ASSUME NEW g \in DOMAIN DefaultQuery
      PROVE  \/ q2[g] = DefaultQuery[g] /\ \A m \in 1..n : g \notin DOMAIN cs[m].sets
             \/ \E m \in 1..n : /\ g \in DOMAIN cs[m].sets /\ q2[g] = cs[m].sets[g]
                                /\ \A l \in m + 1..n : g \notin DOMAIN cs[l].sets
  <2>1. CASE g = f
    <3>1. n \in 1..n /\ \A l \in n + 1..n : g \notin DOMAIN cs[l].sets
      OBVIOUS
    <3>. QED BY <1>1, <1>2, <2>1, <3>1
  <2>2. CASE g # f
    <3>1. q2[g] = q[g] /\ g \notin DOMAIN cs[n].sets
      BY <1>1, <1>2, <2>2
    <3>2. CASE q[g] = DefaultQuery[g] /\ \A m \in 1..n - 1 : g \notin DOMAIN cs[m].sets
      BY <3>1, <3>2
    <3>3. ASSUME NEW m \in 1..n - 1, g \in DOMAIN cs[m].sets, q[g] = cs[m].sets[g],
                 \A l \in m + 1..n - 1 : g \notin DOMAIN cs[l].sets
          PROVE  m \in 1..n /\ \A l \in m + 1..n : g \notin DOMAIN cs[l].sets
      BY <3>1, <3>3
    <3>. QED BY <3>1, <3>2, <3>3 DEF Say
  <2>. QED BY <2>1, <2>2
<1>4. q2 = [g \in DOMAIN DefaultQuery |-> q2[g]]
  BY <1>1
<1>5. Say(cs, n, q2)
  BY <1>3, <1>4 DEF Say
<1>. QED BY <1>5 DEF q2

LEMMA SayNothing ==
  ASSUME NEW cs, NEW n \in Nat \ {0}, NEW q, Say(cs, n - 1, q), cs[n].sets = <<>>
  PROVE  Say(cs, n, q)
<1>1. \A g : g \notin DOMAIN cs[n].sets
  OBVIOUS
<1>2. ASSUME NEW g \in DOMAIN DefaultQuery
      PROVE  \/ q[g] = DefaultQuery[g] /\ \A m \in 1..n : g \notin DOMAIN cs[m].sets
             \/ \E m \in 1..n : /\ g \in DOMAIN cs[m].sets /\ q[g] = cs[m].sets[g]
                                /\ \A l \in m + 1..n : g \notin DOMAIN cs[l].sets
  <2>1. CASE q[g] = DefaultQuery[g] /\ \A m \in 1..n - 1 : g \notin DOMAIN cs[m].sets
    BY <1>1, <2>1
  <2>2. ASSUME NEW m \in 1..n - 1, g \in DOMAIN cs[m].sets, q[g] = cs[m].sets[g],
               \A l \in m + 1..n - 1 : g \notin DOMAIN cs[l].sets
        PROVE  m \in 1..n /\ \A l \in m + 1..n : g \notin DOMAIN cs[l].sets
    BY <1>1, <2>2
  <2>. QED BY <2>1, <2>2 DEF Say
<1>. QED BY <1>2 DEF Say

\* Clauses say one thing.
LEMMA SayOne ==
  ASSUME NEW cs, NEW n \in Nat, NEW q1, NEW q2, Say(cs, n, q1), Say(cs, n, q2)
  PROVE  q1 = q2
<1>1. ASSUME NEW f \in DOMAIN DefaultQuery PROVE q1[f] = q2[f]
  <2>1. ASSUME NEW m \in 1..n, f \in DOMAIN cs[m].sets, \A l \in m + 1..n : f \notin DOMAIN cs[l].sets,
               NEW k1 \in 1..n, f \in DOMAIN cs[k1].sets, \A l \in k1 + 1..n : f \notin DOMAIN cs[l].sets
        PROVE  m = k1
    BY <2>1
  <2>. QED BY <2>1 DEF Say
<1>. QED BY <1>1 DEF Say

-----------------------------------------------------------------------------
(* Where clauses and their entries stand. *)

LEMMA ClauseBegins ==
  ASSUME NEW c, IsClause(c), IsList(c.words), IsList(c.entries)
  PROVE  /\ 1 \in DOMAIN c.words /\ Follows(c.words[1]) /\ c.words[1] # Eof
         /\ \/ c.words = <<Semi>> /\ c.sets = <<>> /\ c.words[1] = Semi
            \/ ValueClause(c.words, c.sets) /\ \E kw \in OneValue : c.words[1] = Ident(kw)
            \/ ListClause(c.words, c.entries, c.sets) /\ \E kw \in DOMAIN ListField : c.words[1] = Ident(kw)
            \/ ScopeClause(c.words, c.entries, c.sets) /\ c.words[1] = Ident("SCOPE")
<1>1. ASSUME c.words = <<Semi>>
      PROVE  1 \in DOMAIN c.words /\ Follows(c.words[1]) /\ c.words[1] # Eof
  <2>1. Semi # Eof
    BY DEF Semi, Eof, Tok
  <2>2. 1 \in DOMAIN c.words /\ c.words[1] = Semi
    BY <1>1
  <2>. QED BY <2>1, <2>2 DEF Follows
<1>2. ASSUME NEW kw \in OneValue \cup DOMAIN ListField \cup {"SCOPE"}, c.words[1] = Ident(kw)
      PROVE  Follows(c.words[1]) /\ c.words[1] # Eof
  <2>1. Ident(kw) # Eof
    BY DEF Ident, Eof, Tok
  <2>. QED BY <1>2, <2>1 DEF Follows
<1>3. ASSUME ValueClause(c.words, c.sets)
      PROVE  1 \in DOMAIN c.words /\ \E kw \in OneValue : c.words[1] = Ident(kw)
  <2>1. PICK v \in Range(c.words) : ValueSays(c.words, v, c.sets)
    BY <1>3 DEF ValueClause
  <2>2. 1 \in DOMAIN c.words
    BY DEF IsList, Range
  <2>3. \E kw : kw \in OneValue /\ c.words[1] = Ident(kw)
    <3>. DEFINE first == c.words[1]
    <3>1. \/ first = Ident("PRESET") \/ first = Ident("POLARITY") \/ first = Ident("MATURITY")
          \/ first = Ident("IDENTITY") \/ first = Ident("IDENTITY_LENS") \/ first = Ident("PREDICATES")
          \/ first = Ident("AS_OF") \/ first = Ident("TRANSACTION_TIME") \/ first = Ident("POLICY")
          \/ first = Ident("SCHEMA_LENS") \/ first = Ident("EXPANDS_FROM") \/ first = Ident("ORDER_BY")
          \/ first = Ident("ORDER") \/ first = Ident("WITH") \/ first = Ident("LIMIT") \/ first = Ident("OFFSET")
      <4>1. /\ \A x1, x2 : c.words = <<x1, x2>> => first = x1
            /\ \A x1, x2, x3 : c.words = <<x1, x2, x3>> => first = x1
            /\ \A x1, x2, x3, x4 : c.words = <<x1, x2, x3, x4>> => first = x1
            /\ \A x1, x2, x3, x4, x5, x6 : c.words = <<x1, x2, x3, x4, x5, x6>> => first = x1
        OBVIOUS
      <4>. HIDE DEF first
      <4>. QED BY <2>1, <4>1, Zenon DEF ValueSays
    <3>. HIDE DEF first
    <3>2. \E kw \in OneValue : first = Ident(kw)
      BY <3>1 DEF OneValue
    <3>. QED BY <3>2 DEF first
  <2>. QED BY <2>2, <2>3
<1>4. ASSUME ListClause(c.words, c.entries, c.sets)
      PROVE  1 \in DOMAIN c.words /\ \E kw \in DOMAIN ListField : c.words[1] = Ident(kw)
  <2>1. 1 \in DOMAIN c.entries /\ c.entries[1].at = 1
    BY <1>4 DEF ListClause, IsList
  <2>2. c.entries[1].at \in 1..Len(c.words)
    BY <1>4, <2>1 DEF ListClause
  <2>. QED BY <1>4, <2>1, <2>2 DEF ListClause, IsList
<1>5. ASSUME ScopeClause(c.words, c.entries, c.sets)
      PROVE  1 \in DOMAIN c.words /\ c.words[1] = Ident("SCOPE")
  BY <1>5 DEF ScopeClause, IsList
<1>6. CASE c.words = <<Semi>> /\ c.sets = <<>>
  <2>1. c.words[1] = Semi
    BY <1>6
  <2>. QED BY <1>1, <1>6, <2>1
<1>. QED BY <1>2, <1>3, <1>4, <1>5, <1>6 DEF IsClause

LEMMA ClauseStands ==
  ASSUME NEW cs, IsLayout(toks, cs), NEW n \in DOMAIN cs
  PROVE  /\ n \in 1..Len(cs) /\ EndOf(cs, n - 1) = cs[n].from /\ EndOf(cs, n) = cs[n].from + Len(cs[n].words)
         /\ cs[n].from \in Nat \ {0} /\ IsList(cs[n].words) /\ IsList(cs[n].entries) /\ IsClause(cs[n])
         /\ Len(toks) \in Nat /\ cs[n].from + Len(cs[n].words) <= Len(toks)
         /\ \A m \in DOMAIN cs[n].words : toks[cs[n].from + m - 1] = cs[n].words[m]
         /\ Follows(toks[cs[n].from + Len(cs[n].words)])
<1>1. IsList(toks) /\ IsList(cs) /\ DOMAIN cs = 1..Len(cs) /\ Len(cs) \in Nat /\ Len(toks) \in Nat
  BY DEF IsLayout, IsList
<1>2. ASSUME NEW m \in DOMAIN cs
      PROVE  /\ EndOf(cs, m - 1) = cs[m].from /\ EndOf(cs, m) = cs[m].from + Len(cs[m].words)
             /\ cs[m].from \in Nat \ {0} /\ IsList(cs[m].words) /\ IsList(cs[m].entries) /\ IsClause(cs[m])
             /\ cs[m].from + Len(cs[m].words) <= Len(toks)
             /\ \A l \in DOMAIN cs[m].words : toks[cs[m].from + l - 1] = cs[m].words[l]
  <2>1. m \in Nat \ {0}
    BY <1>1
  <2>2. EndOf(cs, m) = cs[m].from + Len(cs[m].words)
    BY <2>1 DEF EndOf
  <2>. QED BY <1>1, <2>2 DEF IsLayout
<1>3. CASE n = Len(cs)
  BY <1>1, <1>2, <1>3 DEF IsLayout, Follows
<1>4. CASE n # Len(cs)
  <2>1. n + 1 \in DOMAIN cs /\ (n + 1) - 1 = n
    BY <1>1, <1>4
  <2>2. 1 \in DOMAIN cs[n + 1].words /\ Follows(cs[n + 1].words[1])
    BY <1>2, <2>1, ClauseBegins
  <2>3. toks[cs[n + 1].from + 1 - 1] = cs[n + 1].words[1] /\ cs[n + 1].from + 1 - 1 = cs[n].from + Len(cs[n].words)
    <3>1. cs[n + 1].from = EndOf(cs, n) /\ EndOf(cs, n) = cs[n].from + Len(cs[n].words) /\ cs[n + 1].from \in Nat \ {0}
      BY <1>2, <2>1
    <3>2. toks[cs[n + 1].from + 1 - 1] = cs[n + 1].words[1]
      BY <1>2, <2>1, <2>2
    <3>. QED BY <3>1, <3>2
  <2>. QED BY <1>1, <1>2, <2>2, <2>3
<1>. QED BY <1>3, <1>4

\* Where the i-th entry begins; one after the last, where the clause ends.
Begin(c, i) == IF i > Len(c.entries) THEN Len(c.words) + 1 ELSE c.entries[i].at

LEMMA BeyondBegins ==
  ASSUME NEW c, IsList(c.entries), NEW i \in DOMAIN c.entries
  PROVE  /\ i \in Nat \ {0} /\ Len(c.entries) \in Nat /\ i <= Len(c.entries) /\ i + 1 \in 1..Len(c.entries) + 1
         /\ i + 1 <= Len(c.entries) => i + 1 \in DOMAIN c.entries
         /\ Beyond(c.words, c.entries, i) = Begin(c, i + 1)
<1>1. DOMAIN c.entries = 1..Len(c.entries) /\ Len(c.entries) \in Nat
  BY DEF IsList
<1>. QED BY <1>1 DEF Beyond, Begin

\* What the parser holds between two clauses, in a list and in a scope.
Between(cs) == reading = "clause" /\ \E n \in 0..Len(cs) : at = EndOf(cs, n) /\ Say(cs, n, query)

InList(cs, n, i, q) ==
  /\ ListClause(cs[n].words, cs[n].entries, cs[n].sets)
  /\ reading \in DOMAIN ListField /\ cs[n].words[1] = Ident(reading)
  /\ i \in DOMAIN cs[n].entries /\ at = cs[n].from + cs[n].entries[i].at
  /\ Say(cs, n - 1, q)
  /\ query = [q EXCEPT ![ListField[reading]] = [j \in 1..i - 1 |-> cs[n].entries[j].says]]

InScope(cs, n, i, q) ==
  /\ ScopeClause(cs[n].words, cs[n].entries, cs[n].sets)
  /\ i \in 1..Len(cs[n].entries) + 1
  /\ \/ /\ reading = "SCOPE" /\ at = cs[n].from + Begin(cs[n], i) - 1
        /\ i <= Len(cs[n].entries) => cs[n].words[Begin(cs[n], i)] # Comma
     \/ /\ i <= Len(cs[n].entries) /\ reading = cs[n].entries[i].kind /\ reading \in {"include", "exclude"}
        /\ at = cs[n].from + Begin(cs[n], i)
  /\ Say(cs, n - 1, q)
  /\ query = [q EXCEPT !["scope"] = ScopeSays(cs[n].entries, i - 1)]

Inside(cs) == \E n \in DOMAIN cs : \E i, q : InList(cs, n, i, q) \/ InScope(cs, n, i, q)

\* No two kinds of clauses begin alike.
LEMMA KeywordsTell ==
  /\ Semi.t # "ident" /\ Eof.t # "ident" /\ Semi # Eof
  /\ \A w : Ident(w).t = "ident" /\ Ident(w).s = w
  /\ OneValue \cap DOMAIN ListField = {} /\ "SCOPE" \notin OneValue \cup DOMAIN ListField
  /\ DOMAIN ListField = {"MATCH", "FILTER", "MODALITY", "EXTRACTION_LEVEL", "PROJECT"}
  /\ \A l \in DOMAIN ListField : l \notin {"clause", "SCOPE", "include", "exclude"}
<1>1. DOMAIN ListField = {"MATCH", "FILTER", "MODALITY", "EXTRACTION_LEVEL", "PROJECT"}
  BY DEF ListField
<1>. QED BY <1>1 DEF Semi, Eof, Ident, Tok, OneValue

\* How far the parser came: it reads on, or has read every clause.
Onwards(cs) ==
  /\ UNCHANGED <<text, toks>>
  /\ \/ status' = "running" /\ (Between(cs)' \/ Inside(cs)')
     \/ status' = "parsed" /\ Say(cs, Len(cs), query')

\* Between two clauses the parser is at the words of the next one or at the end.
LEMMA NextIsThere ==
  ASSUME NEW cs, IsLayout(toks, cs), NEW n \in 0..Len(cs), at = EndOf(cs, n)
  PROVE  \/ n = Len(cs) /\ Here = Eof
         \/ /\ n + 1 \in DOMAIN cs /\ at = cs[n + 1].from /\ Here = cs[n + 1].words[1] /\ StandsAt(cs[n + 1].words)
            /\ n + 1 \in Nat \ {0} /\ (n + 1) - 1 = n
<1>1. DOMAIN cs = 1..Len(cs) /\ Len(cs) \in Nat
  BY DEF IsLayout, IsList
<1>2. CASE n = Len(cs)
  BY <1>2 DEF IsLayout, Here
<1>3. CASE n # Len(cs)
  <2>0. n \in Nat /\ n <= Len(cs)
    BY <1>1
  <2>1. n + 1 \in 1..Len(cs) /\ n + 1 \in Nat \ {0} /\ (n + 1) - 1 = n
    <3>1. Len(cs) \in Nat /\ n # Len(cs)
      BY <1>1, <1>3
    <3>2. n + 1 \in Nat /\ n + 1 # 0 /\ (n + 1) - 1 = n
      BY <2>0
    <3>3. n + 1 >= 1 /\ n + 1 <= Len(cs)
      BY <2>0, <3>1
    <3>. QED BY <3>1, <3>2, <3>3, SMTT(30)
  <2>2. n + 1 \in DOMAIN cs /\ at = cs[n + 1].from /\ IsList(cs[n + 1].words)
    BY <1>1, <2>1, ClauseStands
  <2>3. 1 \in DOMAIN cs[n + 1].words /\ cs[n + 1].from + 1 - 1 = at
    BY <2>2, ClauseStands, ClauseBegins
  <2>4. Here = cs[n + 1].words[1]
    BY <2>2, <2>3, ClauseStands, SMTT(30) DEF Here
  <2>. QED BY <2>1, <2>2, <2>4, ClauseStands DEF StandsAt
<1>. QED BY <1>2, <1>3

-----------------------------------------------------------------------------
(* Lists *)

LEMMA OneMoreSays ==
  ASSUME NEW entries, NEW i \in Nat \ {0}
  PROVE  Append([j \in 1..i - 1 |-> entries[j].says], entries[i].says) = [j \in 1..i |-> entries[j].says]
<1>. DEFINE u == [j \in 1..i - 1 |-> entries[j].says]
<1>1. u \in Seq({entries[j].says : j \in 1..i - 1}) /\ Len(u) = i - 1
  OBVIOUS
<1>2. \A j \in 1..i - 1 : u[j] = entries[j].says
  OBVIOUS
<1>. HIDE DEF u
<1>3. Append(u, entries[i].says) = [j \in 1..i |-> entries[j].says]
  BY <1>1, <1>2
<1>. QED BY <1>3 DEF u

\* An entry of a list is read as the item it is, up to the comma of the next one
\* or to the end of the clause.
EntryRead(c, i) ==
  /\ Item(reading) = c.entries[i].says /\ Misfits(ItemForm(reading), at) = {}
  /\ at + Len(ItemForm(reading)) = c.from + Begin(c, i + 1) - 1
  /\ Begin(c, i + 1) \in 1..Len(c.words) + 1
  /\ i + 1 <= Len(c.entries) => c.words[Begin(c, i + 1)] = Comma
  /\ i + 1 <= Len(c.entries) => Begin(c, i + 1) \in 1..Len(c.words)
  /\ c.sets = [g \in {ListField[reading]} |-> [j \in 1..Len(c.entries) |-> c.entries[j].says]]

LEMMA EntryIsRead ==
  ASSUME NEW cs, IsLayout(toks, cs), NEW n \in DOMAIN cs, NEW i, NEW q, InList(cs, n, i, q)
  PROVE  EntryRead(cs[n], i)
<1>. DEFINE c == cs[n]
            a == c.entries[i].at + 1
            b == Begin(c, i + 1)
<1>1. /\ c.from \in Nat \ {0} /\ IsList(c.words) /\ IsList(c.entries) /\ Len(toks) \in Nat
      /\ c.from + Len(c.words) <= Len(toks) /\ Follows(toks[c.from + Len(c.words)])
      /\ \A m \in DOMAIN c.words : toks[c.from + m - 1] = c.words[m]
  BY ClauseStands
<1>2. i \in DOMAIN c.entries /\ at = c.from + c.entries[i].at
  BY DEF InList
<1>3. /\ \A j \in DOMAIN c.entries :
           /\ c.entries[j].at \in 1..Len(c.words) /\ Begin(c, j + 1) <= Len(c.words) + 1
           /\ j > 1 => c.words[c.entries[j].at] = Comma
           /\ IsItem(reading, c.words, c.entries[j].at + 1, Begin(c, j + 1), c.entries[j].says)
      /\ c.sets = [g \in {ListField[reading]} |-> [j \in 1..Len(c.entries) |-> c.entries[j].says]]
  <2>1. PICK list \in DOMAIN ListField :
          /\ c.words[1] = Ident(list)
          /\ \A j \in DOMAIN c.entries :
               /\ c.entries[j].at \in 1..Len(c.words) /\ Beyond(c.words, c.entries, j) <= Len(c.words) + 1
               /\ j > 1 => c.words[c.entries[j].at] = Comma
               /\ IsItem(list, c.words, c.entries[j].at + 1, Beyond(c.words, c.entries, j), c.entries[j].says)
          /\ c.sets = [f \in {ListField[list]} |-> [j \in DOMAIN c.entries |-> c.entries[j].says]]
    BY DEF InList, ListClause
  <2>2. list = reading
    <3>1. Ident(list) = Ident(reading)
      BY <2>1 DEF InList
    <3>. QED BY <3>1, KeywordsTell
  <2>3. DOMAIN c.entries = 1..Len(c.entries)
    BY <1>1 DEF IsList
  <2>4. \A j \in DOMAIN c.entries : Beyond(c.words, c.entries, j) = Begin(c, j + 1)
    BY <1>1, BeyondBegins
  <2>. HIDE DEF c
  <2>5. c.sets = [g \in {ListField[reading]} |-> [j \in 1..Len(c.entries) |-> c.entries[j].says]]
    <3>. DEFINE says == [j \in 1..Len(c.entries) |-> c.entries[j].says]
    <3>1. says = [j \in DOMAIN c.entries |-> c.entries[j].says]
      BY <2>3
    <3>. HIDE DEF says
    <3>2. c.sets = [g \in {ListField[reading]} |-> says]
      BY <2>1, <2>2, <3>1
    <3>. QED BY <3>2 DEF says
  <2>. QED BY <2>1, <2>2, <2>4, <2>5
<1>. HIDE DEF c
<1>4. /\ i \in Nat \ {0} /\ Len(c.entries) \in Nat /\ i <= Len(c.entries)
      /\ i + 1 <= Len(c.entries) => i + 1 \in DOMAIN c.entries /\ i + 1 > 1 /\ b = c.entries[i + 1].at
      /\ ~(i + 1 <= Len(c.entries)) => b = Len(c.words) + 1
  BY <1>1, <1>2, BeyondBegins, SMTT(30) DEF Begin
<1>5. a \in Nat /\ a >= 2 /\ Len(c.words) \in Nat /\ DOMAIN c.words = 1..Len(c.words) /\ IsItem(reading, c.words, a, b, c.entries[i].says)
  BY <1>1, <1>2, <1>3, SMTT(30) DEF IsList
<1>6. b \in Nat /\ b > a /\ b <= Len(c.words) + 1
  <2>1. b \in {a + 1, a + 3, a + 5}
    BY <1>5 DEF IsItem
  <2>. QED BY <1>2, <1>3, <1>5, <2>1, SMTT(30)
<1>7. i + 1 <= Len(c.entries) => b \in 1..Len(c.words) /\ c.words[b] = Comma
  BY <1>3, <1>4
<1>. HIDE DEF a, b
<1>8. at = c.from + a - 1 /\ at \in Nat /\ c.from \in Nat /\ c.from > 0
  <2>1. c.from \in Nat /\ c.from > 0
    BY <1>1
  <2>2. c.entries[i].at \in Nat
    BY <1>2, <1>3, <1>5
  <2>. QED BY <1>2, <2>1, <2>2 DEF a
<1>9. \A m \in 0..b - a - 1 : toks[at + m] = c.words[a + m]
  <2>. TAKE m \in 0..b - a - 1
  <2>1. m \in Nat /\ a + m <= Len(c.words) /\ a + m >= 1
    BY <1>5, <1>6
  <2>2. a + m \in DOMAIN c.words
    BY <1>5, <2>1
  <2>3. c.from + (a + m) - 1 = at + m
    BY <1>5, <1>8, <2>1, SMTT(30)
  <2>. QED BY <1>1, <2>2, <2>3
<1>10. at + (b - a) = c.from + b - 1 /\ at + (b - a) <= Len(toks)
  <2>1. Len(toks) \in Nat /\ c.from + Len(c.words) <= Len(toks) /\ Len(c.words) \in Nat
    BY <1>1, <1>5
  <2>2. a \in Nat /\ b \in Nat /\ c.from \in Nat /\ at = c.from + a - 1 /\ b <= Len(c.words) + 1
    BY <1>5, <1>6, <1>8
  <2>. QED BY <2>1, <2>2, SMTT(30)
<1>11. toks[at + (b - a)] # Ident("IN")
  <2>1. CASE i + 1 <= Len(c.entries)
    <3>1. toks[c.from + b - 1] = Comma
      BY <1>1, <1>5, <1>7, <2>1
    <3>2. Comma # Ident("IN")
      BY DEF Comma, Ident, Tok
    <3>. QED BY <1>10, <3>1, <3>2
  <2>2. CASE ~(i + 1 <= Len(c.entries))
    <3>1. c.from + b - 1 = c.from + Len(c.words)
      BY <1>1, <1>4, <1>5, <2>2 DEF b
    <3>. QED BY <1>1, <1>10, <3>1, LexemesDiffer
  <2>. QED BY <2>1, <2>2
<1>12. /\ IsList(ItemForm(reading)) /\ Len(ItemForm(reading)) = b - a
       /\ \A j \in DOMAIN ItemForm(reading) : Fits(ItemForm(reading)[j], toks[at + j - 1])
       /\ Item(reading) = c.entries[i].says
  <2>1. reading \in DOMAIN ListField
    BY DEF InList
  <2>2. a \in Nat /\ at \in Nat /\ Len(toks) \in Nat
    BY <1>1, <1>5, <1>8
  <2>3. ItemStands(c.words, a, b)
    BY <1>9, <1>10, <1>11, <2>2 DEF ItemStands
  <2>. QED BY <1>5, <2>1, <2>2, <2>3, ItemIsRead
<1>13. Misfits(ItemForm(reading), at) = {}
  BY <1>12 DEF Misfits
<1>14. at + Len(ItemForm(reading)) = c.from + b - 1 /\ b \in 1..Len(c.words) + 1
  <2>1. b \in Nat /\ b >= 1 /\ b <= Len(c.words) + 1 /\ Len(c.words) \in Nat
    BY <1>5, <1>6
  <2>. QED BY <1>10, <1>12, <2>1
<1>. QED BY <1>3, <1>7, <1>12, <1>13, <1>14 DEF b, c, EntryRead

LEMMA ListSteps ==
  ASSUME NEW cs, IsLayout(toks, cs), status = "running",
         NEW n \in DOMAIN cs, NEW i, NEW q, InList(cs, n, i, q), NextDontoQL
  PROVE  Onwards(cs)
<1>. DEFINE c == cs[n]
            f == ListField[reading]
            b == Begin(c, i + 1)
            says(m) == [j \in 1..m |-> c.entries[j].says]
<1>1. /\ n \in 1..Len(cs) /\ EndOf(cs, n) = c.from + Len(c.words) /\ c.from \in Nat \ {0}
      /\ IsList(c.words) /\ IsList(c.entries) /\ Follows(toks[c.from + Len(c.words)])
      /\ \A m \in DOMAIN c.words : toks[c.from + m - 1] = c.words[m]
  BY ClauseStands
<1>2. /\ ListClause(c.words, c.entries, c.sets) /\ c.words[1] = Ident(reading)
      /\ reading \in DOMAIN ListField /\ i \in DOMAIN c.entries
      /\ Say(cs, n - 1, q) /\ query = [q EXCEPT ![f] = says(i - 1)]
  BY DEF InList
<1>3. /\ Item(reading) = c.entries[i].says /\ Misfits(ItemForm(reading), at) = {}
      /\ at + Len(ItemForm(reading)) = c.from + b - 1
      /\ b \in 1..Len(c.words) + 1
      /\ i + 1 <= Len(c.entries) => c.words[b] = Comma
      /\ i + 1 <= Len(c.entries) => b \in 1..Len(c.words)
      /\ c.sets = [g \in {f} |-> says(Len(c.entries))]
  <2>1. EntryRead(cs[n], i)
    BY EntryIsRead
  <2>. QED BY <2>1, Zenon DEF EntryRead
<1>4. /\ i \in Nat \ {0} /\ i <= Len(c.entries) /\ Len(c.entries) \in Nat
      /\ i + 1 <= Len(c.entries) => i + 1 \in DOMAIN c.entries /\ b = c.entries[i + 1].at
      /\ ~(i + 1 <= Len(c.entries)) => b = Len(c.words) + 1
  BY <1>1, <1>2, BeyondBegins DEF Begin
<1>5. Len(c.words) \in Nat /\ DOMAIN c.words = 1..Len(c.words) /\ c.from \in Nat /\ n \in Nat \ {0} /\ n \in 0..Len(cs)
  BY <1>1 DEF IsList
<1>6. f \in DOMAIN DefaultQuery /\ f \in DOMAIN q
  <2>1. f \in DOMAIN DefaultQuery
    BY <1>2, KeywordsTell, QueryFields DEF ListField
  <2>. QED BY <1>2, <2>1 DEF Say
<1>7. Append(says(i - 1), c.entries[i].says) = says(i)
  BY <1>4, OneMoreSays
<1>. HIDE DEF c, says, f, b
<1>8. [query EXCEPT ![f] = Append(@, c.entries[i].says)] = [q EXCEPT ![f] = says(i)]
  BY <1>2, <1>6, <1>7
<1>9. Goon(c.from + b - 1, reading, "clause", [q EXCEPT ![f] = says(i)])
  <2>1. ReadItem(reading)
    BY <1>2, KeywordsTell DEF NextDontoQL, Tokens, Finish, Skip, NoClause, Clause, StartList, StartScope, ScopeWord,
                              ReadContext, ReadItem, Running
  <2>2. Goon(at + Len(ItemForm(reading)), reading, "clause", [query EXCEPT ![f] = Append(@, Item(reading))])
    BY <1>3, <2>1 DEF ReadItem, f
  <2>. QED BY <1>3, <1>8, <2>2
<1>10. CASE i + 1 <= Len(c.entries)
  <2>1. toks[c.from + b - 1] = Comma
    BY <1>1, <1>3, <1>5, <1>10
  <2>2. Advance(c.from + b - 1 + 1, reading, [q EXCEPT ![f] = says(i)])
    BY <1>9, <2>1 DEF Goon
  <2>3. c.from + b - 1 + 1 = c.from + c.entries[i + 1].at /\ (i + 1) - 1 = i
    BY <1>3, <1>4, <1>5, <1>10
  <2>4. at' = c.from + c.entries[i + 1].at /\ reading' = reading /\ query' = [q EXCEPT ![f] = says((i + 1) - 1)]
    BY <2>2, <2>3 DEF Advance
  <2>5. InList(cs, n, i + 1, q)'
    BY <1>2, <1>4, <1>10, <2>4 DEF InList, c, f, says
  <2>. QED BY <2>2, <2>5 DEF Advance, Onwards, Inside
<1>11. CASE ~(i + 1 <= Len(c.entries))
  <2>1. i = Len(c.entries) /\ c.from + b - 1 = EndOf(cs, n) /\ EndOf(cs, n) = c.from + Len(c.words)
    BY <1>1, <1>4, <1>5, <1>11
  <2>2. toks[c.from + b - 1] # Comma
    BY <1>1, <2>1, LexemesDiffer
  <2>3. Advance(EndOf(cs, n), "clause", [q EXCEPT ![f] = says(i)])
    BY <1>9, <2>1, <2>2 DEF Goon
  <2>4. Say(cs, n, [q EXCEPT ![f] = says(i)])
    <3>1. cs[n].sets = [g \in {f} |-> says(i)]
      BY <1>3, <2>1 DEF c
    <3>. QED BY <1>2, <1>5, <1>6, <3>1, SayMore
  <2>5. Between(cs)'
    BY <1>5, <2>3, <2>4 DEF Between, Advance
  <2>. QED BY <2>3, <2>5 DEF Advance, Onwards
<1>. QED BY <1>10, <1>11

-----------------------------------------------------------------------------
(* Scopes *)

LEMMA Counted ==
  ASSUME NEW entries, NEW kind, NEW i \in Nat
  PROVE  /\ Count(entries, kind, i) \in Nat /\ IsFiniteSet({j \in 1..i : entries[j].kind = kind})
         /\ i = 0 => Count(entries, kind, i) = 0
<1>1. IsFiniteSet(1..i)
  BY FS_Interval
<1>2. IsFiniteSet({j \in 1..i : entries[j].kind = kind})
  BY <1>1, FS_Subset
<1>3. i = 0 => {j \in 1..i : entries[j].kind = kind} = {}
  OBVIOUS
<1>. QED BY <1>2, <1>3, FS_CardinalityType, FS_EmptySet DEF Count

LEMMA OneMoreCounts ==
  ASSUME NEW entries, NEW kind, NEW i \in Nat \ {0}
  PROVE  Count(entries, kind, i) =
           IF entries[i].kind = kind THEN Count(entries, kind, i - 1) + 1 ELSE Count(entries, kind, i - 1)
<1>. DEFINE before == {j \in 1..i - 1 : entries[j].kind = kind}
            now2 == {j \in 1..i : entries[j].kind = kind}
<1>1. IsFiniteSet(before) /\ Cardinality(before) = Count(entries, kind, i - 1) /\ Cardinality(now2) = Count(entries, kind, i)
  <2>1. i - 1 \in Nat /\ i \in Nat
    OBVIOUS
  <2>. QED BY <2>1, Counted DEF Count
<1>2. CASE entries[i].kind = kind
  <2>1. now2 = before \cup {i} /\ i \notin before
    BY <1>2
  <2>. HIDE DEF before, now2
  <2>2. Cardinality(before \cup {i}) = Cardinality(before) + 1
    BY <1>1, <2>1, FS_AddElement
  <2>. QED BY <1>1, <1>2, <2>1, <2>2
<1>3. CASE entries[i].kind # kind
  <2>1. now2 = before
    BY <1>3
  <2>. QED BY <1>1, <1>3, <2>1
<1>. QED BY <1>2, <1>3

LEMMA CountsGrow ==
  ASSUME NEW entries, NEW kind, NEW i \in Nat \ {0}, NEW j \in 1..i - 1, entries[i].kind = kind
  PROVE  Count(entries, kind, j) < Count(entries, kind, i)
<1>1. {l \in 1..j : entries[l].kind = kind} \subseteq {l \in 1..i - 1 : entries[l].kind = kind}
  OBVIOUS
<1>2. Count(entries, kind, j) <= Count(entries, kind, i - 1)
  <2>1. i - 1 \in Nat
    OBVIOUS
  <2>2. IsFiniteSet({l \in 1..i - 1 : entries[l].kind = kind})
    BY <2>1, Counted, ZenonT(60)
  <2>. QED BY <1>1, <2>2, FS_Subset DEF Count
<1>3. Count(entries, kind, i) = Count(entries, kind, i - 1) + 1
  BY OneMoreCounts
<1>4. Count(entries, kind, i - 1) \in Nat /\ Count(entries, kind, j) \in Nat
  <2>1. i - 1 \in Nat /\ j \in Nat
    OBVIOUS
  <2>. QED BY <2>1, Counted
<1>. QED BY <1>2, <1>3, <1>4

LEMMA NthIs ==
  ASSUME NEW entries, IsList(entries), NEW i \in DOMAIN entries, NEW kind, entries[i].kind = kind
  PROVE  Nth(entries, kind, Count(entries, kind, i)) = i
<1>1. DOMAIN entries \subseteq Nat \ {0}
  BY DEF IsList
<1>2. ASSUME NEW j \in DOMAIN entries, entries[j].kind = kind, Count(entries, kind, j) = Count(entries, kind, i)
      PROVE  j = i
  <2>1. i \in Nat \ {0} /\ j \in Nat \ {0} /\ Count(entries, kind, i) \in Nat
    BY <1>1, Counted
  <2>2. ASSUME j < i PROVE FALSE
    <3>1. j \in 1..i - 1
      BY <2>1, <2>2
    <3>. QED BY <1>2, <2>1, <3>1, CountsGrow
  <2>3. ASSUME i < j PROVE FALSE
    <3>1. i \in 1..j - 1
      BY <2>1, <2>3
    <3>. QED BY <1>2, <2>1, <3>1, CountsGrow
  <2>. QED BY <2>1, <2>2, <2>3
<1>. QED BY <1>2 DEF Nth

LEMMA OneMoreListed ==
  ASSUME NEW entries, IsList(entries), NEW i \in DOMAIN entries, NEW kind
  PROVE  Listed(entries, kind, i) =
           IF entries[i].kind = kind THEN Append(Listed(entries, kind, i - 1), entries[i].says)
           ELSE Listed(entries, kind, i - 1)
<1>1. i \in Nat \ {0}
  BY DEF IsList
<1>2. CASE entries[i].kind # kind
  BY <1>1, <1>2, OneMoreCounts DEF Listed
<1>3. CASE entries[i].kind = kind
  <2>. DEFINE n == Count(entries, kind, i - 1)
              said(m) == entries[Nth(entries, kind, m)].says
              u == [m \in 1..n |-> said(m)]
  <2>1. n \in Nat /\ Count(entries, kind, i) = n + 1
    <3>1. i - 1 \in Nat
      BY <1>1
    <3>. QED BY <1>1, <1>3, <3>1, OneMoreCounts, Counted
  <2>2. said(n + 1) = entries[i].says
    BY <1>3, <2>1, NthIs
  <2>3. Listed(entries, kind, i - 1) = u /\ Listed(entries, kind, i) = [m \in 1..n + 1 |-> said(m)]
    BY <2>1 DEF Listed
  <2>. HIDE DEF n, said
  <2>4. u \in Seq({said(m) : m \in 1..n}) /\ Len(u) = n /\ \A m \in 1..n : u[m] = said(m)
    BY <2>1
  <2>. HIDE DEF u
  <2>5. Append(u, said(n + 1)) = [m \in 1..n + 1 |-> said(m)]
    BY <2>1, <2>4
  <2>. QED BY <1>3, <2>2, <2>3, <2>5
<1>. QED BY <1>2, <1>3

LEMMA ScopeOfNothing ==
  ASSUME NEW entries
  PROVE  ScopeSays(entries, 0) = Anywhere
<1>1. ASSUME NEW kind PROVE Listed(entries, kind, 0) = <<>>
  <2>1. Count(entries, kind, 0) = 0
    BY Counted
  <2>2. Listed(entries, kind, 0) = [m \in 1..0 |-> entries[Nth(entries, kind, m)].says]
    BY <2>1 DEF Listed
  <2>. QED BY <2>2
<1>2. /\ (\A j \in 1..0 : entries[j].kind # "no_descendants") = TRUE
      /\ (\E j \in 1..0 : entries[j].kind = "ancestors") = FALSE
  OBVIOUS
<1>. QED BY <1>1, <1>2 DEF ScopeSays, Anywhere

LEMMA OneMoreScopes ==
  ASSUME NEW entries, IsList(entries), NEW i \in DOMAIN entries
  PROVE  /\ entries[i].kind \in {"include", "exclude"} =>
              ScopeSays(entries, i) = [ScopeSays(entries, i - 1) EXCEPT ![entries[i].kind] = Append(@, entries[i].says)]
         /\ entries[i].kind = "no_descendants" =>
              ScopeSays(entries, i) = [ScopeSays(entries, i - 1) EXCEPT !["descendants"] = FALSE]
         /\ entries[i].kind = "ancestors" =>
              ScopeSays(entries, i) = [ScopeSays(entries, i - 1) EXCEPT !["ancestors"] = TRUE]
<1>. DEFINE desc(m) == \A j \in 1..m : entries[j].kind # "no_descendants"
            anc(m) == \E j \in 1..m : entries[j].kind = "ancestors"
            lists(m, side) == Listed(entries, side, m)
            kind == entries[i].kind
<1>1. i \in Nat \ {0} /\ 1..i = 1..i - 1 \cup {i}
  <2>1. i \in Nat \ {0}
    BY DEF IsList
  <2>. QED BY <2>1
<1>2. /\ kind # "no_descendants" => desc(i) = desc(i - 1)
      /\ kind = "no_descendants" => desc(i) = FALSE
      /\ kind # "ancestors" => anc(i) = anc(i - 1)
      /\ kind = "ancestors" => anc(i) = TRUE
  BY <1>1
<1>3. ASSUME NEW m
      PROVE  ScopeSays(entries, m) = [include |-> lists(m, "include"), exclude |-> lists(m, "exclude"),
                                      descendants |-> desc(m), ancestors |-> anc(m)]
  BY DEF ScopeSays
<1>4. ASSUME NEW side
      PROVE  lists(i, side) = IF kind = side THEN Append(lists(i - 1, side), entries[i].says) ELSE lists(i - 1, side)
  BY OneMoreListed
<1>. DEFINE inc == lists(i - 1, "include")
            exc == lists(i - 1, "exclude")
            d == desc(i - 1)
            a == anc(i - 1)
            x == entries[i].says
            r == ScopeSays(entries, i - 1)
<1>. HIDE DEF desc, anc, lists
<1>5. r = [include |-> inc, exclude |-> exc, descendants |-> d, ancestors |-> a]
  BY <1>3
<1>. HIDE DEF r, inc, exc, d, a, x, kind
<1>6. /\ [r EXCEPT !["include"] = Append(@, x)] = [include |-> Append(inc, x), exclude |-> exc, descendants |-> d, ancestors |-> a]
      /\ [r EXCEPT !["exclude"] = Append(@, x)] = [include |-> inc, exclude |-> Append(exc, x), descendants |-> d, ancestors |-> a]
      /\ [r EXCEPT !["descendants"] = FALSE] = [include |-> inc, exclude |-> exc, descendants |-> FALSE, ancestors |-> a]
      /\ [r EXCEPT !["ancestors"] = TRUE] = [include |-> inc, exclude |-> exc, descendants |-> d, ancestors |-> TRUE]
  <2>. DEFINE fields == {"include", "exclude", "descendants", "ancestors"}
  <2>1. DOMAIN r = fields /\ r["include"] = inc /\ r["exclude"] = exc /\ r["descendants"] = d /\ r["ancestors"] = a
    BY <1>5
  <2>2. ASSUME NEW u, NEW v, DOMAIN u = fields, DOMAIN v = fields, u = [z \in DOMAIN u |-> u[z]], v = [z \in DOMAIN v |-> v[z]],
               \A z \in fields : u[z] = v[z]
        PROVE  u = v
    <3>. HIDE DEF fields
    <3>. QED BY <2>2
  <2>3. [r EXCEPT !["include"] = Append(@, x)] = [include |-> Append(inc, x), exclude |-> exc, descendants |-> d, ancestors |-> a]
    <3>. DEFINE u == [r EXCEPT !["include"] = Append(@, x)]
                v == [include |-> Append(inc, x), exclude |-> exc, descendants |-> d, ancestors |-> a]
    <3>1. DOMAIN u = fields /\ u = [z \in DOMAIN u |-> u[z]]
      BY <2>1
    <3>2. u["include"] = Append(inc, x) /\ \A z \in fields \ {"include"} : u[z] = r[z]
      BY <2>1
    <3>3. DOMAIN v = fields /\ v = [z \in DOMAIN v |-> v[z]]
      OBVIOUS
    <3>4. v["include"] = Append(inc, x) /\ v["exclude"] = exc /\ v["descendants"] = d /\ v["ancestors"] = a
      OBVIOUS
    <3>. HIDE DEF u, v
    <3>5. \A z \in fields : u[z] = v[z]
      BY <2>1, <3>2, <3>4
    <3>. HIDE DEF fields
    <3>6. u = v
      BY <2>2, <3>1, <3>3, <3>5
    <3>. QED BY <3>6 DEF u, v
  <2>4. [r EXCEPT !["exclude"] = Append(@, x)] = [include |-> inc, exclude |-> Append(exc, x), descendants |-> d, ancestors |-> a]
    <3>. DEFINE u == [r EXCEPT !["exclude"] = Append(@, x)]
                v == [include |-> inc, exclude |-> Append(exc, x), descendants |-> d, ancestors |-> a]
    <3>1. DOMAIN u = fields /\ u = [z \in DOMAIN u |-> u[z]]
      BY <2>1
    <3>2. u["exclude"] = Append(exc, x) /\ \A z \in fields \ {"exclude"} : u[z] = r[z]
      BY <2>1
    <3>3. DOMAIN v = fields /\ v = [z \in DOMAIN v |-> v[z]]
      OBVIOUS
    <3>4. v["include"] = inc /\ v["exclude"] = Append(exc, x) /\ v["descendants"] = d /\ v["ancestors"] = a
      OBVIOUS
    <3>. HIDE DEF u, v
    <3>5. \A z \in fields : u[z] = v[z]
      BY <2>1, <3>2, <3>4
    <3>. HIDE DEF fields
    <3>6. u = v
      BY <2>2, <3>1, <3>3, <3>5
    <3>. QED BY <3>6 DEF u, v
  <2>5. [r EXCEPT !["descendants"] = FALSE] = [include |-> inc, exclude |-> exc, descendants |-> FALSE, ancestors |-> a]
    <3>. DEFINE u == [r EXCEPT !["descendants"] = FALSE]
                v == [include |-> inc, exclude |-> exc, descendants |-> FALSE, ancestors |-> a]
    <3>1. DOMAIN u = fields /\ u = [z \in DOMAIN u |-> u[z]]
      BY <2>1
    <3>2. u["descendants"] = FALSE /\ \A z \in fields \ {"descendants"} : u[z] = r[z]
      BY <2>1
    <3>3. DOMAIN v = fields /\ v = [z \in DOMAIN v |-> v[z]]
      OBVIOUS
    <3>4. v["include"] = inc /\ v["exclude"] = exc /\ v["descendants"] = FALSE /\ v["ancestors"] = a
      OBVIOUS
    <3>. HIDE DEF u, v
    <3>5. \A z \in fields : u[z] = v[z]
      BY <2>1, <3>2, <3>4
    <3>. HIDE DEF fields
    <3>6. u = v
      BY <2>2, <3>1, <3>3, <3>5
    <3>. QED BY <3>6 DEF u, v
  <2>6. [r EXCEPT !["ancestors"] = TRUE] = [include |-> inc, exclude |-> exc, descendants |-> d, ancestors |-> TRUE]
    <3>. DEFINE u == [r EXCEPT !["ancestors"] = TRUE]
                v == [include |-> inc, exclude |-> exc, descendants |-> d, ancestors |-> TRUE]
    <3>1. DOMAIN u = fields /\ u = [z \in DOMAIN u |-> u[z]]
      BY <2>1
    <3>2. u["ancestors"] = TRUE /\ \A z \in fields \ {"ancestors"} : u[z] = r[z]
      BY <2>1
    <3>3. DOMAIN v = fields /\ v = [z \in DOMAIN v |-> v[z]]
      OBVIOUS
    <3>4. v["include"] = inc /\ v["exclude"] = exc /\ v["descendants"] = d /\ v["ancestors"] = TRUE
      OBVIOUS
    <3>. HIDE DEF u, v
    <3>5. \A z \in fields : u[z] = v[z]
      BY <2>1, <3>2, <3>4
    <3>. HIDE DEF fields
    <3>6. u = v
      BY <2>2, <3>1, <3>3, <3>5
    <3>. QED BY <3>6 DEF u, v
  <2>. QED BY <2>3, <2>4, <2>5, <2>6
<1>7. ScopeSays(entries, i) = [include |-> lists(i, "include"), exclude |-> lists(i, "exclude"),
                               descendants |-> desc(i), ancestors |-> anc(i)]
  BY <1>3
<1>8. CASE kind = "include"
  <2>1. /\ lists(i, "include") = Append(inc, x) /\ lists(i, "exclude") = exc
        /\ desc(i) = d /\ anc(i) = a
    BY <1>2, <1>4, <1>8 DEF inc, exc, d, a, x
  <2>2. ScopeSays(entries, i) = [include |-> Append(inc, x), exclude |-> exc, descendants |-> d, ancestors |-> a]
    BY <1>7, <2>1
  <2>. QED BY <1>6, <1>8, <2>2 DEF kind, r, x
<1>9. CASE kind = "exclude"
  <2>1. /\ lists(i, "include") = inc /\ lists(i, "exclude") = Append(exc, x)
        /\ desc(i) = d /\ anc(i) = a
    BY <1>2, <1>4, <1>9 DEF inc, exc, d, a, x
  <2>2. ScopeSays(entries, i) = [include |-> inc, exclude |-> Append(exc, x), descendants |-> d, ancestors |-> a]
    BY <1>7, <2>1
  <2>. QED BY <1>6, <1>9, <2>2 DEF kind, r, x
<1>10. CASE kind = "no_descendants"
  <2>1. lists(i, "include") = inc /\ lists(i, "exclude") = exc /\ desc(i) = FALSE /\ anc(i) = a
    BY <1>2, <1>4, <1>10 DEF inc, exc, d, a, x
  <2>2. ScopeSays(entries, i) = [include |-> inc, exclude |-> exc, descendants |-> FALSE, ancestors |-> a]
    BY <1>7, <2>1
  <2>. QED BY <1>6, <1>10, <2>2 DEF kind, r
<1>11. CASE kind = "ancestors"
  <2>1. lists(i, "include") = inc /\ lists(i, "exclude") = exc /\ desc(i) = d /\ anc(i) = TRUE
    BY <1>2, <1>4, <1>11 DEF inc, exc, d, a, x
  <2>2. ScopeSays(entries, i) = [include |-> inc, exclude |-> exc, descendants |-> d, ancestors |-> TRUE]
    BY <1>7, <2>1
  <2>. QED BY <1>6, <1>11, <2>2 DEF kind, r
<1>. QED BY <1>8, <1>9, <1>10, <1>11 DEF kind

LEMMA ScopeIsSet ==
  ASSUME NEW q, NEW w, "scope" \in DOMAIN q
  PROVE  /\ [q EXCEPT !["scope"] = w].scope = w
         /\ [[q EXCEPT !["scope"] = w] EXCEPT !.scope.descendants = FALSE] = [q EXCEPT !["scope"] = [w EXCEPT !["descendants"] = FALSE]]
         /\ [[q EXCEPT !["scope"] = w] EXCEPT !.scope.ancestors = TRUE] = [q EXCEPT !["scope"] = [w EXCEPT !["ancestors"] = TRUE]]
         /\ \A side, x : [[q EXCEPT !["scope"] = w] EXCEPT !.scope[side] = Append(@, x)] =
                           [q EXCEPT !["scope"] = [w EXCEPT ![side] = Append(@, x)]]
<1>1. [q EXCEPT !["scope"] = w].scope = w
  OBVIOUS
<1>2. \A v : [[q EXCEPT !["scope"] = w] EXCEPT !["scope"] = v] = [q EXCEPT !["scope"] = v]
  OBVIOUS
<1>. QED BY <1>1, <1>2

\* What stands at and around the i-th entry of a scope.
ScopeStands(cs, n, i) ==
  LET c == cs[n]
      b == Begin(c, i)
  IN /\ i \in Nat \ {0} /\ i <= Len(c.entries) + 1 /\ b \in Nat /\ b >= 2 /\ b <= Len(c.words) + 1
     /\ i <= Len(c.entries) =>
          /\ i \in DOMAIN c.entries /\ b <= Len(c.words) /\ toks[c.from + b - 1] = c.words[b]
          /\ \/ c.words[b] = Ident(c.entries[i].kind) /\ c.words[b] # Comma
             \/ i > 1 /\ c.words[b] = Comma /\ c.entries[i].kind = c.entries[i - 1].kind
                      /\ c.entries[i].kind \in {"include", "exclude"}
          /\ \/ /\ c.entries[i].kind \in {"include", "exclude"} /\ Begin(c, i + 1) = b + 2
                /\ toks[c.from + b] = c.words[b + 1] /\ c.words[b + 1].t \in {"angle", "prefixed"}
                /\ c.entries[i].says = c.words[b + 1].s
             \/ c.entries[i].kind \in {"no_descendants", "ancestors"} /\ Begin(c, i + 1) = b + 1
     /\ ~(i <= Len(c.entries)) => Follows(toks[c.from + b - 1]) /\ c.from + b - 1 = EndOf(cs, n) /\ i - 1 = Len(c.entries)

LEMMA ScopeStandsThere ==
  ASSUME NEW cs, IsLayout(toks, cs), NEW n \in DOMAIN cs, ScopeClause(cs[n].words, cs[n].entries, cs[n].sets),
         NEW i \in 1..Len(cs[n].entries) + 1
  PROVE  ScopeStands(cs, n, i)
<1>. DEFINE c == cs[n]
            b == Begin(c, i)
<1>1. /\ EndOf(cs, n) = c.from + Len(c.words) /\ c.from \in Nat \ {0}
      /\ IsList(c.words) /\ IsList(c.entries) /\ Follows(toks[c.from + Len(c.words)])
      /\ \A m \in DOMAIN c.words : toks[c.from + m - 1] = c.words[m]
  BY ClauseStands
<1>2. /\ IF c.entries = <<>> THEN Len(c.words) = 1 ELSE c.entries[1].at = 2
      /\ \A j \in DOMAIN c.entries :
           /\ c.entries[j].at \in 1..Len(c.words) /\ Beyond(c.words, c.entries, j) <= Len(c.words) + 1
           /\ \/ c.words[c.entries[j].at] = Ident(c.entries[j].kind)
              \/ /\ j > 1 /\ c.words[c.entries[j].at] = Comma /\ c.entries[j].kind = c.entries[j - 1].kind
                 /\ c.entries[j].kind \in {"include", "exclude"}
           /\ \/ /\ c.entries[j].kind \in {"include", "exclude"} /\ Beyond(c.words, c.entries, j) = c.entries[j].at + 2
                 /\ c.words[c.entries[j].at + 1].t \in {"angle", "prefixed"}
                 /\ c.entries[j].says = c.words[c.entries[j].at + 1].s
              \/ /\ c.entries[j].kind \in {"no_descendants", "ancestors"}
                 /\ Beyond(c.words, c.entries, j) = c.entries[j].at + 1
  BY DEF ScopeClause
<1>. HIDE DEF c
<1>3. /\ DOMAIN c.entries = 1..Len(c.entries) /\ Len(c.entries) \in Nat /\ DOMAIN c.words = 1..Len(c.words)
      /\ Len(c.words) \in Nat /\ c.from \in Nat /\ c.from > 0 /\ i \in Nat \ {0} /\ i <= Len(c.entries) + 1
  BY <1>1 DEF IsList, c
<1>4. \A w : Ident(w) # Comma
  BY DEF Ident, Comma, Tok
<1>5. CASE i <= Len(c.entries)
  <2>1. i \in DOMAIN c.entries /\ b = c.entries[i].at /\ b \in 1..Len(c.words)
    BY <1>2, <1>3, <1>5 DEF Begin
  <2>2. Beyond(c.words, c.entries, i) = Begin(c, i + 1)
    BY <1>1, <2>1, BeyondBegins
  <2>3. toks[c.from + b - 1] = c.words[b]
    BY <1>1, <1>3, <2>1
  <2>4. Begin(c, i + 1) <= Len(c.words) + 1
    BY <1>2, <2>1, <2>2
  <2>5. b >= 2
    <3>1. CASE i = 1
      <4>1. c.entries # <<>>
        BY <1>3, <1>5, <3>1
      <4>. QED BY <1>2, <2>1, <3>1, <4>1
    <3>2. CASE i # 1
      <4>1. i - 1 \in DOMAIN c.entries /\ (i - 1) + 1 = i
        BY <1>3, <1>5, <3>2
      <4>2. Beyond(c.words, c.entries, i - 1) = b /\ c.entries[i - 1].at \in 1..Len(c.words)
        BY <1>1, <1>2, <4>1, BeyondBegins
      <4>3. b \in {c.entries[i - 1].at + 1, c.entries[i - 1].at + 2}
        BY <1>2, <4>1, <4>2
      <4>. QED BY <4>2, <4>3
    <3>. QED BY <3>1, <3>2
  <2>6. Begin(c, i + 1) = b + 2 => toks[c.from + b] = c.words[b + 1]
    <3>. SUFFICES ASSUME Begin(c, i + 1) = b + 2 PROVE toks[c.from + b] = c.words[b + 1]
      OBVIOUS
    <3>0. b \in Nat /\ Begin(c, i + 1) = b + 2
      BY <1>3, <2>1
    <3>. HIDE DEF b
    <3>1. b + 1 \in DOMAIN c.words /\ c.from + (b + 1) - 1 = c.from + b
      <4>1. b + 1 <= Len(c.words) /\ b + 1 \in Nat /\ b + 1 >= 1
        BY <1>3, <2>4, <3>0
      <4>2. c.from + (b + 1) - 1 = c.from + b
        BY <1>3, <3>0
      <4>. QED BY <1>3, <4>1, <4>2
    <3>. QED BY <1>1, <3>1
  <2>. HIDE DEF b
  <2>7. /\ \/ c.words[b] = Ident(c.entries[i].kind) /\ c.words[b] # Comma
           \/ i > 1 /\ c.words[b] = Comma /\ c.entries[i].kind = c.entries[i - 1].kind
                    /\ c.entries[i].kind \in {"include", "exclude"}
        /\ \/ /\ c.entries[i].kind \in {"include", "exclude"} /\ Begin(c, i + 1) = b + 2
              /\ toks[c.from + b] = c.words[b + 1] /\ c.words[b + 1].t \in {"angle", "prefixed"}
              /\ c.entries[i].says = c.words[b + 1].s
           \/ c.entries[i].kind \in {"no_descendants", "ancestors"} /\ Begin(c, i + 1) = b + 1
    BY <1>2, <1>4, <2>1, <2>2, <2>6
  <2>8. b \in Nat /\ b <= Len(c.words) + 1 /\ b <= Len(c.words)
    BY <1>3, <2>1
  <2>. QED BY <1>3, <1>5, <2>1, <2>3, <2>5, <2>7, <2>8 DEF ScopeStands, c, b
<1>6. CASE ~(i <= Len(c.entries))
  <2>1. i - 1 = Len(c.entries) /\ b = Len(c.words) + 1 /\ c.from + b - 1 = c.from + Len(c.words)
    BY <1>3, <1>6 DEF Begin
  <2>2. Len(c.words) >= 1
    <3>1. 1 \in DOMAIN c.words
      BY <1>1, ClauseStands, ClauseBegins DEF c
    <3>. QED BY <1>3, <3>1
  <2>. HIDE DEF b
  <2>3. b \in Nat /\ b >= 2 /\ b <= Len(c.words) + 1
    BY <1>3, <2>1, <2>2
  <2>. QED BY <1>1, <1>3, <1>6, <2>1, <2>3 DEF ScopeStands, c, b
<1>. QED BY <1>5, <1>6

LEMMA ScopeSteps ==
  ASSUME NEW cs, IsLayout(toks, cs), status = "running",
         NEW n \in DOMAIN cs, NEW i, NEW q, InScope(cs, n, i, q), NextDontoQL
  PROVE  Onwards(cs)
<1>. DEFINE c == cs[n]
            b == Begin(c, i)
            entries == c.entries
            scope(m) == ScopeSays(c.entries, m)
            Scoped(m) == [q EXCEPT !["scope"] = scope(m)]
<1>1. /\ n \in 1..Len(cs) /\ IsList(c.entries) /\ c.from \in Nat /\ c.from > 0
  BY ClauseStands
<1>2. /\ ScopeClause(c.words, c.entries, c.sets) /\ Say(cs, n - 1, q) /\ query = Scoped(i - 1)
      /\ i \in 1..Len(c.entries) + 1
      /\ reading \in {"SCOPE", "include", "exclude"}
  BY DEF InScope
<1>3. ScopeStands(cs, n, i)
  BY <1>2, ScopeStandsThere
<1>4. i \in Nat \ {0} /\ b \in Nat /\ Len(c.entries) \in Nat /\ n \in Nat \ {0} /\ n \in 0..Len(cs)
  <2>1. Len(c.entries) \in Nat
    BY <1>1 DEF IsList
  <2>2. i \in Nat \ {0} /\ b \in Nat
    BY <1>3, SMTT(30) DEF ScopeStands
  <2>. QED BY <1>1, <2>1, <2>2
<1>5. "scope" \in DOMAIN q /\ "scope" \in DOMAIN DefaultQuery
  BY <1>2, QueryFields DEF Say
\* The next entry, whose head is not a comma unless it goes on with the list.
<1>6. ASSUME i <= Len(c.entries)
      PROVE  /\ i + 1 \in 1..Len(c.entries) + 1 /\ (i + 1) - 1 = i
             /\ ScopeStands(cs, n, i + 1) /\ i \in DOMAIN c.entries
  <2>1. i + 1 \in 1..Len(c.entries) + 1 /\ (i + 1) - 1 = i
    BY <1>4, <1>6
  <2>2. ScopeStands(cs, n, i + 1)
    BY <1>2, <2>1, ScopeStandsThere
  <2>3. i \in DOMAIN c.entries
    BY <1>3, <1>6 DEF ScopeStands
  <2>. QED BY <2>1, <2>2, <2>3
<1>7. /\ query.scope = scope(i - 1)
      /\ [query EXCEPT !.scope.descendants = FALSE] = [q EXCEPT !["scope"] = [scope(i - 1) EXCEPT !["descendants"] = FALSE]]
      /\ [query EXCEPT !.scope.ancestors = TRUE] = [q EXCEPT !["scope"] = [scope(i - 1) EXCEPT !["ancestors"] = TRUE]]
      /\ \A side, x : [query EXCEPT !.scope[side] = Append(@, x)] = [q EXCEPT !["scope"] = [scope(i - 1) EXCEPT ![side] = Append(@, x)]]
  <2>. HIDE DEF scope
  <2>. QED BY <1>2, <1>5, ScopeIsSet
<1>8. CASE reading = "SCOPE"
  <2>1. at = c.from + b - 1 /\ (i <= Len(c.entries) => c.words[b] # Comma)
    BY <1>8 DEF InScope
  <2>2. ScopeWord
    BY <1>8, KeywordsTell DEF NextDontoQL, Tokens, Finish, Skip, NoClause, Clause, StartList, StartScope,
                              ReadContext, ReadItem, Running
  <2>3. CASE ~(i <= Len(c.entries))
    <3>1. Follows(Here) /\ at = EndOf(cs, n) /\ i - 1 = Len(c.entries)
      BY <1>3, <2>1, <2>3 DEF ScopeStands, Here
    <3>2. Here \notin {Ident("include"), Ident("exclude"), Ident("no_descendants"), Ident("ancestors")}
      BY <3>1, LexemesDiffer
    <3>3. Advance(at, "clause", query)
      BY <2>2, <3>2 DEF ScopeWord
    <3>4. cs[n].sets = [g \in {"scope"} |-> scope(Len(c.entries))]
      <4>1. c.sets = [scope |-> scope(Len(c.entries))]
        BY <1>2 DEF ScopeClause
      <4>. HIDE DEF scope
      <4>. QED BY <4>1
    <3>. HIDE DEF scope
    <3>5. Say(cs, n, Scoped(i - 1))
      BY <1>2, <1>4, <1>5, <3>1, <3>4, SayMore
    <3>6. Between(cs)'
      BY <1>2, <1>4, <3>1, <3>3, <3>5 DEF Between, Advance
    <3>. QED BY <3>3, <3>6 DEF Advance, Onwards
  <2>4. CASE i <= Len(c.entries)
    <3>1. /\ i \in DOMAIN c.entries /\ Here = Ident(c.entries[i].kind)
          /\ c.entries[i].kind \in {"include", "exclude"} \/ Begin(c, i + 1) = b + 1
          /\ c.entries[i].kind \in {"include", "exclude", "no_descendants", "ancestors"}
      BY <1>3, <2>1, <2>4 DEF ScopeStands, Here
    <3>2. CASE c.entries[i].kind \in {"include", "exclude"}
      <4>1. Advance(at + 1, c.entries[i].kind, query)
        BY <2>2, <3>1, <3>2, KeywordsTell DEF ScopeWord
      <4>2. at + 1 = c.from + b
        <5>1. at = c.from + b - 1 /\ c.from \in Nat /\ b \in Nat
          BY <1>1, <1>4, <2>1
        <5>. HIDE DEF b, c
        <5>. QED BY <5>1
      <4>3. InScope(cs, n, i, q)'
        BY <1>2, <2>4, <3>2, <4>1, <4>2 DEF InScope, Advance
      <4>. QED BY <4>1, <4>3 DEF Advance, Onwards, Inside
    <3>3. CASE c.entries[i].kind \in {"no_descendants", "ancestors"}
      <4>1. i + 1 <= Len(c.entries) => c.words[Begin(c, i + 1)] # Comma
        BY <1>4, <1>6, <2>4, <3>3 DEF ScopeStands
      <4>2. at + 1 = c.from + Begin(c, i + 1) - 1
        <5>1. at = c.from + b - 1 /\ c.from \in Nat /\ b \in Nat
          BY <1>1, <1>4, <2>1
        <5>2. Begin(c, i + 1) = b + 1
          BY <3>1, <3>3
        <5>. HIDE DEF b, c
        <5>. QED BY <5>1, <5>2
      <4>3. Advance(at + 1, "SCOPE", Scoped(i))
        <5>1. CASE c.entries[i].kind = "no_descendants"
          <6>1. Advance(at + 1, "SCOPE", [query EXCEPT !.scope.descendants = FALSE])
            BY <2>2, <3>1, <5>1, KeywordsTell DEF ScopeWord
          <6>2. scope(i) = [scope(i - 1) EXCEPT !["descendants"] = FALSE]
            BY <1>1, <3>1, <5>1, OneMoreScopes
          <6>. HIDE DEF scope
          <6>. QED BY <1>7, <6>1, <6>2
        <5>2. CASE c.entries[i].kind = "ancestors"
          <6>1. Advance(at + 1, "SCOPE", [query EXCEPT !.scope.ancestors = TRUE])
            BY <2>2, <3>1, <5>2, KeywordsTell DEF ScopeWord
          <6>2. scope(i) = [scope(i - 1) EXCEPT !["ancestors"] = TRUE]
            BY <1>1, <3>1, <5>2, OneMoreScopes
          <6>. HIDE DEF scope
          <6>. QED BY <1>7, <6>1, <6>2
        <5>. QED BY <3>3, <5>1, <5>2
      <4>4. InScope(cs, n, i + 1, q)'
        BY <1>2, <1>6, <2>4, <4>1, <4>2, <4>3 DEF InScope, Advance
      <4>. QED BY <4>3, <4>4 DEF Advance, Onwards, Inside
    <3>. QED BY <3>1, <3>2, <3>3
  <2>. QED BY <2>3, <2>4
<1>9. CASE reading \in {"include", "exclude"}
  <2>1. i <= Len(c.entries) /\ reading = c.entries[i].kind /\ at = c.from + b
    BY <1>9 DEF InScope
  <2>2. /\ i \in DOMAIN c.entries /\ Begin(c, i + 1) = b + 2
        /\ Here.t \in {"angle", "prefixed"} /\ Here.s = c.entries[i].says
    BY <1>3, <1>9, <2>1 DEF ScopeStands, Here
  <2>3. ReadContext(reading)
    BY <1>9, KeywordsTell DEF NextDontoQL, Tokens, Finish, Skip, NoClause, Clause, StartList, StartScope,
                              ReadContext, ReadItem, ScopeWord, Running
  <2>4. Goon(at + 1, reading, "SCOPE", Scoped(i))
    <3>1. Fits(AnIri, Here)
      BY <2>2 DEF Fits, AnIri, Value
    <3>2. Goon(at + 1, reading, "SCOPE", [query EXCEPT !.scope[reading] = Append(@, c.entries[i].says)])
      BY <2>2, <2>3, <3>1 DEF ReadContext
    <3>3. scope(i) = [scope(i - 1) EXCEPT ![reading] = Append(@, c.entries[i].says)]
      BY <1>1, <1>9, <2>1, <2>2, OneMoreScopes
    <3>. HIDE DEF scope
    <3>. QED BY <1>7, <3>2, <3>3
  <2>5. at + 1 = c.from + Begin(c, i + 1) - 1 /\ (at + 1) + 1 = c.from + Begin(c, i + 1)
    <3>1. at = c.from + b /\ c.from \in Nat /\ b \in Nat /\ Begin(c, i + 1) = b + 2
      BY <1>1, <1>4, <2>1, <2>2
    <3>. HIDE DEF b, c
    <3>. QED BY <3>1
  <2>6. CASE toks[at + 1] = Comma
    <3>1. i + 1 <= Len(c.entries)
      BY <1>4, <1>6, <2>1, <2>5, <2>6, LexemesDiffer DEF ScopeStands
    <3>2. c.entries[i + 1].kind = reading
      BY <1>4, <1>6, <2>1, <2>5, <2>6, <3>1 DEF ScopeStands
    <3>3. Advance((at + 1) + 1, reading, Scoped(i))
      BY <2>4, <2>6 DEF Goon
    <3>4. InScope(cs, n, i + 1, q)'
      BY <1>2, <1>6, <1>9, <2>1, <2>5, <3>1, <3>2, <3>3 DEF InScope, Advance
    <3>. QED BY <3>3, <3>4 DEF Advance, Onwards, Inside
  <2>7. CASE toks[at + 1] # Comma
    <3>1. i + 1 <= Len(c.entries) => c.words[Begin(c, i + 1)] # Comma
      BY <1>4, <1>6, <2>1, <2>5, <2>7 DEF ScopeStands
    <3>2. Advance(at + 1, "SCOPE", Scoped(i))
      BY <2>4, <2>7 DEF Goon
    <3>3. InScope(cs, n, i + 1, q)'
      BY <1>2, <1>6, <2>1, <2>5, <3>1, <3>2 DEF InScope, Advance
    <3>. QED BY <3>2, <3>3 DEF Advance, Onwards, Inside
  <2>. QED BY <2>6, <2>7
<1>. QED BY <1>2, <1>8, <1>9

-----------------------------------------------------------------------------
(* Clauses *)

LEMMA BetweenSteps ==
  ASSUME NEW cs, IsLayout(toks, cs), status = "running", Between(cs), NextDontoQL
  PROVE  Onwards(cs)
<1>1. PICK n \in 0..Len(cs) : at = EndOf(cs, n) /\ Say(cs, n, query)
  BY DEF Between
<1>. DEFINE c == cs[n + 1]
<1>2. reading = "clause"
  BY DEF Between
<1>3. \/ n = Len(cs) /\ Here = Eof
      \/ /\ n + 1 \in DOMAIN cs /\ at = c.from /\ Here = c.words[1] /\ StandsAt(c.words)
         /\ n + 1 \in Nat \ {0} /\ (n + 1) - 1 = n
  BY <1>1, NextIsThere
<1>4. n + 1 \in DOMAIN cs =>
        /\ EndOf(cs, n + 1) = c.from + Len(c.words) /\ n + 1 \in 0..Len(cs)
        /\ Follows(c.words[1]) /\ c.words[1] # Eof /\ IsList(c.entries)
        /\ \/ c.words = <<Semi>> /\ c.sets = <<>> /\ c.words[1] = Semi
           \/ ValueClause(c.words, c.sets) /\ \E kw \in OneValue : c.words[1] = Ident(kw)
           \/ ListClause(c.words, c.entries, c.sets) /\ \E kw \in DOMAIN ListField : c.words[1] = Ident(kw)
           \/ ScopeClause(c.words, c.entries, c.sets) /\ c.words[1] = Ident("SCOPE")
  BY ClauseStands, ClauseBegins
<1>. HIDE DEF c
<1>5. CASE Finish
  <2>1. n = Len(cs)
    BY <1>3, <1>4, <1>5 DEF Finish
  <2>. QED BY <1>1, <1>5, <2>1 DEF Finish, End, Onwards
<1>6. CASE Skip
  <2>1. n + 1 \in DOMAIN cs /\ c.words[1] = Semi
    BY <1>3, <1>6, KeywordsTell DEF Skip
  <2>2. c.words = <<Semi>> /\ c.sets = <<>>
    BY <1>4, <2>1, KeywordsTell
  <2>3. Say(cs, n + 1, query)
    BY <1>1, <1>3, <2>1, <2>2, KeywordsTell, SayNothing DEF c
  <2>4. EndOf(cs, n + 1) = at + 1
    BY <1>3, <1>4, <2>1, <2>2, KeywordsTell
  <2>. QED BY <1>4, <1>6, <2>1, <2>3, <2>4 DEF Skip, Advance, Onwards, Between
<1>7. CASE NoClause
  BY <1>3, <1>4, <1>7, KeywordsTell, SMTT(30) DEF NoClause, Follows
<1>8. CASE Clause
  <2>1. n + 1 \in DOMAIN cs /\ ValueClause(c.words, c.sets) /\ StandsAt(c.words) /\ at = c.from
    BY <1>3, <1>4, <1>8, KeywordsTell DEF Clause
  <2>2. PICK f \in DOMAIN DefaultQuery : \E x :
          c.sets = [g \in {f} |-> x] /\ Advance(at + Len(c.words), "clause", [query EXCEPT ![f] = x])
    BY <1>8, <2>1, ValueIsRead
  <2>3. PICK x : c.sets = [g \in {f} |-> x] /\ Advance(at + Len(c.words), "clause", [query EXCEPT ![f] = x])
    BY <2>2
  <2>4. Say(cs, n + 1, [query EXCEPT ![f] = x])
    <3>1. Say(cs, (n + 1) - 1, query) /\ n + 1 \in Nat \ {0} /\ cs[n + 1].sets = [g \in {f} |-> x]
      BY <1>1, <1>3, <2>1, <2>3 DEF c
    <3>. QED BY <3>1, SayMore
  <2>. QED BY <1>4, <2>1, <2>3, <2>4 DEF Advance, Onwards, Between
<1>9. CASE StartList
  <2>1. PICK list \in DOMAIN ListField : Here = Ident(list) /\ Here.s = list
    BY <1>3, <1>4, <1>9, KeywordsTell DEF StartList
  <2>2. n + 1 \in DOMAIN cs /\ ListClause(c.words, c.entries, c.sets) /\ c.words[1] = Ident(list) /\ at = c.from
    BY <1>3, <1>4, <2>1, KeywordsTell
  <2>3. 1 \in DOMAIN c.entries /\ c.entries[1].at = 1
    BY <1>4, <2>2 DEF ListClause, IsList
  <2>4. Advance(at + 1, list, [query EXCEPT ![ListField[list]] = <<>>])
    BY <1>9, <2>1 DEF StartList
  <2>5. [j \in 1..1 - 1 |-> c.entries[j].says] = <<>>
    OBVIOUS
  <2>6. PICK q : q = query
    OBVIOUS
  <2>7. InList(cs, n + 1, 1, q)'
    BY <1>1, <1>3, <2>2, <2>3, <2>4, <2>5, <2>6 DEF InList, Advance, c
  <2>8. status' = "running"
    BY <2>4 DEF Advance
  <2>. QED BY <2>2, <2>4, <2>7, <2>8 DEF Advance, Onwards, Inside
<1>10. CASE StartScope
  <2>1. n + 1 \in DOMAIN cs /\ ScopeClause(c.words, c.entries, c.sets) /\ at = c.from
    BY <1>3, <1>4, <1>10, KeywordsTell DEF StartScope
  <2>2. /\ 1 \in 1..Len(c.entries) + 1 /\ at + 1 = c.from + Begin(c, 1) - 1
        /\ 1 <= Len(c.entries) => c.words[Begin(c, 1)] # Comma
    <3>1. 1 \in 1..Len(c.entries) + 1 /\ Len(c.entries) \in Nat /\ c.from \in Nat
      <4>1. Len(c.entries) \in Nat
        BY <1>4, <2>1 DEF IsList
      <4>2. c.from \in Nat
        BY <2>1, ClauseStands DEF c
      <4>. QED BY <4>1, <4>2
    <3>2. ScopeStands(cs, n + 1, 1)
      BY <2>1, <3>1, ScopeStandsThere DEF c
    <3>3. Begin(c, 1) = 2
      <4>1. c.entries # <<>> => Len(c.entries) >= 1
        BY <1>4, <2>1, <3>1 DEF IsList
      <4>2. IF c.entries = <<>> THEN Len(c.words) = 1 ELSE c.entries[1].at = 2
        BY <2>1 DEF ScopeClause
      <4>3. CASE c.entries = <<>>
        <5>1. Len(c.entries) = 0
          BY <4>3
        <5>2. Len(c.words) = 1 /\ 1 > Len(c.entries)
          BY <4>2, <4>3, <5>1
        <5>. QED BY <5>2 DEF Begin
      <4>4. CASE c.entries # <<>>
        <5>1. ~(1 > Len(c.entries))
          BY <3>1, <4>1, <4>4
        <5>. QED BY <4>2, <4>4, <5>1 DEF Begin
      <4>. QED BY <4>3, <4>4
    <3>4. 1 <= Len(c.entries) => c.words[Begin(c, 1)] # Comma
      BY <3>2 DEF ScopeStands, c
    <3>. QED BY <2>1, <3>1, <3>3, <3>4
  <2>3. Advance(at + 1, "SCOPE", [query EXCEPT !.scope = Anywhere])
    BY <1>10 DEF StartScope
  <2>4. ScopeSays(c.entries, 1 - 1) = Anywhere
    BY ScopeOfNothing
  <2>5. PICK q : q = query
    OBVIOUS
  <2>6. InScope(cs, n + 1, 1, q)'
    <3>1. at' = c.from + Begin(c, 1) - 1 /\ reading' = "SCOPE" /\ query' = [q EXCEPT !["scope"] = ScopeSays(c.entries, 1 - 1)]
      <4>1. at' = at + 1 /\ reading' = "SCOPE" /\ query' = [query EXCEPT !["scope"] = Anywhere]
        BY <2>3 DEF Advance
      <4>. QED BY <2>2, <2>4, <2>5, <4>1
    <3>2. Say(cs, (n + 1) - 1, q)
      BY <1>1, <1>3, <2>1, <2>5
    <3>3. (reading = "SCOPE" /\ at = c.from + Begin(c, 1) - 1)'
      BY <3>1 DEF c
    <3>4. (query = [q EXCEPT !["scope"] = ScopeSays(cs[n + 1].entries, 1 - 1)])'
      BY <3>1 DEF c
    <3>. QED BY <2>1, <2>2, <3>2, <3>3, <3>4 DEF InScope, c
  <2>. QED BY <2>1, <2>3, <2>6 DEF Advance, Onwards, Inside
<1>11. CASE Tokens \/ \E list \in DOMAIN ListField : ReadItem(list)
  BY <1>2, <1>11, KeywordsTell DEF Tokens, ReadItem, Running
<1>12. CASE ScopeWord \/ \E side \in {"include", "exclude"} : ReadContext(side)
  BY <1>2, <1>12 DEF ScopeWord, ReadContext, Running
<1>. QED BY <1>5, <1>6, <1>7, <1>8, <1>9, <1>10, <1>11, <1>12 DEF NextDontoQL

-----------------------------------------------------------------------------
(* What is written in DontoQL is read. *)

\* A text that means something has a layout that says so: before it is lexed,
\* while it is read, and in what was read of it.
TextInv ==
  language = "dontoql" /\ means # None =>
    \E cs :
      \/ status = "unlexed" /\ at = 1 /\ reading = "clause" /\ query = DefaultQuery /\ Renders(text, cs, means)
      \/ status = "running" /\ IsLayout(toks, cs) /\ Say(cs, Len(cs), means) /\ (Between(cs) \/ Inside(cs))
      \/ status = "parsed" /\ query = means

LEMMA TextInit == Init => TextInv
<1>. SUFFICES ASSUME Init, language = "dontoql", means # None
     PROVE  \E cs : status = "unlexed" /\ at = 1 /\ reading = "clause" /\ query = DefaultQuery /\ Renders(text, cs, means)
  BY DEF TextInv
<1>1. PICK s \in Source : InitText(s)
  BY DEF Init
<1>2. LanguageOf(s.text) = "dontoql" /\ means = s.means
  BY <1>1 DEF InitText
<1>3. InitDontoQL({s.text})
  BY <1>1, <1>2 DEF InitText
<1>. QED BY <1>2, <1>3, SourcesAreSpelled DEF InitDontoQL

LEMMA TextIsRead ==
  ASSUME TextInv, ParseDontoQL
  PROVE  TextInv'
<1>. SUFFICES ASSUME language = "dontoql", means # None
     PROVE  \E cs :
       (\/ status = "unlexed" /\ at = 1 /\ reading = "clause" /\ query = DefaultQuery /\ Renders(text, cs, means)
        \/ status = "running" /\ IsLayout(toks, cs) /\ Say(cs, Len(cs), means) /\ (Between(cs) \/ Inside(cs))
        \/ status = "parsed" /\ query = means)'
  BY DEF TextInv, ParseDontoQL
<1>1. NextDontoQL /\ means' = means
  BY DEF ParseDontoQL
<1>2. PICK cs :
      \/ status = "unlexed" /\ at = 1 /\ reading = "clause" /\ query = DefaultQuery /\ Renders(text, cs, means)
      \/ status = "running" /\ IsLayout(toks, cs) /\ Say(cs, Len(cs), means) /\ (Between(cs) \/ Inside(cs))
      \/ status = "parsed" /\ query = means
  BY DEF TextInv
<1>3. CASE status = "unlexed" /\ at = 1 /\ reading = "clause" /\ query = DefaultQuery /\ Renders(text, cs, means)
  <2>1. Tokens
    BY <1>1, <1>3 DEF NextDontoQL, Finish, Skip, NoClause, Clause, StartList, StartScope, ScopeWord, ReadContext, ReadItem, Running
  <2>2. Lexes(text) /\ IsLayout(Lex(text), cs) /\ Say(cs, Len(cs), means)
    BY <1>3 DEF Renders
  <2>3. toks' = Lex(text) /\ status' = "running" /\ UNCHANGED <<text, at, reading, query>>
    BY <2>1, <2>2 DEF Tokens
  <2>4. 0 \in 0..Len(cs)
    BY <2>2 DEF IsLayout, IsList
  <2>5. Say(cs, 0, DefaultQuery)
    BY DEF Say, DefaultQuery
  <2>6. Between(cs)'
    BY <1>3, <2>3, <2>4, <2>5 DEF Between, EndOf
  <2>. QED BY <1>1, <2>2, <2>3, <2>6
<1>4. CASE status = "running" /\ IsLayout(toks, cs) /\ Say(cs, Len(cs), means) /\ (Between(cs) \/ Inside(cs))
  <2>1. Onwards(cs)
    <3>1. CASE Between(cs)
      BY <1>1, <1>4, <3>1, BetweenSteps
    <3>2. CASE Inside(cs)
      <4>1. PICK n \in DOMAIN cs : \E i, q : InList(cs, n, i, q) \/ InScope(cs, n, i, q)
        BY <3>2 DEF Inside
      <4>2. PICK i, q : InList(cs, n, i, q) \/ InScope(cs, n, i, q)
        BY <4>1
      <4>. QED BY <1>1, <1>4, <4>2, ListSteps, ScopeSteps
    <3>. QED BY <1>4, <3>1, <3>2
  <2>2. Len(cs) \in Nat
    BY <1>4 DEF IsLayout, IsList
  <2>3. Say(cs, Len(cs), query') => query' = means
    BY <1>4, <2>2, SayOne
  <2>4. IsLayout(toks, cs)' /\ Say(cs, Len(cs), means)'
    BY <1>1, <1>4, <2>1 DEF Onwards
  <2>. QED BY <1>1, <2>1, <2>3, <2>4 DEF Onwards
<1>5. CASE status = "parsed" /\ query = means
  BY <1>1, <1>5 DEF NextDontoQL, Tokens, Finish, Skip, NoClause, Clause, StartList, StartScope, ScopeWord,
                    ReadContext, ReadItem, Running
<1>. QED BY <1>2, <1>3, <1>4, <1>5

LEMMA TextStays ==
  ASSUME TextInv, UNCHANGED tvars
  PROVE  TextInv'
<1>1. UNCHANGED <<text, toks, at, reading, query, status, means, language>>
  BY DEF tvars, dvars
<1>. SUFFICES ASSUME language = "dontoql", means # None
     PROVE  \E cs :
       (\/ status = "unlexed" /\ at = 1 /\ reading = "clause" /\ query = DefaultQuery /\ Renders(text, cs, means)
        \/ status = "running" /\ IsLayout(toks, cs) /\ Say(cs, Len(cs), means) /\ (Between(cs) \/ Inside(cs))
        \/ status = "parsed" /\ query = means)'
  BY <1>1 DEF TextInv
<1>2. PICK cs :
      \/ status = "unlexed" /\ at = 1 /\ reading = "clause" /\ query = DefaultQuery /\ Renders(text, cs, means)
      \/ status = "running" /\ IsLayout(toks, cs) /\ Say(cs, Len(cs), means) /\ (Between(cs) \/ Inside(cs))
      \/ status = "parsed" /\ query = means
  BY DEF TextInv
<1>3. Between(cs) => Between(cs)'
  BY <1>1 DEF Between
<1>4. ASSUME NEW n \in DOMAIN cs, NEW i, NEW q
      PROVE  (InList(cs, n, i, q) => InList(cs, n, i, q)') /\ (InScope(cs, n, i, q) => InScope(cs, n, i, q)')
  BY <1>1 DEF InList, InScope
<1>5. Inside(cs) => Inside(cs)'
  BY <1>4 DEF Inside
<1>. QED BY <1>1, <1>2, <1>3, <1>5

\* Every text goes to one of the two parsers.
LEMMA TextIsInvariant == Spec => [](TextInv /\ language \in {"dontoql", "sparql"})
<1>. DEFINE Inv == TextInv /\ language \in {"dontoql", "sparql"}
<1>1. Init => Inv
  BY TextInit DEF Init, InitText, LanguageOf
<1>2. Inv /\ [Next]_vars => Inv'
  <2>. SUFFICES ASSUME Inv, [Next]_vars PROVE Inv'
    OBVIOUS
  <2>1. CASE Read
    <3>1. CASE ParseDontoQL
      BY <3>1, TextIsRead DEF ParseDontoQL
    <3>2. CASE ParseSparql
      BY <3>2 DEF ParseSparql, TextInv
    <3>. QED BY <2>1, <3>1, <3>2 DEF Read, Parse
  <2>2. CASE Ask \/ Answer \/ Fail \/ OthersEdit \/ UNCHANGED vars
    <3>1. UNCHANGED tvars
      BY <2>2 DEF Ask, Answer, Fail, OthersEdit, vars
    <3>. QED BY <3>1, TextStays DEF tvars
  <2>. QED BY <2>1, <2>2 DEF Next, Handle
<1>. QED BY <1>1, <1>2, PTL DEF Spec

\* DontoQL reads what is written: whatever clauses a text is made of and in
\* whatever order, every one is read, none is refused because of what stands
\* next to it, and each field of the query is as the last clause that sets it
\* has it.
THEOREM DontoQLIsRead == Spec => [](language = "dontoql" => ReadsWhatIsWritten)
<1>1. TextInv => (language = "dontoql" => ReadsWhatIsWritten)
  BY DEF TextInv, ReadsWhatIsWritten, Ended
<1>. QED BY <1>1, TextIsInvariant, PTL

-----------------------------------------------------------------------------
(* What the SPARQL tokenizer does with a text. *)

LEMMA Kinds ==
  ASSUME IsList(text)
  PROVE  /\ Len(text) \in Nat /\ DOMAIN text = 1..Len(text)
         /\ \A y \in DOMAIN text : S!Kind(y) = text[y].u
         /\ S!Kind(Len(text) + 1) = "end"
<1>1. Len(text) \in Nat /\ DOMAIN text = 1..Len(text)
  BY DEF IsList
<1>. QED BY <1>1 DEF S!Kind

LEMMA PastIs ==
  ASSUME NEW i \in Nat, NEW j \in i..Len(text) + 1, Len(text) \in Nat, NEW kinds,
         S!Kind(j) \notin kinds, \A y \in i..j - 1 : S!Kind(y) \in kinds
  PROVE  S!Past(i, kinds) = j
<1>1. ASSUME NEW l \in i..Len(text) + 1, S!Kind(l) \notin kinds, \A y \in i..l - 1 : S!Kind(y) \in kinds
      PROVE  l = j
  <2>1. ~ l < j
    <3>1. l < j => l \in i..j - 1
      OBVIOUS
    <3>. QED BY <1>1, <3>1
  <2>2. ~ j < l
    <3>1. j < l => j \in i..l - 1
      OBVIOUS
    <3>. QED BY <1>1, <3>1
  <2>. QED BY <2>1, <2>2
<1>. QED BY <1>1 DEF S!Past

\* A position of the text, or the one after it.
IsPosition(i) == i \in Nat \ {0} /\ i <= Len(text) + 1

LEMMA BlankPast ==
  ASSUME IsList(text), NEW i, NEW j, IsPosition(i), IsPosition(j), Blank(text, i, j), S!Kind(j) \notin S!Space
  PROVE  S!Past(i, S!Space) = j
<1>1. Len(text) \in Nat /\ i \in Nat /\ j \in i..Len(text) + 1
  BY Kinds DEF Blank, IsPosition
<1>2. ASSUME NEW y \in i..j - 1 PROVE S!Kind(y) \in S!Space
  <2>1. y \in DOMAIN text
    BY Kinds DEF IsPosition
  <2>. QED BY <2>1, Kinds DEF Blank, Blanks, S!Space
<1>. QED BY <1>1, <1>2, PastIs

LEMMA SkipIs ==
  ASSUME NEW i \in Nat, NEW j \in i..Len(text) + 1, Len(text) \in Nat,
         ~S!Skipped(i, j), \A y \in i..j - 1 : S!Skipped(i, y)
  PROVE  S!Skip(i) = j
<1>1. ASSUME NEW l \in i..Len(text) + 1, ~S!Skipped(i, l), \A y \in i..l - 1 : S!Skipped(i, y)
      PROVE  l = j
  <2>1. ~ l < j
    <3>1. l < j => l \in i..j - 1
      OBVIOUS
    <3>. QED BY <1>1, <3>1
  <2>2. ~ j < l
    <3>1. j < l => j \in i..l - 1
      OBVIOUS
    <3>. QED BY <1>1, <3>1
  <2>. QED BY <2>1, <2>2
<1>. QED BY <1>1 DEF S!Skip

\* A piece the tokenizer stops at, and one that begins a part.
Solid(piece) == piece.u \notin Blanks /\ ~IsSign(piece, {"#"})
Starts(piece) == Solid(piece) /\ ~IsSign(piece, {"@", "^^"})

\* A gap is what is skipped.
LEMMA SkipTo ==
  ASSUME IsList(text), NEW i, NEW j \in DOMAIN text, IsPosition(i), Gap(text, i, j), Solid(text[j])
  PROVE  S!Skip(i) = j
<1>1. /\ Len(text) \in Nat /\ i \in Nat \ {0} /\ j \in Nat /\ j \in i..Len(text) + 1 /\ DOMAIN text = 1..Len(text)
  BY Kinds DEF Gap, Void, IsPosition
<1>2. \A y \in DOMAIN text : S!Kind(y) = text[y].u /\ (S!Is(y, "#") <=> IsSign(text[y], {"#"}))
  BY Kinds DEF S!Is, IsSign
<1>3. ASSUME NEW y \in i..j - 1 PROVE S!Skipped(i, y)
  <2>1. y \in DOMAIN text /\ y \in i..y /\ y..y - 1 = {}
    BY <1>1
  <2>2. CASE text[y].u \in Blanks
    BY <1>2, <2>1, <2>2 DEF S!Skipped, S!Space, Blanks
  <2>3. CASE IsSign(text[y], {"#"})
    BY <1>2, <2>1, <2>3 DEF S!Skipped
  <2>4. CASE Comment(text, i, y)
    <3>1. PICK c \in i..y - 1 : IsSign(text[c], {"#"}) /\ \A l \in c..y - 1 : text[l].u # "newline"
      BY <2>4 DEF Comment
    <3>2. c \in i..y /\ c \in DOMAIN text /\ \A l \in c..y - 1 : l \in DOMAIN text
      BY <1>1, <2>1
    <3>3. S!Is(c, "#") /\ \A l \in c..y - 1 : S!Kind(l) # "newline"
      BY <1>2, <3>1, <3>2
    <3>. QED BY <2>1, <3>2, <3>3 DEF S!Skipped
  <2>. QED BY <2>2, <2>3, <2>4 DEF Gap, Void
<1>4. ~S!Skipped(i, j)
  <2>1. S!Kind(j) \notin S!Space /\ ~S!Is(j, "#")
    BY <1>2 DEF Solid, Blanks, S!Space
  <2>2. ASSUME NEW c \in i..j, S!Is(c, "#"), \A l \in c..j - 1 : S!Kind(l) # "newline"
        PROVE  FALSE
    <3>1. c \in i..j - 1 /\ c \in DOMAIN text /\ \A l \in c..j - 1 : l \in DOMAIN text
      BY <1>1, <2>1, <2>2
    <3>2. Comment(text, i, j)
      BY <1>2, <2>2, <3>1 DEF Comment
    <3>. QED BY <3>2 DEF Gap
  <2>. QED BY <2>1, <2>2 DEF S!Skipped
<1>. QED BY <1>1, <1>3, <1>4, SkipIs

LEMMA PeekTo ==
  ASSUME IsList(text), NEW i, NEW j \in DOMAIN text, IsPosition(i), Blank(text, i, j), text[j].u \notin Blanks
  PROVE  /\ S!PeekWord(i) = (IF text[j].u = "word" THEN text[j].s ELSE None)
         /\ S!AfterWord(i) = j + 1
<1>1. IsPosition(j) /\ S!Kind(j) = text[j].u /\ S!Kind(j) \notin S!Space
  BY Kinds DEF IsPosition, Blanks, S!Space
<1>2. S!Past(i, S!Space) = j
  BY <1>1, BlankPast
<1>. QED BY <1>1, <1>2 DEF S!PeekWord, S!AfterWord

LEMMA GapHere ==
  ASSUME NEW t, NEW i \in Nat
  PROVE  Gap(t, i, i) /\ Blank(t, i, i)
BY DEF Gap, Void, Blank, Comment

\* Blanks alone are a gap.
LEMMA BlankGap ==
  ASSUME NEW t, NEW i, NEW j, Blank(t, i, j)
  PROVE  Gap(t, i, j)
BY DEF Blank, Gap, Void, Comment, Blanks, IsSign

-----------------------------------------------------------------------------
(* Terms. *)

LEMMA Pieces ==
  ASSUME IsList(text), NEW y \in DOMAIN text
  PROVE  /\ S!Kind(y) = text[y].u /\ \A s : S!Is(y, s) <=> IsSign(text[y], {s})
         /\ \A s : text[y] = S!Sign(s) => S!Is(y, s) /\ S!Kind(y) = "sign" /\ \A z : S!Is(y, z) => z = s
         /\ \A s : text[y] = S!AWord(s) => S!Kind(y) = "word" /\ text[y].u = "word" /\ text[y].s = s
         /\ S!Kind(y) # "sign" => \A s : ~S!Is(y, s)
         /\ text[y].u \in {"word", "number", "iri", "string"} => Solid(text[y])
         /\ \A s : text[y] = S!Sign(s) /\ s # "#" => Solid(text[y])
<1>1. S!Kind(y) = text[y].u
  BY Kinds
<1>. QED BY <1>1 DEF S!Is, IsSign, S!Sign, S!AWord, S!Piece, Solid, Blanks

\* After the pieces up to b - 1 the next part begins at c.
Followed(b, c) == c \in DOMAIN text /\ Gap(text, b, c) /\ Starts(text[c])

\* What was read is the term, and the cursor is behind it or where the next part begins.
ReadAs(r, x, b, c) == r.v = x /\ r.next \in {b, c} /\ r.next # 0

\* A word, a sign or a number that is the next piece.
LEMMA NextPiece ==
  ASSUME IsList(text), NEW y \in DOMAIN text, Solid(text[y])
  PROVE  S!Skip(y) = y
<1>1. IsPosition(y) /\ y \in Nat
  BY Kinds DEF IsPosition
<1>. QED BY <1>1, SkipTo, GapHere

LEMMA SkipFollowed ==
  ASSUME IsList(text), NEW b, NEW c, IsPosition(b), Followed(b, c)
  PROVE  /\ S!Skip(b) = c /\ b <= c /\ c \in Nat /\ c # 0
         /\ ~S!Is(c, "@") /\ ~S!Is(c, "^^")
<1>1. c \in DOMAIN text /\ Solid(text[c]) /\ Gap(text, b, c) /\ ~IsSign(text[c], {"@", "^^"})
  BY DEF Followed, Starts
<1>2. c \in Nat /\ c # 0 /\ b <= c
  BY <1>1, Kinds DEF Gap, Void
<1>3. ~S!Is(c, "@") /\ ~S!Is(c, "^^")
  BY <1>1, Pieces DEF IsSign
<1>. QED BY <1>1, <1>2, <1>3, SkipTo

\* The local part of a name.
LEMMA LocalEndIs ==
  ASSUME IsList(text), NEW l \in DOMAIN text, NEW b \in DOMAIN text, l <= b,
         \A y \in l..b - 1 : IsLocal(text[y]), ~IsLocal(text[b])
  PROVE  S!LocalEnd(l) = b
<1>1. Len(text) \in Nat /\ DOMAIN text = 1..Len(text)
  BY Kinds
<1>2. \A y \in DOMAIN text : S!OfLocal(y) <=> IsLocal(text[y])
  BY Pieces DEF S!OfLocal, IsLocal, IsSign
<1>3. b \in l..Len(text) + 1 /\ ~S!OfLocal(b) /\ \A y \in l..b - 1 : S!OfLocal(y)
  <2>1. \A y \in l..b - 1 : y \in DOMAIN text
    BY <1>1
  <2>. QED BY <1>1, <1>2, <2>1
<1>4. ASSUME NEW j \in l..Len(text) + 1, ~S!OfLocal(j), \A y \in l..j - 1 : S!OfLocal(y)
      PROVE  j = b
  <2>1. ~ j < b
    <3>1. j < b => j \in l..b - 1
      BY <1>1
    <3>. QED BY <1>3, <1>4, <3>1
  <2>2. ~ b < j
    <3>1. b < j => b \in l..j - 1
      BY <1>1
    <3>. QED BY <1>3, <1>4, <3>1
  <2>. QED BY <1>1, <2>1, <2>2
<1>. QED BY <1>3, <1>4 DEF S!LocalEnd

LEMMA VariableIsRead ==
  ASSUME IsList(text), NEW a \in DOMAIN text, NEW b, VariableAt(text, a, b), b - 1 \in DOMAIN text, b \in Nat
  PROVE  S!Is(a, "?") /\ S!Skip(a + 1) = a + 1 /\ S!Kind(a + 1) = "word" /\ b = a + 2
<1>1. b = a + 2 /\ text[a] = S!Sign("?") /\ text[a + 1].u = "word"
  BY DEF VariableAt
<1>2. a \in Nat /\ a + 1 \in DOMAIN text
  BY <1>1, Kinds
<1>. QED BY <1>1, <1>2, Pieces, NextPiece

LEMMA NameIsResolved ==
  ASSUME IsList(text), NEW a \in DOMAIN text, NEW b, NameAt(text, a, b)
  PROVE  S!ReadName(a) = [v |-> Expanded(prefixes, text[a].s, SubSeq(text, a + 2, b - 1)), next |-> b]
<1>1. /\ text[a].u = "word" /\ text[a + 1] = S!Sign(":") /\ a + 2 < b /\ ~IsSign(text[a + 2], {"#"})
      /\ \A y \in a + 2..b - 1 : IsLocal(text[y])
      /\ b \in DOMAIN text /\ ~IsLocal(text[b])
  BY DEF NameAt
<1>2. a + 1 \in DOMAIN text /\ a + 2 \in DOMAIN text /\ a \in Nat /\ a + 2 \in a + 2..b - 1 /\ (a + 1) + 1 = a + 2 /\ b \in Nat
  BY <1>1, Kinds
<1>3. text[a + 1].u = "sign" /\ S!Is(a + 1, ":")
  BY <1>1, <1>2, Pieces
<1>4. S!Skip(a + 1) = a + 1
  BY <1>1, <1>2, Pieces, NextPiece
<1>5. Solid(text[a + 2])
  BY <1>1, <1>2 DEF IsLocal, IsSign, Solid, Blanks
<1>6. S!Skip(a + 2) = a + 2
  BY <1>2, <1>5, NextPiece
<1>7. S!LocalEnd(a + 2) = b
  BY <1>1, <1>2, LocalEndIs
<1>. QED BY <1>2, <1>3, <1>4, <1>6, <1>7 DEF S!ReadName, S!Got, S!Resolve, Expanded

LEMMA LiteralIsRead ==
  ASSUME IsList(text), NEW a \in DOMAIN text, NEW b, IsPosition(b), NEW c, Followed(b, c), NEW x,
         LiteralAt(text, prefixes, a, b, x)
  PROVE  ReadAs(S!ReadLiteral(a), x, b, c)
<1>0. /\ Len(text) \in Nat /\ DOMAIN text = 1..Len(text) /\ a \in Nat /\ b \in Nat /\ b <= Len(text) + 1
      /\ S!Skip(b) = c /\ b <= c /\ c \in Nat /\ ~S!Is(c, "@") /\ ~S!Is(c, "^^") /\ b # 0 /\ c # 0
  <2>1. Len(text) \in Nat /\ DOMAIN text = 1..Len(text)
    BY Kinds
  <2>. QED BY <2>1, SkipFollowed DEF IsPosition
<1>1. CASE b = a + 1 /\ x = Text(text[a].s, "xsd:string")
  <2>1. S!ReadLiteral(a) = [v |-> Text(text[a].s, "xsd:string"), next |-> c]
    BY <1>0, <1>1 DEF S!ReadLiteral, S!Got, S!Text, Text
  <2>. QED BY <1>0, <1>1, <2>1 DEF ReadAs
<1>2. CASE b = a + 3 /\ text[a + 1] = S!Sign("@") /\ text[a + 2].u = "word"
           /\ x = [lit |-> text[a].s, dt |-> "rdf:langString", lang |-> text[a + 2].s]
  <2>1. a + 1 \in DOMAIN text /\ a + 2 \in DOMAIN text /\ (a + 1) + 1 = a + 2 /\ (a + 2) + 1 = a + 3
    BY <1>0, <1>2
  <2>2. S!Skip(a + 1) = a + 1 /\ S!Is(a + 1, "@")
    BY <1>2, <2>1, Pieces, NextPiece
  <2>3. S!Skip(a + 2) = a + 2 /\ S!Kind(a + 2) = "word"
    BY <1>2, <2>1, Pieces, NextPiece
  <2>4. S!ReadLiteral(a) = [v |-> x, next |-> b]
    BY <1>2, <2>1, <2>2, <2>3 DEF S!ReadLiteral, S!Got
  <2>. QED BY <1>0, <2>4 DEF ReadAs
<1>3. ASSUME text[a + 1] = S!Sign("^^"), a + 2 < b, NEW dt, S!ReadDatatype(a + 2) = [v |-> dt, next |-> b],
             x = [lit |-> text[a].s, dt |-> dt]
      PROVE  ReadAs(S!ReadLiteral(a), x, b, c)
  <2>1. a + 1 \in DOMAIN text /\ (a + 1) + 1 = a + 2
    BY <1>0, <1>3
  <2>2. S!Skip(a + 1) = a + 1 /\ S!Is(a + 1, "^^") /\ ~S!Is(a + 1, "@")
    <3>1. text[a + 1].u = "sign"
      BY <1>3, <2>1, Pieces
    <3>2. "@" # "^^" /\ "#" # "^^"
      OBVIOUS
    <3>. QED BY <1>3, <2>1, <3>1, <3>2, Pieces, NextPiece
  <2>3. ~S!Failed(S!ReadDatatype(a + 2))
    BY <1>0, <1>3 DEF S!Failed
  <2>4. S!ReadLiteral(a) = [v |-> x, next |-> b]
    BY <1>3, <2>1, <2>2, <2>3 DEF S!ReadLiteral, S!Got
  <2>. QED BY <1>0, <2>4 DEF ReadAs
<1>4. CASE b = a + 3 /\ text[a + 1] = S!Sign("^^") /\ text[a + 2].u = "iri"
           /\ x = [lit |-> text[a].s, dt |-> <<text[a + 2].s>>]
  <2>1. a + 2 \in DOMAIN text /\ (a + 2) + 1 = b /\ a + 2 < b
    BY <1>0, <1>4
  <2>2. S!Kind(a + 2) = "iri"
    BY <1>4, <2>1, Pieces
  <2>3. S!ReadDatatype(a + 2) = [v |-> <<text[a + 2].s>>, next |-> b]
    BY <2>1, <2>2 DEF S!ReadDatatype, S!Got
  <2>. QED BY <1>3, <1>4, <2>1, <2>3
<1>5. CASE /\ b = a + 5 /\ text[a + 1] = S!Sign("^^")
           /\ text[a + 2].u = "word" /\ text[a + 3] = S!Sign(":") /\ text[a + 4].u = "word"
           /\ x = [lit |-> text[a].s, dt |-> Expanded(prefixes, text[a + 2].s, <<text[a + 4]>>)]
  <2>1. /\ a + 2 \in DOMAIN text /\ a + 3 \in DOMAIN text /\ a + 4 \in DOMAIN text
        /\ (a + 2) + 1 = a + 3 /\ (a + 3) + 1 = a + 4 /\ (a + 4) + 1 = b /\ a + 2 < b
    BY <1>0, <1>5
  <2>2. S!Kind(a + 2) = "word" /\ S!Skip(a + 2) = a + 2
    BY <1>5, <2>1, Pieces, NextPiece
  <2>3. S!Is(a + 3, ":") /\ S!Skip(a + 3) = a + 3
    BY <1>5, <2>1, Pieces, NextPiece
  <2>4. S!Kind(a + 4) = "word" /\ S!Skip(a + 4) = a + 4
    BY <1>5, <2>1, Pieces, NextPiece
  <2>5. S!ReadDatatype(a + 2) = [v |-> Expanded(prefixes, text[a + 2].s, <<text[a + 4]>>), next |-> b]
    BY <2>1, <2>2, <2>3, <2>4 DEF S!ReadDatatype, S!Got, S!Resolve, Expanded
  <2>. QED BY <1>3, <1>5, <2>1, <2>5
<1>. QED BY <1>1, <1>2, <1>4, <1>5 DEF LiteralAt

LEMMA TermIsRead ==
  ASSUME IsList(text), NEW part, part.from \in DOMAIN text, IsPosition(part.to), part.from < part.to,
         NEW i, IsPosition(i), Gap(text, i, part.from), NEW c, Followed(part.to, c), NEW x,
         Spells(text, prefixes, part, x)
  PROVE  ReadAs(S!ReadTerm(i), x, part.to, c)
<1>. DEFINE a == part.from
            b == part.to
<1>0. /\ a \in DOMAIN text /\ a \in Nat /\ b \in Nat /\ b # 0 /\ a < b /\ a <= b - 1 /\ b - 1 \in DOMAIN text
      /\ b <= c /\ c \in Nat /\ c # 0
  BY Kinds, SkipFollowed DEF IsPosition
<1>. HIDE DEF a, b
<1>1. S!Kind(a) = text[a].u
  BY <1>0, Pieces
<1>2. text[a].u \in {"word", "number", "iri", "string"} \/ text[a] = S!Sign("?") => S!Skip(i) = a
  <2>1. Solid(text[a]) => S!Skip(i) = a
    BY <1>0, SkipTo DEF a
  <2>. QED BY <1>0, <2>1, Pieces
<1>3. \A s : text[a].u # "sign" => ~S!Is(a, s)
  BY <1>0, <1>1, Pieces
<1>4. CASE VariableAt(text, a, b) /\ x = Var(text[a + 1].s)
  <2>1. S!Is(a, "?") /\ S!Skip(a + 1) = a + 1 /\ S!Kind(a + 1) = "word" /\ b = a + 2
    BY <1>0, <1>4, VariableIsRead
  <2>2. text[a].u = "sign" /\ text[a] = S!Sign("?")
    BY <1>0, <1>1, <1>4, Pieces DEF VariableAt
  <2>3. S!ReadTerm(i) = [v |-> x, next |-> b]
    BY <1>0, <1>1, <1>2, <1>4, <2>1, <2>2 DEF S!ReadTerm, S!Got, S!Var, Var
  <2>. QED BY <1>0, <2>3 DEF ReadAs, b
<1>5. CASE IsKind(text, part, "iri") /\ x = Iri(<<text[a].s>>)
  <2>1. b = a + 1 /\ text[a].u = "iri"
    BY <1>5 DEF IsKind, a, b
  <2>2. S!ReadTerm(i) = [v |-> x, next |-> b]
    BY <1>1, <1>2, <1>3, <1>5, <2>1 DEF S!ReadTerm, S!Got, S!Iri, Iri
  <2>. QED BY <1>0, <2>2 DEF ReadAs, b
<1>6. CASE IsKind(text, part, "number") /\ x = Num(text[a].n)
  <2>1. b = a + 1 /\ text[a].u = "number"
    BY <1>6 DEF IsKind, a, b
  <2>2. S!ReadTerm(i) = [v |-> x, next |-> b]
    BY <1>1, <1>2, <1>3, <1>6, <2>1 DEF S!ReadTerm, S!Got, S!Num, Num
  <2>. QED BY <1>0, <2>2 DEF ReadAs, b
<1>7. CASE LiteralAt(text, prefixes, a, b, x)
  <2>1. text[a].u = "string"
    BY <1>7 DEF LiteralAt
  <2>2. S!ReadTerm(i) = S!ReadLiteral(a)
    BY <1>1, <1>2, <1>3, <2>1 DEF S!ReadTerm
  <2>3. ReadAs(S!ReadLiteral(a), x, b, c)
    BY <1>0, <1>7, LiteralIsRead DEF b
  <2>. QED BY <2>2, <2>3 DEF b
<1>8. CASE NameAt(text, a, b) /\ x = Iri(Expanded(prefixes, text[a].s, SubSeq(text, a + 2, b - 1)))
  <2>. DEFINE name == Expanded(prefixes, text[a].s, SubSeq(text, a + 2, b - 1))
  <2>1. text[a].u = "word"
    BY <1>8 DEF NameAt
  <2>2. S!ReadName(a) = [v |-> name, next |-> b]
    BY <1>0, <1>8, NameIsResolved
  <2>. HIDE DEF name
  <2>3. ~S!Failed(S!ReadName(a))
    BY <1>0, <2>2 DEF S!Failed
  <2>4. S!ReadTerm(i) = [v |-> Iri(name), next |-> b]
    BY <1>1, <1>2, <1>3, <2>1, <2>2, <2>3 DEF S!ReadTerm, S!Got, S!Iri, Iri
  <2>. QED BY <1>0, <1>8, <2>4 DEF ReadAs, b, name
<1>9. \/ VariableAt(text, a, b) /\ x = Var(text[a + 1].s)
      \/ IsKind(text, part, "iri") /\ x = Iri(<<text[a].s>>)
      \/ IsKind(text, part, "number") /\ x = Num(text[a].n)
      \/ LiteralAt(text, prefixes, a, b, x)
      \/ NameAt(text, a, b) /\ x = Iri(Expanded(prefixes, text[a].s, SubSeq(text, a + 2, b - 1)))
  BY DEF Spells, a, b
<1>. QED BY <1>4, <1>5, <1>6, <1>7, <1>8, <1>9

\* A term begins its part.
LEMMA TermBegins ==
  ASSUME NEW t, NEW d, NEW part, NEW x, Spells(t, d, part, x)
  PROVE  Starts(t[part.from])
<1>1. \/ t[part.from].u \in {"iri", "number", "string", "word"}
      \/ t[part.from] = S!Sign("?")
  BY DEF Spells, VariableAt, IsKind, LiteralAt, NameAt
<1>. QED BY <1>1 DEF Starts, Solid, Blanks, IsSign, S!Sign, S!Piece

\* After a term the cursor is in the gap before the next part.
LEMMA AfterTerm ==
  ASSUME IsList(text), NEW b, NEW c, IsPosition(b), Followed(b, c), NEW r, NEW x, ReadAs(r, x, b, c)
  PROVE  /\ r.v = x /\ ~S!Failed(r) /\ IsPosition(r.next) /\ Gap(text, r.next, c) /\ S!Skip(r.next) = c
         /\ c \in Nat /\ r.next \in {b, c}
<1>1. c \in DOMAIN text /\ Solid(text[c]) /\ Gap(text, b, c)
  BY DEF Followed, Starts
<1>2. Len(text) \in Nat /\ c \in 1..Len(text) /\ b \in Nat /\ b # 0
  BY <1>1, Kinds DEF IsPosition
<1>3. r.v = x /\ r.next \in {b, c}
  BY DEF ReadAs
<1>4. IsPosition(r.next) /\ Gap(text, r.next, c)
  BY <1>1, <1>2, <1>3, GapHere DEF IsPosition
<1>. QED BY <1>1, <1>2, <1>3, <1>4, SkipTo DEF S!Failed

-----------------------------------------------------------------------------
(* Units. *)

LEMMA PieceBegins ==
  ASSUME NEW part
  PROVE  /\ \A s : IsPiece(text, part, S!AWord(s)) => Starts(text[part.from])
         /\ \A s : IsPiece(text, part, S!Sign(s)) /\ s # "@" /\ s # "^^" /\ s # "#" => Starts(text[part.from])
         /\ \A kind \in {"iri", "number"} : IsKind(text, part, kind) => Starts(text[part.from])
BY DEF IsPiece, IsKind, Starts, IsSign, S!Sign, S!AWord, S!Piece, Solid, Blanks

LEMMA Few == 1..1 = {1} /\ 1..2 = {1, 2} /\ 1..3 = {1, 2, 3} /\ 1..6 = {1, 2, 3, 4, 5, 6}
OBVIOUS

LEMMA PartBegins ==
  ASSUME NEW u, IsList(u.parts), IsUnit(text, u), NEW m \in DOMAIN u.parts
  PROVE  Starts(text[u.parts[m].from])
<1>. DEFINE p == u.parts
            d == u.declared
<1>0. m \in 1..Len(p) /\ Len(p) \in Nat
  BY DEF IsList
<1>1. CASE u.kind = "prefix"
  <2>1. /\ Len(p) = 3 /\ IsPiece(text, p[1], S!AWord("PREFIX")) /\ text[p[2].from].u = "word" /\ IsKind(text, p[3], "iri")
    BY <1>1 DEF IsUnit
  <2>2. Starts(text[p[2].from])
    BY <2>1 DEF Starts, IsSign, Solid, Blanks
  <2>3. Starts(text[p[1].from]) /\ Starts(text[p[3].from])
    BY <2>1, PieceBegins
  <2>4. m \in {1, 2, 3}
    BY <1>0, <2>1, Few
  <2>. QED BY <2>2, <2>3, <2>4
<1>2. CASE u.kind \in {"select", "dot", "close", "end"}
  <2>1. Len(p) = 1 /\ \/ IsPiece(text, p[1], S!AWord("SELECT"))
                      \/ IsPiece(text, p[1], S!Sign("."))
                      \/ IsPiece(text, p[1], S!Sign("}"))
    BY <1>2 DEF IsUnit
  <2>2. Starts(text[p[1].from])
    BY <2>1, PieceBegins
  <2>3. m \in {1}
    BY <1>0, <2>1, Few
  <2>. QED BY <2>2, <2>3
<1>3. CASE u.kind = "var"
  <2>1. Len(p) = 1 /\ text[p[1].from] = S!Sign("?")
    BY <1>3 DEF IsUnit, VariableAt
  <2>2. Starts(text[p[1].from])
    BY <2>1 DEF Starts, IsSign, S!Sign, S!Piece, Solid, Blanks
  <2>3. m \in {1}
    BY <1>0, <2>1, Few
  <2>. QED BY <2>2, <2>3
<1>4. CASE u.kind = "where"
  <2>1. \/ Len(p) = 2 /\ IsPiece(text, p[1], S!AWord("WHERE")) /\ IsPiece(text, p[2], S!Sign("{"))
        \/ /\ Len(p) = 3 /\ IsPiece(text, p[1], S!Sign("*"))
           /\ IsPiece(text, p[2], S!AWord("WHERE")) /\ IsPiece(text, p[3], S!Sign("{"))
    BY <1>4 DEF IsUnit
  <2>2. \A l \in 1..Len(p) : Starts(text[p[l].from])
    <3>1. CASE Len(p) = 2 /\ IsPiece(text, p[1], S!AWord("WHERE")) /\ IsPiece(text, p[2], S!Sign("{"))
      <4>1. Starts(text[p[1].from]) /\ Starts(text[p[2].from])
        BY <3>1, PieceBegins
      <4>2. 1..Len(p) = {1, 2}
        BY <3>1, Few
      <4>. QED BY <4>1, <4>2
    <3>2. CASE /\ Len(p) = 3 /\ IsPiece(text, p[1], S!Sign("*"))
               /\ IsPiece(text, p[2], S!AWord("WHERE")) /\ IsPiece(text, p[3], S!Sign("{"))
      <4>1. Starts(text[p[1].from]) /\ Starts(text[p[2].from]) /\ Starts(text[p[3].from])
        BY <3>2, PieceBegins
      <4>2. 1..Len(p) = {1, 2, 3}
        BY <3>2, Few
      <4>. QED BY <4>1, <4>2
    <3>. QED BY <2>1, <3>1, <3>2
  <2>. QED BY <1>0, <2>2
<1>5. CASE u.kind = "triple"
  <2>1. /\ Len(p) = 3 /\ Spells(text, d, p[1], u.says.subject) /\ Spells(text, d, p[2], u.says.predicate)
        /\ Spells(text, d, p[3], u.says.object)
    BY <1>5 DEF IsUnit
  <2>2. Starts(text[p[1].from]) /\ Starts(text[p[2].from]) /\ Starts(text[p[3].from])
    BY <2>1, TermBegins
  <2>3. m \in {1, 2, 3}
    BY <1>0, <2>1, Few
  <2>. QED BY <2>2, <2>3
<1>6. CASE u.kind = "filter"
  <2>1. /\ Len(p) = 6 /\ IsPiece(text, p[1], S!AWord("FILTER")) /\ IsPiece(text, p[2], S!Sign("("))
        /\ IsPiece(text, p[6], S!Sign(")")) /\ u.says.op \in {"=", "!=", "<", "<=", ">", ">="}
        /\ Spells(text, d, p[3], u.says.lhs) /\ IsPiece(text, p[4], S!Sign(u.says.op)) /\ Spells(text, d, p[5], u.says.rhs)
    BY <1>6 DEF IsUnit
  <2>2. Starts(text[p[3].from]) /\ Starts(text[p[5].from])
    BY <2>1, TermBegins
  <2>3. Starts(text[p[1].from]) /\ Starts(text[p[2].from]) /\ Starts(text[p[6].from])
    BY <2>1, PieceBegins
  <2>4. Starts(text[p[4].from])
    <3>1. u.says.op # "@" /\ u.says.op # "^^" /\ u.says.op # "#"
      BY <2>1
    <3>. QED BY <2>1, <3>1, PieceBegins
  <2>5. m \in {1, 2, 3, 4, 5, 6}
    BY <1>0, <2>1, Few
  <2>. QED BY <2>2, <2>3, <2>4, <2>5
<1>7. CASE u.kind = "graph"
  <2>1. /\ Len(p) = 3 /\ IsPiece(text, p[1], S!AWord("GRAPH")) /\ Spells(text, d, p[2], u.says)
        /\ IsPiece(text, p[3], S!Sign("{"))
    BY <1>7 DEF IsUnit
  <2>2. Starts(text[p[2].from])
    BY <2>1, TermBegins
  <2>3. Starts(text[p[1].from]) /\ Starts(text[p[3].from])
    BY <2>1, PieceBegins
  <2>4. m \in {1, 2, 3}
    BY <1>0, <2>1, Few
  <2>. QED BY <2>2, <2>3, <2>4
<1>8. CASE u.kind \in {"limit", "offset"}
  <2>1. /\ Len(p) = 2 /\ IsPiece(text, p[1], S!AWord(IF u.kind = "limit" THEN "LIMIT" ELSE "OFFSET"))
        /\ IsKind(text, p[2], "number")
    BY <1>8 DEF IsUnit
  <2>2. Starts(text[p[1].from]) /\ Starts(text[p[2].from])
    BY <2>1, PieceBegins
  <2>3. m \in {1, 2}
    BY <1>0, <2>1, Few
  <2>. QED BY <2>2, <2>3
<1>9. u.kind \in {"prefix", "select", "var", "where", "triple", "filter", "dot", "graph", "close", "end", "limit", "offset"}
  BY DEF IsUnit
<1>. QED BY <1>1, <1>2, <1>3, <1>4, <1>5, <1>6, <1>7, <1>8, <1>9

\* Where what is read after n units begins.
NextAt(us, n) == IF n = Len(us) THEN Len(text) + 1 ELSE us[n + 1].parts[1].from

\* The translator has read n units.
HasRead(us, n) ==
  /\ n \in 0..Len(us) /\ status = "running"
  /\ reading = IF n = 0 THEN "prologue" ELSE Leads(us[n].kind)
  /\ Declares(us, n, prefixes) /\ graphs = Around(us, n) /\ Mean(us, n, query)
  /\ IsPosition(at) /\ at \in {EndsAt(us, n), NextAt(us, n)}
  /\ reading = "tail" => at = EndsAt(us, n)

\* Where the parts of a unit stand.
LEMMA PartsStand ==
  ASSUME NEW us, IsCut(text, us), NEW n \in DOMAIN us
  PROVE  /\ IsList(text) /\ IsList(us) /\ Len(us) \in Nat /\ DOMAIN us = 1..Len(us) /\ n \in Nat \ {0} /\ n <= Len(us)
         /\ Len(us[n].parts) \in Nat \ {0} /\ DOMAIN us[n].parts = 1..Len(us[n].parts) /\ IsList(us[n].parts)
         /\ IsUnit(text, us[n])
         /\ \A m \in 1..Len(us[n].parts) :
              /\ us[n].parts[m].from \in DOMAIN text /\ IsPosition(us[n].parts[m].from) /\ IsPosition(us[n].parts[m].to)
              /\ us[n].parts[m].from < us[n].parts[m].to
              /\ Starts(text[us[n].parts[m].from])
              /\ m > 1 => IF text[us[n].parts[m - 1].from] = S!Sign("*") THEN Blank(text, us[n].parts[m - 1].to, us[n].parts[m].from)
                          ELSE Gap(text, us[n].parts[m - 1].to, us[n].parts[m].from)
         /\ EndsAt(us, n) = us[n].parts[Len(us[n].parts)].to
<1>1. /\ IsList(text) /\ IsList(us) /\ ArePartsOf(text, us[n].parts) /\ IsUnit(text, us[n])
  BY DEF IsCut
<1>2. Len(us) \in Nat /\ DOMAIN us = 1..Len(us) /\ n \in Nat \ {0} /\ n <= Len(us)
  BY <1>1 DEF IsList
<1>. DEFINE p == us[n].parts
<1>3. IsList(p) /\ p # <<>>
  BY <1>1 DEF ArePartsOf
<1>4. Len(p) \in Nat \ {0} /\ DOMAIN p = 1..Len(p)
  BY <1>3 DEF IsList
<1>5. ASSUME NEW m \in 1..Len(p)
      PROVE  /\ p[m].from \in DOMAIN text /\ IsPosition(p[m].from) /\ IsPosition(p[m].to) /\ p[m].from < p[m].to
             /\ Starts(text[p[m].from])
             /\ m > 1 => IF text[p[m - 1].from] = S!Sign("*") THEN Blank(text, p[m - 1].to, p[m].from)
                         ELSE Gap(text, p[m - 1].to, p[m].from)
  <2>1. p[m].from \in DOMAIN text /\ p[m].to \in 1..Len(text) + 1 /\ p[m].from < p[m].to
    BY <1>1, <1>4, <1>5 DEF ArePartsOf
  <2>2. IsPosition(p[m].from) /\ IsPosition(p[m].to)
    BY <1>1, <2>1, Kinds DEF IsPosition
  <2>3. Starts(text[p[m].from])
    BY <1>1, <1>3, <1>4, <1>5, PartBegins
  <2>4. m > 1 => IF text[p[m - 1].from] = S!Sign("*") THEN Blank(text, p[m - 1].to, p[m].from)
                 ELSE Gap(text, p[m - 1].to, p[m].from)
    BY <1>1, <1>4, <1>5 DEF ArePartsOf
  <2>. QED BY <2>1, <2>2, <2>3, <2>4
<1>6. EndsAt(us, n) = p[Len(p)].to
  BY <1>2 DEF EndsAt
<1>. QED BY <1>1, <1>2, <1>3, <1>4, <1>5, <1>6

\* What follows a part of a unit.
LEMMA PartFollows ==
  ASSUME NEW us, IsCut(text, us), NEW n \in DOMAIN us, NEW m \in 2..Len(us[n].parts)
  PROVE  Followed(us[n].parts[m - 1].to, us[n].parts[m].from)
<1>. DEFINE p == us[n].parts
<1>1. m \in 1..Len(p) /\ m > 1 /\ Len(p) \in Nat
  <2>1. Len(p) \in Nat
    BY PartsStand
  <2>. QED BY <2>1
<1>2. p[m].from \in DOMAIN text /\ Starts(text[p[m].from])
  BY <1>1, PartsStand
<1>3. Blank(text, p[m - 1].to, p[m].from) \/ Gap(text, p[m - 1].to, p[m].from)
  BY <1>1, PartsStand
<1>4. Gap(text, p[m - 1].to, p[m].from)
  BY <1>3, BlankGap
<1>. QED BY <1>2, <1>4 DEF Followed

\* What follows a unit that is not the last one.
LEMMA UnitFollows ==
  ASSUME NEW us, IsCut(text, us), NEW n \in DOMAIN us, Leads(us[n].kind) # "tail"
  PROVE  Followed(EndsAt(us, n), NextAt(us, n)) /\ n + 1 \in DOMAIN us
<1>1. n # Len(us)
  BY DEF IsCut
<1>2. Len(us) \in Nat /\ DOMAIN us = 1..Len(us) /\ n \in Nat \ {0} /\ n <= Len(us)
  BY PartsStand
<1>3. n + 1 \in DOMAIN us /\ (n + 1) - 1 = n
  BY <1>1, <1>2
<1>. DEFINE c == us[n + 1].parts[1].from
<1>4. Blank(text, EndsAt(us, (n + 1) - 1), c) \/ Gap(text, EndsAt(us, (n + 1) - 1), c)
  BY <1>3 DEF IsCut
<1>5. Gap(text, EndsAt(us, n), c)
  BY <1>3, <1>4, BlankGap
<1>6. c \in DOMAIN text /\ Starts(text[c])
  <2>1. 1 \in 1..Len(us[n + 1].parts)
    BY <1>3, PartsStand
  <2>. QED BY <1>3, <2>1, PartsStand
<1>. QED BY <1>1, <1>3, <1>5, <1>6 DEF Followed, NextAt

\* Of two functions that declare the prefixes of the same units.
LEMMA DeclaresOne ==
  ASSUME NEW us, NEW n \in Nat, NEW d, NEW e, Declares(us, n, d), Declares(us, n, e)
  PROVE  d = e
<1>1. DOMAIN d = DOMAIN e
  BY DEF Declares
<1>2. ASSUME NEW q \in DOMAIN d PROVE d[q] = e[q]
  <2>. DEFINE Of == {m \in 1..n : us[m].kind = "prefix" /\ us[m].says.name = q}
  <2>1. PICK m \in Of : d[q] = us[m].says.iri /\ \A l \in Of : l <= m
    BY DEF Declares
  <2>2. PICK y \in Of : e[q] = us[y].says.iri /\ \A l \in Of : l <= y
    BY <1>1 DEF Declares
  <2>3. m \in Nat /\ y \in Nat /\ m <= y /\ y <= m
    BY <2>1, <2>2
  <2>. QED BY <2>1, <2>2, <2>3
<1>3. d = [q \in DOMAIN d |-> d[q]] /\ e = [q \in DOMAIN e |-> e[q]]
  BY DEF Declares
<1>. QED BY <1>1, <1>2, <1>3

\* The translator before a unit.
LEMMA UnitStands ==
  ASSUME NEW us, IsCut(text, us), NEW n \in DOMAIN us, HasRead(us, n - 1)
  PROVE  /\ status = "running" /\ reading = Place(us[n].kind) /\ prefixes = us[n].declared /\ graphs = us[n].graphs
         /\ Mean(us, n - 1, query) /\ Declares(us, n - 1, prefixes) /\ IsPosition(at)
         /\ us[n].parts[1].from \in DOMAIN text /\ Gap(text, at, us[n].parts[1].from)
         /\ S!Skip(at) = us[n].parts[1].from
         /\ us[n].kind \in Bare => Blank(text, at, us[n].parts[1].from)
<1>. DEFINE c == us[n].parts[1].from
            b == EndsAt(us, n - 1)
<1>1. n \in Nat \ {0} /\ n - 1 \in Nat /\ Len(us) \in Nat /\ n - 1 # Len(us) /\ (n - 1) + 1 = n
  <2>1. n \in Nat \ {0} /\ Len(us) \in Nat /\ n <= Len(us)
    BY PartsStand
  <2>. QED BY <2>1
<1>2. /\ status = "running" /\ reading = (IF n - 1 = 0 THEN "prologue" ELSE Leads(us[n - 1].kind))
      /\ Declares(us, n - 1, prefixes) /\ graphs = Around(us, n - 1) /\ Mean(us, n - 1, query)
      /\ IsPosition(at) /\ at \in {b, c}
  BY <1>1 DEF HasRead, NextAt
<1>3. /\ IF us[n].kind \in Bare THEN Blank(text, b, c) ELSE Gap(text, b, c)
      /\ Place(us[n].kind) = (IF n = 1 THEN "prologue" ELSE Leads(us[n - 1].kind))
      /\ us[n].graphs = Around(us, n - 1) /\ Declares(us, n - 1, us[n].declared)
  BY DEF IsCut
<1>4. c \in DOMAIN text /\ IsPosition(c) /\ Starts(text[c])
  <2>1. 1 \in 1..Len(us[n].parts)
    BY PartsStand
  <2>. QED BY <2>1, PartsStand
<1>5. prefixes = us[n].declared
  BY <1>1, <1>2, <1>3, DeclaresOne
<1>. HIDE DEF b, c
<1>7. Blank(text, c, c) /\ Gap(text, c, c)
  BY <1>4, GapHere DEF IsPosition
<1>8. us[n].kind \in Bare => Blank(text, at, c)
  BY <1>2, <1>3, <1>7
<1>9. Gap(text, at, c)
  BY <1>2, <1>3, <1>7, <1>8, BlankGap
<1>10. S!Skip(at) = c
  <2>1. IsList(text) /\ Solid(text[c])
    BY <1>4, PartsStand DEF Starts
  <2>. QED BY <1>2, <1>4, <1>9, <2>1, SkipTo
<1>11. reading = Place(us[n].kind)
  BY <1>1, <1>2, <1>3
<1>. QED BY <1>2, <1>3, <1>4, <1>5, <1>8, <1>9, <1>10, <1>11 DEF c

-----------------------------------------------------------------------------
(* What units say. *)

LEMMA OneMoreMeans ==
  ASSUME NEW us, IsList(us), NEW n \in DOMAIN us, NEW q, Mean(us, n - 1, q),
         NEW q2, q2 = [f \in DOMAIN DefaultQuery |-> q2[f]],
         q2.patterns = (IF us[n].kind = "triple" THEN Append(q.patterns, us[n].says) ELSE q.patterns),
         q2.filters = (IF us[n].kind = "filter" THEN Append(q.filters, us[n].says) ELSE q.filters),
         q2.project = (IF us[n].kind = "var" THEN Append(q.project, us[n].says) ELSE q.project),
         \A f \in {"limit", "offset"} : q2[f] = IF us[n].kind = f THEN us[n].says ELSE q[f],
         \A f \in DOMAIN DefaultQuery \ {"patterns", "filters", "project", "limit", "offset"} : q2[f] = q[f]
  PROVE  Mean(us, n, q2)
<1>1. n \in Nat \ {0} /\ n - 1 \in Nat /\ 1..n = 1..n - 1 \cup {n}
  <2>1. n \in Nat \ {0}
    BY DEF IsList
  <2>. QED BY <2>1
<1>2. /\ q2.patterns = Listed(us, "triple", n) /\ q2.filters = Listed(us, "filter", n)
      /\ q2.project = Listed(us, "var", n)
  <2>1. /\ q.patterns = Listed(us, "triple", n - 1) /\ q.filters = Listed(us, "filter", n - 1)
        /\ q.project = Listed(us, "var", n - 1)
    BY DEF Mean
  <2>2. ASSUME NEW kind
        PROVE  Listed(us, kind, n) = IF us[n].kind = kind THEN Append(Listed(us, kind, n - 1), us[n].says)
                                     ELSE Listed(us, kind, n - 1)
    BY OneMoreListed
  <2>. QED BY <2>1, <2>2
<1>3. ASSUME NEW f \in {"limit", "offset"}
      PROVE  \/ q2[f] = DefaultQuery[f] /\ \A m \in 1..n : us[m].kind # f
             \/ \E m \in 1..n : /\ us[m].kind = f /\ q2[f] = us[m].says
                                /\ \A l \in m + 1..n : us[l].kind # f
  <2>1. CASE us[n].kind = f
    <3>1. n \in 1..n /\ \A l \in n + 1..n : us[l].kind # f
      BY <1>1
    <3>2. q2[f] = us[n].says
      BY <2>1
    <3>. QED BY <2>1, <3>1, <3>2
  <2>2. CASE us[n].kind # f
    <3>0. q2[f] = q[f]
      BY <2>2
    <3>1. CASE q[f] = DefaultQuery[f] /\ \A m \in 1..n - 1 : us[m].kind # f
      BY <1>1, <2>2, <3>0, <3>1
    <3>2. ASSUME NEW m \in 1..n - 1, us[m].kind = f, q[f] = us[m].says, \A l \in m + 1..n - 1 : us[l].kind # f
          PROVE  m \in 1..n /\ us[m].kind = f /\ q2[f] = us[m].says /\ \A l \in m + 1..n : us[l].kind # f
      <4>1. \A l \in m + 1..n : l \in m + 1..n - 1 \/ l = n
        BY <1>1
      <4>. QED BY <1>1, <2>2, <3>0, <3>2, <4>1
    <3>3. \/ q[f] = DefaultQuery[f] /\ \A m \in 1..n - 1 : us[m].kind # f
          \/ \E m \in 1..n - 1 : /\ us[m].kind = f /\ q[f] = us[m].says
                                 /\ \A l \in m + 1..n - 1 : us[l].kind # f
      BY DEF Mean
    <3>. QED BY <3>1, <3>2, <3>3
  <2>. QED BY <2>1, <2>2
<1>4. \A f \in DOMAIN DefaultQuery \ {"patterns", "filters", "project", "limit", "offset"} : q2[f] = DefaultQuery[f]
  BY DEF Mean
<1>. QED BY <1>2, <1>3, <1>4 DEF Mean

LEMMA MeansMore ==
  ASSUME NEW us, IsList(us), NEW n \in DOMAIN us, NEW q, Mean(us, n - 1, q)
  PROVE  /\ us[n].kind = "triple" => Mean(us, n, [q EXCEPT !.patterns = Append(@, us[n].says)])
         /\ us[n].kind = "filter" => Mean(us, n, [q EXCEPT !.filters = Append(@, us[n].says)])
         /\ us[n].kind = "var" => Mean(us, n, [q EXCEPT !.project = Append(@, us[n].says)])
         /\ \A f \in {"limit", "offset"} : us[n].kind = f => Mean(us, n, [q EXCEPT ![f] = us[n].says])
         /\ us[n].kind \notin {"triple", "filter", "var", "limit", "offset"} => Mean(us, n, q)
<1>. DEFINE fields == DOMAIN DefaultQuery
            x == us[n].says
<1>1. q = [f \in fields |-> q[f]]
  BY DEF Mean
<1>2. {"patterns", "filters", "project", "limit", "offset"} \subseteq fields
  BY DEF DefaultQuery
<1>. HIDE DEF fields
<1>3. ASSUME us[n].kind = "triple"
      PROVE  Mean(us, n, [q EXCEPT !.patterns = Append(@, x)])
  <2>. DEFINE q2 == [q EXCEPT !.patterns = Append(@, x)]
  <2>1. /\ q2 = [f \in fields |-> q2[f]] /\ q2.patterns = Append(q.patterns, x)
        /\ \A f \in fields \ {"patterns"} : q2[f] = q[f]
    BY <1>1, <1>2
  <2>2. q2.filters = q.filters /\ q2.project = q.project
    BY <1>2, <2>1
  <2>3. \A f \in {"limit", "offset"} : q2[f] = IF us[n].kind = f THEN x ELSE q[f]
    BY <1>2, <1>3, <2>1
  <2>4. \A f \in fields \ {"patterns", "filters", "project", "limit", "offset"} : q2[f] = q[f]
    BY <2>1
  <2>5. us[n].kind = "triple"
    BY <1>3
  <2>. HIDE DEF q2
  <2>6. Mean(us, n, q2)
    BY <2>1, <2>2, <2>3, <2>4, <2>5, OneMoreMeans DEF fields
  <2>. QED BY <2>6 DEF q2
<1>4. ASSUME us[n].kind = "filter"
      PROVE  Mean(us, n, [q EXCEPT !.filters = Append(@, x)])
  <2>. DEFINE q2 == [q EXCEPT !.filters = Append(@, x)]
  <2>1. /\ q2 = [f \in fields |-> q2[f]] /\ q2.filters = Append(q.filters, x)
        /\ \A f \in fields \ {"filters"} : q2[f] = q[f]
    BY <1>1, <1>2
  <2>2. q2.patterns = q.patterns /\ q2.project = q.project
    BY <1>2, <2>1
  <2>3. \A f \in {"limit", "offset"} : q2[f] = IF us[n].kind = f THEN x ELSE q[f]
    BY <1>2, <1>4, <2>1
  <2>4. \A f \in fields \ {"patterns", "filters", "project", "limit", "offset"} : q2[f] = q[f]
    BY <2>1
  <2>5. us[n].kind = "filter"
    BY <1>4
  <2>. HIDE DEF q2
  <2>6. Mean(us, n, q2)
    BY <2>1, <2>2, <2>3, <2>4, <2>5, OneMoreMeans DEF fields
  <2>. QED BY <2>6 DEF q2
<1>5. ASSUME us[n].kind = "var"
      PROVE  Mean(us, n, [q EXCEPT !.project = Append(@, x)])
  <2>. DEFINE q2 == [q EXCEPT !.project = Append(@, x)]
  <2>1. /\ q2 = [f \in fields |-> q2[f]] /\ q2.project = Append(q.project, x)
        /\ \A f \in fields \ {"project"} : q2[f] = q[f]
    BY <1>1, <1>2
  <2>2. q2.patterns = q.patterns /\ q2.filters = q.filters
    BY <1>2, <2>1
  <2>3. \A f \in {"limit", "offset"} : q2[f] = IF us[n].kind = f THEN x ELSE q[f]
    BY <1>2, <1>5, <2>1
  <2>4. \A f \in fields \ {"patterns", "filters", "project", "limit", "offset"} : q2[f] = q[f]
    BY <2>1
  <2>5. us[n].kind = "var"
    BY <1>5
  <2>. HIDE DEF q2
  <2>6. Mean(us, n, q2)
    BY <2>1, <2>2, <2>3, <2>4, <2>5, OneMoreMeans DEF fields
  <2>. QED BY <2>6 DEF q2
<1>6. ASSUME NEW f \in {"limit", "offset"}, us[n].kind = f
      PROVE  Mean(us, n, [q EXCEPT ![f] = x])
  <2>. DEFINE q2 == [q EXCEPT ![f] = x]
  <2>1. /\ q2 = [g \in fields |-> q2[g]] /\ q2[f] = x
        /\ \A g \in fields \ {f} : q2[g] = q[g]
    BY <1>1, <1>2
  <2>2. q2.patterns = q.patterns /\ q2.filters = q.filters /\ q2.project = q.project
    BY <1>2, <2>1
  <2>3. \A g \in {"limit", "offset"} : q2[g] = IF us[n].kind = g THEN x ELSE q[g]
    BY <1>2, <1>6, <2>1
  <2>4. \A g \in fields \ {"patterns", "filters", "project", "limit", "offset"} : q2[g] = q[g]
    BY <2>1
  <2>5. us[n].kind \notin {"triple", "filter", "var"}
    BY <1>6
  <2>. HIDE DEF q2
  <2>6. Mean(us, n, q2)
    BY <2>1, <2>2, <2>3, <2>4, <2>5, OneMoreMeans DEF fields
  <2>. QED BY <2>6 DEF q2
<1>7. ASSUME us[n].kind \notin {"triple", "filter", "var", "limit", "offset"}
      PROVE  Mean(us, n, q)
  <2>1. \A f \in {"limit", "offset"} : us[n].kind # f
    BY <1>7
  <2>. QED BY <1>1, <1>7, <2>1, OneMoreMeans DEF fields
<1>. QED BY <1>3, <1>4, <1>5, <1>6, <1>7

\* Units say one thing.
LEMMA MeanOne ==
  ASSUME NEW us, NEW n \in Nat, NEW q1, NEW q2, Mean(us, n, q1), Mean(us, n, q2)
  PROVE  q1 = q2
<1>1. ASSUME NEW f \in {"limit", "offset"} PROVE q1[f] = q2[f]
  <2>1. ASSUME NEW m \in 1..n, us[m].kind = f, \A l \in m + 1..n : us[l].kind # f,
               NEW y \in 1..n, us[y].kind = f, \A l \in y + 1..n : us[l].kind # f
        PROVE  m = y
    BY <2>1
  <2>. QED BY <2>1 DEF Mean
<1>2. q1.patterns = q2.patterns /\ q1.filters = q2.filters /\ q1.project = q2.project
  BY DEF Mean
<1>3. \A f \in DOMAIN DefaultQuery \ {"patterns", "filters", "project", "limit", "offset"} : q1[f] = q2[f]
  BY DEF Mean
<1>4. \A f \in DOMAIN DefaultQuery : q1[f] = q2[f]
  BY <1>1, <1>2, <1>3
<1>5. q1 = [f \in DOMAIN DefaultQuery |-> q1[f]] /\ q2 = [f \in DOMAIN DefaultQuery |-> q2[f]]
  BY DEF Mean
<1>. QED BY <1>4, <1>5

LEMMA NothingMeans ==
  ASSUME NEW us
  PROVE  Mean(us, 0, DefaultQuery) /\ Declares(us, 0, <<>>)
<1>1. ASSUME NEW kind PROVE Listed(us, kind, 0) = <<>>
  <2>1. Count(us, kind, 0) = 0
    BY Counted
  <2>2. Listed(us, kind, 0) = [m \in 1..0 |-> us[Nth(us, kind, m)].says]
    BY <2>1 DEF Listed
  <2>. QED BY <2>2
<1>2. DefaultQuery.patterns = <<>> /\ DefaultQuery.filters = <<>> /\ DefaultQuery.project = <<>>
  BY DEF DefaultQuery
<1>3. DefaultQuery = [f \in DOMAIN DefaultQuery |-> DefaultQuery[f]]
  BY DEF DefaultQuery
<1>4. \A f : \A m \in 1..0 : us[m].kind # f
  OBVIOUS
<1>5. Mean(us, 0, DefaultQuery)
  BY <1>1, <1>2, <1>3, <1>4 DEF Mean
<1>6. Declares(us, 0, <<>>)
  BY DEF Declares
<1>. QED BY <1>5, <1>6

-----------------------------------------------------------------------------
(* A unit is read by one step. *)

LEMMA DeclaresMore ==
  ASSUME NEW us, NEW n \in Nat \ {0}, NEW d, Declares(us, n - 1, d)
  PROVE  /\ us[n].kind # "prefix" => Declares(us, n, d)
         /\ us[n].kind = "prefix" =>
              Declares(us, n, [q \in DOMAIN d \cup {us[n].says.name} |->
                                 IF q = us[n].says.name THEN us[n].says.iri ELSE d[q]])
<1>. DEFINE Of(m, q) == {l \in 1..m : us[l].kind = "prefix" /\ us[l].says.name = q}
<1>0. 1..n = 1..n - 1 \cup {n} /\ n \notin 1..n - 1
  OBVIOUS
<1>1. /\ d = [q \in DOMAIN d |-> d[q]]
      /\ \A m \in 1..n - 1 : us[m].kind = "prefix" => us[m].says.name \in DOMAIN d
      /\ \A q \in DOMAIN d : \E m \in Of(n - 1, q) : d[q] = us[m].says.iri /\ \A l \in Of(n - 1, q) : l <= m
  BY DEF Declares
<1>2. CASE us[n].kind # "prefix"
  <2>1. \A q : Of(n, q) = Of(n - 1, q)
    BY <1>0, <1>2
  <2>2. \A m \in 1..n : us[m].kind = "prefix" => us[m].says.name \in DOMAIN d
    BY <1>0, <1>1, <1>2
  <2>3. \A q \in DOMAIN d : \E m \in Of(n, q) : d[q] = us[m].says.iri /\ \A l \in Of(n, q) : l <= m
    BY <1>1, <2>1
  <2>. QED BY <1>1, <1>2, <2>2, <2>3 DEF Declares
<1>3. CASE us[n].kind = "prefix"
  <2>. DEFINE name == us[n].says.name
              e == [q \in DOMAIN d \cup {name} |-> IF q = name THEN us[n].says.iri ELSE d[q]]
  <2>1. DOMAIN e = DOMAIN d \cup {name} /\ e = [q \in DOMAIN e |-> e[q]]
    OBVIOUS
  <2>2. e[name] = us[n].says.iri /\ \A q \in DOMAIN d : q # name => e[q] = d[q]
    OBVIOUS
  <2>. HIDE DEF e
  <2>3. \A m \in 1..n : us[m].kind = "prefix" => us[m].says.name \in DOMAIN e
    BY <1>0, <1>1, <2>1
  <2>4. ASSUME NEW q \in DOMAIN e
        PROVE  \E m \in Of(n, q) : e[q] = us[m].says.iri /\ \A l \in Of(n, q) : l <= m
    <3>1. CASE q = name
      <4>1. n \in Of(n, q) /\ \A l \in Of(n, q) : l <= n
        BY <1>3, <3>1
      <4>. QED BY <2>2, <3>1, <4>1
    <3>2. CASE q # name
      <4>1. Of(n, q) = Of(n - 1, q)
        BY <1>0, <3>2
      <4>2. q \in DOMAIN d
        BY <2>1, <3>2
      <4>. QED BY <1>1, <2>2, <3>2, <4>1, <4>2
    <3>. QED BY <3>1, <3>2
  <2>5. Declares(us, n, e)
    BY <2>1, <2>3, <2>4 DEF Declares
  <2>. QED BY <1>3, <2>5 DEF e
<1>. QED BY <1>2, <1>3

LEMMA UnitEnds ==
  ASSUME NEW us, IsCut(text, us), NEW n \in DOMAIN us
  PROVE  IsPosition(EndsAt(us, n)) /\ IsPosition(NextAt(us, n))
<1>1. Len(text) \in Nat
  BY PartsStand, Kinds
<1>2. IsPosition(EndsAt(us, n))
  <2>1. Len(us[n].parts) \in 1..Len(us[n].parts) /\ EndsAt(us, n) = us[n].parts[Len(us[n].parts)].to
    BY PartsStand
  <2>. QED BY <2>1, PartsStand
<1>3. CASE n = Len(us)
  BY <1>1, <1>2, <1>3 DEF NextAt, IsPosition
<1>4. CASE n # Len(us)
  <2>1. n + 1 \in DOMAIN us
    BY <1>4, PartsStand
  <2>2. 1 \in 1..Len(us[n + 1].parts)
    BY <2>1, PartsStand
  <2>3. IsPosition(us[n + 1].parts[1].from)
    BY <2>1, <2>2, PartsStand
  <2>. QED BY <1>2, <1>4, <2>3 DEF NextAt
<1>. QED BY <1>3, <1>4

LEMMA NowRead ==
  ASSUME NEW us, IsCut(text, us), NEW n \in DOMAIN us, text' = text, status' = "running",
         reading' = Leads(us[n].kind), Declares(us, n, prefixes'), graphs' = Around(us, n), Mean(us, n, query'),
         \/ at' = EndsAt(us, n)
         \/ at' \in {EndsAt(us, n), NextAt(us, n)} /\ Leads(us[n].kind) # "tail"
  PROVE  HasRead(us, n)'
<1>1. n \in 0..Len(us) /\ n # 0
  BY PartsStand
<1>2. at' \in Nat \ {0} /\ at' <= Len(text) + 1 /\ at' \in {EndsAt(us, n), NextAt(us, n)}
  BY UnitEnds DEF IsPosition
<1>3. (reading = "tail" => at = EndsAt(us, n))'
  OBVIOUS
<1>4. (reading = IF n = 0 THEN "prologue" ELSE Leads(us[n].kind))'
  BY <1>1
<1>5. IsPosition(at)' /\ (at \in {EndsAt(us, n), NextAt(us, n)})'
  BY <1>2 DEF IsPosition, NextAt
<1>. QED BY <1>1, <1>3, <1>4, <1>5 DEF HasRead

\* The tokens of a part that is one piece.
LEMMA PieceIs ==
  ASSUME IsList(text), NEW part, part.from \in DOMAIN text
  PROVE  /\ \A s : IsPiece(text, part, S!AWord(s)) =>
                     /\ part.to = part.from + 1 /\ S!Kind(part.from) = "word"
                     /\ text[part.from].u = "word" /\ text[part.from].s = s
         /\ \A s : IsPiece(text, part, S!Sign(s)) =>
                     /\ part.to = part.from + 1 /\ S!Kind(part.from) = "sign" /\ S!Is(part.from, s)
                     /\ text[part.from].u = "sign" /\ text[part.from].s = s
                     /\ \A z : S!Is(part.from, z) => z = s
         /\ \A kind : IsKind(text, part, kind) =>
                     part.to = part.from + 1 /\ S!Kind(part.from) = kind /\ text[part.from].u = kind
<1>1. /\ \A s : S!AWord(s).u = "word" /\ S!AWord(s).s = s
      /\ \A s : S!Sign(s).u = "sign" /\ S!Sign(s).s = s
  BY DEF S!AWord, S!Sign, S!Piece
<1>2. S!Kind(part.from) = text[part.from].u
  BY Pieces
<1>3. \A s : text[part.from] = S!Sign(s) => S!Is(part.from, s) /\ \A z : S!Is(part.from, z) => z = s
  BY Pieces
<1>. QED BY <1>1, <1>2, <1>3 DEF IsPiece, IsKind

LEMMA PrefixIsRead ==
  ASSUME NEW us, IsCut(text, us), NEW n \in DOMAIN us, HasRead(us, n - 1), us[n].kind = "prefix", S!NextSparql
  PROVE  HasRead(us, n)'
<1>. DEFINE u == us[n]
            p == us[n].parts
            a == p[1].from
            w == p[2].from
            i == p[3].from
<1>1. /\ IsList(text) /\ Len(p) = 3 /\ IsPiece(text, p[1], S!AWord("PREFIX"))
      /\ p[2].to = w + 2 /\ text[w].u = "word" /\ text[w + 1] = S!Sign(":")
      /\ IsKind(text, p[3], "iri") /\ u.says = [name |-> text[w].s, iri |-> text[i].s]
      /\ EndsAt(us, n) = p[3].to
  BY PartsStand DEF IsUnit
<1>2. /\ a \in DOMAIN text /\ w \in DOMAIN text /\ i \in DOMAIN text /\ IsPosition(p[1].to) /\ IsPosition(p[2].to)
      /\ w \in Nat /\ w + 1 \in DOMAIN text /\ (w + 1) + 1 = w + 2
  <2>1. 1 \in 1..Len(p) /\ 2 \in 1..Len(p) /\ 3 \in 1..Len(p)
    BY <1>1
  <2>2. /\ a \in DOMAIN text /\ w \in DOMAIN text /\ i \in DOMAIN text /\ IsPosition(p[1].to) /\ IsPosition(p[2].to)
    BY <2>1, PartsStand
  <2>3. Len(text) \in Nat /\ DOMAIN text = 1..Len(text)
    BY <1>1, Kinds
  <2>4. w \in Nat /\ w >= 1 /\ w + 2 <= Len(text) + 1
    BY <1>1, <2>2, <2>3 DEF IsPosition
  <2>5. w + 1 \in DOMAIN text /\ (w + 1) + 1 = w + 2
    BY <2>3, <2>4
  <2>. QED BY <2>2, <2>4, <2>5
<1>3. Followed(p[1].to, w) /\ Followed(p[2].to, i)
  <2>1. 2 \in 2..Len(p) /\ 3 \in 2..Len(p) /\ 2 - 1 = 1 /\ 3 - 1 = 2
    BY <1>1
  <2>. QED BY <2>1, PartFollows
<1>4. /\ status = "running" /\ reading = "prologue" /\ Declares(us, n - 1, prefixes) /\ Mean(us, n - 1, query)
      /\ graphs = u.graphs /\ IsPosition(at) /\ Blank(text, at, a)
  BY UnitStands DEF Bare, Place
<1>. HIDE DEF u, p, a, w, i
<1>5. text[a].u = "word" /\ text[a].s = "PREFIX" /\ p[1].to = a + 1
  BY <1>1, <1>2, PieceIs DEF a
<1>6. S!PeekWord(at) = "PREFIX" /\ S!AfterWord(at) = a + 1
  BY <1>1, <1>2, <1>4, <1>5, PeekTo DEF Blanks
<1>7. S!Skip(a + 1) = w /\ S!Skip(w + 2) = i
  BY <1>1, <1>2, <1>3, <1>5, SkipFollowed
<1>8. S!Is(w + 1, ":") /\ S!Past(w, {"word", "number"} \cup S!Space) = w + 1
  <2>1. S!Kind(w) = "word" /\ S!Kind(w + 1) = "sign" /\ S!Is(w + 1, ":")
    BY <1>1, <1>2, Pieces
  <2>2. Len(text) \in Nat /\ w + 1 \in w..Len(text) + 1
    BY <1>1, <1>2, Kinds
  <2>3. \A y \in w..(w + 1) - 1 : y = w
    BY <1>2
  <2>. QED BY <1>2, <2>1, <2>2, <2>3, PastIs DEF S!Space
<1>9. S!Kind(i) = "iri" /\ p[3].to = i + 1
  BY <1>1, <1>2, PieceIs DEF i
<1>10. S!Prologue
  BY <1>4 DEF S!NextSparql, S!Variables, S!CloseBlock, S!Dot, S!Graph, S!FilterClause, S!Triple, S!After, S!Running
<1>11. /\ prefixes' = [q \in DOMAIN prefixes \cup {text[w].s} |-> IF q = text[w].s THEN text[i].s ELSE prefixes[q]]
       /\ at' = i + 1 /\ reading' = "prologue" /\ query' = query /\ text' = text /\ status' = status /\ graphs' = graphs
  BY <1>2, <1>6, <1>7, <1>8, <1>9, <1>10 DEF S!Prologue, S!Goto
<1>12. Declares(us, n, prefixes') /\ Mean(us, n, query')
  <2>1. u.says.name = text[w].s /\ u.says.iri = text[i].s
    BY <1>1
  <2>2. n \in Nat \ {0} /\ IsList(us)
    BY PartsStand
  <2>3. Declares(us, n, prefixes')
    BY <1>4, <1>11, <2>1, <2>2, DeclaresMore DEF u
  <2>4. Mean(us, n, query')
    BY <1>4, <1>11, <2>2, MeansMore
  <2>. QED BY <2>3, <2>4
<1>13. Around(us, n) = u.graphs /\ Leads(us[n].kind) = "prologue"
  <2>1. n # 0
    BY PartsStand
  <2>. QED BY <2>1 DEF Around, Leads, Place, u
<1>. QED BY <1>1, <1>4, <1>9, <1>11, <1>12, <1>13, NowRead

LEMMA SelectIsRead ==
  ASSUME NEW us, IsCut(text, us), NEW n \in DOMAIN us, HasRead(us, n - 1), us[n].kind = "select", S!NextSparql
  PROVE  HasRead(us, n)'
<1>. DEFINE p == us[n].parts
            a == p[1].from
<1>1. IsList(text) /\ Len(p) = 1 /\ IsPiece(text, p[1], S!AWord("SELECT")) /\ EndsAt(us, n) = p[1].to
  BY PartsStand DEF IsUnit
<1>2. a \in DOMAIN text
  <2>1. 1 \in 1..Len(p)
    BY <1>1
  <2>. QED BY <2>1, PartsStand
<1>3. /\ status = "running" /\ reading = "prologue" /\ Declares(us, n - 1, prefixes) /\ Mean(us, n - 1, query)
      /\ graphs = us[n].graphs /\ IsPosition(at) /\ Blank(text, at, a)
  BY UnitStands DEF Bare, Place
<1>. HIDE DEF p, a
<1>4. text[a].u = "word" /\ text[a].s = "SELECT" /\ p[1].to = a + 1
  BY <1>1, <1>2, PieceIs DEF a
<1>5. S!PeekWord(at) = "SELECT" /\ S!AfterWord(at) = a + 1
  BY <1>1, <1>2, <1>3, <1>4, PeekTo DEF Blanks
<1>6. S!Prologue
  BY <1>3 DEF S!NextSparql, S!Variables, S!CloseBlock, S!Dot, S!Graph, S!FilterClause, S!Triple, S!After, S!Running
<1>7. /\ at' = a + 1 /\ reading' = "variables" /\ query' = query /\ text' = text /\ status' = status
      /\ graphs' = graphs /\ prefixes' = prefixes
  BY <1>5, <1>6 DEF S!Prologue, S!Goto
<1>8. n \in Nat \ {0} /\ IsList(us) /\ n # 0
  BY PartsStand
<1>9. Declares(us, n, prefixes') /\ Mean(us, n, query')
  BY <1>3, <1>7, <1>8, DeclaresMore, MeansMore
<1>10. Around(us, n) = us[n].graphs /\ Leads(us[n].kind) = "variables"
  BY <1>8 DEF Around, Leads, Place
<1>. QED BY <1>1, <1>3, <1>4, <1>7, <1>9, <1>10, NowRead

LEMMA VarIsRead ==
  ASSUME NEW us, IsCut(text, us), NEW n \in DOMAIN us, HasRead(us, n - 1), us[n].kind = "var", S!NextSparql
  PROVE  HasRead(us, n)'
<1>. DEFINE p == us[n].parts
            a == p[1].from
            b == p[1].to
<1>1. /\ IsList(text) /\ Len(p) = 1 /\ VariableAt(text, a, b) /\ us[n].says = text[a + 1].s /\ EndsAt(us, n) = b
  BY PartsStand DEF IsUnit
<1>2. a \in DOMAIN text /\ IsPosition(b) /\ a < b
  <2>1. 1 \in 1..Len(p)
    BY <1>1
  <2>. QED BY <2>1, PartsStand
<1>3. /\ status = "running" /\ reading = "variables" /\ Declares(us, n - 1, prefixes) /\ Mean(us, n - 1, query)
      /\ graphs = us[n].graphs /\ S!Skip(at) = a
  BY UnitStands DEF Place
<1>. HIDE DEF p, a, b
<1>4. S!Is(a, "?") /\ S!Skip(a + 1) = a + 1 /\ S!Kind(a + 1) = "word" /\ b = a + 2
  <2>1. b \in Nat /\ b - 1 \in DOMAIN text
    BY <1>1, <1>2, Kinds DEF IsPosition
  <2>. QED BY <1>1, <1>2, <2>1, VariableIsRead
<1>5. S!Variables
  BY <1>3 DEF S!NextSparql, S!Prologue, S!CloseBlock, S!Dot, S!Graph, S!FilterClause, S!Triple, S!After, S!Running
<1>6. /\ at' = (a + 1) + 1 /\ reading' = "variables" /\ query' = [query EXCEPT !.project = Append(@, text[a + 1].s)]
      /\ text' = text /\ status' = status /\ graphs' = graphs /\ prefixes' = prefixes
  BY <1>3, <1>4, <1>5 DEF S!Variables, S!Goto
<1>7. n \in Nat \ {0} /\ IsList(us) /\ n # 0
  BY PartsStand
<1>8. Declares(us, n, prefixes') /\ Mean(us, n, query')
  BY <1>1, <1>3, <1>6, <1>7, DeclaresMore, MeansMore
<1>9. Around(us, n) = us[n].graphs /\ Leads(us[n].kind) = "variables"
  BY <1>7 DEF Around, Leads, Place
<1>10. at' = b
  <2>1. a \in Nat
    BY <1>1, <1>2, Kinds
  <2>. QED BY <1>4, <1>6, <2>1
<1>. QED BY <1>1, <1>3, <1>6, <1>8, <1>9, <1>10, NowRead

LEMMA WhereIsRead ==
  ASSUME NEW us, IsCut(text, us), NEW n \in DOMAIN us, HasRead(us, n - 1), us[n].kind = "where", S!NextSparql
  PROVE  HasRead(us, n)'
<1>. DEFINE p == us[n].parts
            a == p[1].from
<1>1. IsList(text) /\ EndsAt(us, n) = p[Len(p)].to /\ IsUnit(text, us[n])
  BY PartsStand
<1>2. /\ status = "running" /\ reading = "variables" /\ Declares(us, n - 1, prefixes) /\ Mean(us, n - 1, query)
      /\ graphs = us[n].graphs /\ S!Skip(at) = a
  BY UnitStands DEF Place
<1>3. \/ Len(p) = 2 /\ IsPiece(text, p[1], S!AWord("WHERE")) /\ IsPiece(text, p[2], S!Sign("{"))
      \/ /\ Len(p) = 3 /\ IsPiece(text, p[1], S!Sign("*"))
         /\ IsPiece(text, p[2], S!AWord("WHERE")) /\ IsPiece(text, p[3], S!Sign("{"))
  BY <1>1 DEF IsUnit
<1>4. S!Variables
  BY <1>2 DEF S!NextSparql, S!Prologue, S!CloseBlock, S!Dot, S!Graph, S!FilterClause, S!Triple, S!After, S!Running
<1>5. n \in Nat \ {0} /\ IsList(us) /\ n # 0
  BY PartsStand
<1>6. \A m \in 1..Len(p) : p[m].from \in DOMAIN text /\ IsPosition(p[m].from) /\ IsPosition(p[m].to)
  BY PartsStand
<1>7. \A m \in 2..Len(p) : Followed(p[m - 1].to, p[m].from)
  BY PartFollows
<1>8. ASSUME ~S!Is(a, "?"), NEW j, j = (IF S!Is(a, "*") THEN a + 1 ELSE a), S!PeekWord(j) = "WHERE",
             NEW c, S!Skip(S!AfterWord(j)) = c, S!Is(c, "{"), c + 1 = EndsAt(us, n)
      PROVE  HasRead(us, n)'
  <2>. HIDE DEF a
  <2>1. /\ at' = c + 1 /\ reading' = "block" /\ query' = query /\ text' = text /\ status' = status
        /\ graphs' = graphs /\ prefixes' = prefixes
    BY <1>2, <1>4, <1>8 DEF S!Variables, S!Goto
  <2>2. Declares(us, n, prefixes') /\ Mean(us, n, query')
    BY <1>2, <1>5, <2>1, DeclaresMore, MeansMore
  <2>3. Around(us, n) = us[n].graphs /\ Leads(us[n].kind) = "block"
    BY <1>5 DEF Around, Leads, Place
  <2>. QED BY <1>2, <1>8, <2>1, <2>2, <2>3, NowRead
<1>9. CASE Len(p) = 2 /\ IsPiece(text, p[1], S!AWord("WHERE")) /\ IsPiece(text, p[2], S!Sign("{"))
  <2>. DEFINE c == p[2].from
  <2>1. a \in DOMAIN text /\ IsPosition(a) /\ IsPosition(p[1].to) /\ c \in DOMAIN text /\ Followed(p[1].to, c)
    <3>0. Len(p) = 2
      BY <1>9
    <3>1. 1 \in 1..Len(p) /\ 2 \in 1..Len(p) /\ 2 \in 2..Len(p) /\ 2 - 1 = 1
      BY <3>0
    <3>. QED BY <1>6, <1>7, <3>1
  <2>. HIDE DEF a, c, p
  <2>2. p[1].to = a + 1 /\ text[a].u = "word" /\ text[a].s = "WHERE" /\ S!Kind(a) = "word"
    BY <1>1, <1>9, <2>1, PieceIs DEF a
  <2>3. ~S!Is(a, "?") /\ ~S!Is(a, "*")
    BY <2>2 DEF S!Is
  <2>4. S!PeekWord(a) = "WHERE" /\ S!AfterWord(a) = a + 1
    <3>1. Blank(text, a, a)
      BY <2>1, GapHere DEF IsPosition
    <3>. QED BY <1>1, <2>1, <2>2, <3>1, PeekTo DEF Blanks
  <2>5. S!Skip(a + 1) = c
    BY <1>1, <2>1, <2>2, SkipFollowed
  <2>6. S!Is(c, "{") /\ c + 1 = EndsAt(us, n)
    BY <1>1, <1>9, <2>1, PieceIs DEF c
  <2>. QED BY <1>8, <2>3, <2>4, <2>5, <2>6 DEF a
<1>10. CASE /\ Len(p) = 3 /\ IsPiece(text, p[1], S!Sign("*"))
            /\ IsPiece(text, p[2], S!AWord("WHERE")) /\ IsPiece(text, p[3], S!Sign("{"))
  <2>. DEFINE w == p[2].from
              c == p[3].from
  <2>1. /\ a \in DOMAIN text /\ w \in DOMAIN text /\ c \in DOMAIN text /\ IsPosition(p[1].to) /\ IsPosition(p[2].to)
        /\ Followed(p[2].to, c)
    <3>0. Len(p) = 3
      BY <1>10
    <3>1. 1 \in 1..Len(p) /\ 2 \in 1..Len(p) /\ 3 \in 1..Len(p) /\ 3 \in 2..Len(p) /\ 3 - 1 = 2
      BY <3>0
    <3>. QED BY <1>6, <1>7, <3>1
  <2>2. Blank(text, p[1].to, w)
    <3>0. Len(p) = 3
      BY <1>10
    <3>1. 2 \in 1..Len(p) /\ 2 > 1 /\ 2 - 1 = 1
      BY <3>0
    <3>2. text[p[1].from] = S!Sign("*")
      BY <1>10 DEF IsPiece
    <3>3. text[p[2 - 1].from] = S!Sign("*") => Blank(text, p[2 - 1].to, p[2].from)
      BY <3>1, PartsStand
    <3>. QED BY <3>1, <3>2, <3>3
  <2>. HIDE DEF a, w, c, p
  <2>3. p[1].to = a + 1 /\ S!Is(a, "*") /\ ~S!Is(a, "?")
    <3>1. "*" # "?"
      OBVIOUS
    <3>. QED BY <1>1, <1>10, <2>1, <3>1, PieceIs DEF a
  <2>4. p[2].to = w + 1 /\ text[w].u = "word" /\ text[w].s = "WHERE"
    BY <1>1, <1>10, <2>1, PieceIs DEF w
  <2>5. S!PeekWord(a + 1) = "WHERE" /\ S!AfterWord(a + 1) = w + 1
    BY <1>1, <2>1, <2>2, <2>3, <2>4, PeekTo DEF Blanks
  <2>6. S!Skip(w + 1) = c
    BY <1>1, <2>1, <2>4, SkipFollowed
  <2>7. S!Is(c, "{") /\ c + 1 = EndsAt(us, n)
    BY <1>1, <1>10, <2>1, PieceIs DEF c
  <2>. QED BY <1>8, <2>3, <2>5, <2>6, <2>7 DEF a
<1>. QED BY <1>3, <1>9, <1>10

LEMMA AtPiece ==
  ASSUME IsList(text), NEW a \in DOMAIN text
  PROVE  IsPosition(a) /\ Blank(text, a, a)
<1>1. a \in Nat /\ IsPosition(a)
  BY Kinds DEF IsPosition
<1>. QED BY <1>1, GapHere

\* A step inside a block, told by the next piece.
LEMMA BlockStep ==
  ASSUME S!NextSparql, reading = "block", IsList(text), NEW a \in DOMAIN text, S!Skip(at) = a
  PROVE  /\ S!Is(a, ".") => S!Dot
         /\ S!Is(a, "}") => S!CloseBlock
         /\ text[a].u = "word" /\ text[a].s = "GRAPH" => S!Graph
         /\ text[a].u = "word" /\ text[a].s = "FILTER" => S!FilterClause
         /\ ~S!Is(a, ".") /\ ~S!Is(a, "}") /\ (text[a].u = "word" => text[a].s \notin {"GRAPH", "FILTER"})
              /\ text[a].u \notin Blanks /\ text[a].u # "end" => S!Triple
<1>1. S!CloseBlock \/ S!Dot \/ S!Graph \/ S!FilterClause \/ S!Triple
  BY DEF S!NextSparql, S!Prologue, S!Variables, S!After, S!Running
<1>2. S!Kind(a) = text[a].u /\ (S!Kind(a) # "sign" => \A s : ~S!Is(a, s))
  BY Pieces
<1>3. text[a].u \notin Blanks => S!PeekWord(a) = IF text[a].u = "word" THEN text[a].s ELSE None
  <2>1. IsPosition(a) /\ Blank(text, a, a)
    BY AtPiece
  <2>. QED BY <2>1, PeekTo DEF Blanks
<1>4. S!CloseBlock => S!Kind(a) = "end" \/ S!Is(a, "}")
  BY DEF S!CloseBlock
<1>5. S!Dot => S!Is(a, ".")
  BY DEF S!Dot
<1>6. S!Graph \/ S!FilterClause \/ S!Triple => ~S!Is(a, ".") /\ ~S!Is(a, "}")
  BY DEF S!Graph, S!FilterClause, S!Triple, S!Inner
<1>7. /\ S!Graph => S!PeekWord(a) = "GRAPH"
      /\ S!FilterClause => S!PeekWord(a) = "FILTER"
      /\ S!Triple => S!PeekWord(a) \notin {"GRAPH", "FILTER"}
  BY DEF S!Graph, S!FilterClause, S!Triple
<1>8. S!Is(a, ".") => S!Kind(a) # "end" /\ ~S!Is(a, "}")
  BY DEF S!Is
<1>9. S!Is(a, "}") => ~S!Is(a, ".")
  BY DEF S!Is
<1>10. S!Is(a, ".") => S!Dot
  BY <1>1, <1>4, <1>6, <1>8
<1>11. S!Is(a, "}") => S!CloseBlock
  BY <1>1, <1>5, <1>6, <1>9
<1>12. text[a].u = "word" => ~S!Is(a, ".") /\ ~S!Is(a, "}") /\ S!Kind(a) # "end" /\ S!PeekWord(a) = text[a].s
  BY <1>2, <1>3 DEF Blanks
<1>13. text[a].u = "word" /\ text[a].s = "GRAPH" => S!Graph
  BY <1>1, <1>4, <1>5, <1>7, <1>12
<1>14. text[a].u = "word" /\ text[a].s = "FILTER" => S!FilterClause
  BY <1>1, <1>4, <1>5, <1>7, <1>12
<1>15. ASSUME ~S!Is(a, "."), ~S!Is(a, "}"), text[a].u = "word" => text[a].s \notin {"GRAPH", "FILTER"},
              text[a].u \notin Blanks, text[a].u # "end"
       PROVE  S!Triple
  <2>1. S!PeekWord(a) # "GRAPH" /\ S!PeekWord(a) # "FILTER"
    BY <1>3, <1>15, NoneIsNoWord
  <2>2. S!Kind(a) # "end"
    BY <1>2, <1>15
  <2>. QED BY <1>1, <1>4, <1>5, <1>7, <1>15, <2>1, <2>2
<1>. QED BY <1>10, <1>11, <1>13, <1>14, <1>15

LEMMA EdgeIsRead ==
  ASSUME NEW us, IsCut(text, us), NEW n \in DOMAIN us, HasRead(us, n - 1), us[n].kind \in {"dot", "close", "end"},
         S!NextSparql
  PROVE  HasRead(us, n)'
<1>. DEFINE p == us[n].parts
            a == p[1].from
<1>1. IsList(text) /\ IsUnit(text, us[n]) /\ EndsAt(us, n) = p[Len(p)].to
  BY PartsStand
<1>2. /\ Len(p) = 1 /\ IsPiece(text, p[1], S!Sign(IF us[n].kind = "dot" THEN "." ELSE "}"))
      /\ us[n].kind = "close" => us[n].graphs # <<>>
      /\ us[n].kind = "end" => us[n].graphs = <<>>
  BY <1>1 DEF IsUnit
<1>3. a \in DOMAIN text
  <2>0. Len(p) = 1
    BY <1>2
  <2>1. 1 \in 1..Len(p)
    BY <2>0
  <2>. QED BY <2>1, PartsStand
<1>4. /\ status = "running" /\ reading = "block" /\ Declares(us, n - 1, prefixes) /\ Mean(us, n - 1, query)
      /\ graphs = us[n].graphs /\ S!Skip(at) = a
  BY UnitStands DEF Place
<1>5. EndsAt(us, n) = p[1].to
  BY <1>1, <1>2
<1>. HIDE DEF a, p
<1>6. p[1].to = a + 1 /\ S!Is(a, IF us[n].kind = "dot" THEN "." ELSE "}") /\ S!Kind(a) = "sign"
  BY <1>1, <1>2, <1>3, PieceIs DEF a
<1>7. n \in Nat \ {0} /\ IsList(us) /\ n # 0
  BY PartsStand
<1>8. /\ at' = a + 1 /\ reading' = Leads(us[n].kind) /\ query' = query /\ text' = text /\ status' = status
      /\ graphs' = Around(us, n) /\ prefixes' = prefixes
  <2>1. CASE us[n].kind = "dot"
    <3>1. S!Dot
      BY <1>1, <1>3, <1>4, <1>6, <2>1, BlockStep
    <3>2. Leads(us[n].kind) = "block" /\ Around(us, n) = us[n].graphs
      BY <1>7, <2>1 DEF Around, Leads, Place
    <3>. QED BY <1>4, <3>1, <3>2 DEF S!Dot, S!Goto
  <2>2. CASE us[n].kind # "dot"
    <3>1. S!CloseBlock
      BY <1>1, <1>3, <1>4, <1>6, <2>2, BlockStep
    <3>2. CASE us[n].kind = "end"
      <4>1. Leads(us[n].kind) = "tail" /\ Around(us, n) = us[n].graphs
        BY <1>7, <3>2 DEF Around, Leads, Place
      <4>. QED BY <1>2, <1>4, <1>6, <3>1, <3>2, <4>1 DEF S!CloseBlock, S!Goto
    <3>3. CASE us[n].kind = "close"
      <4>1. Leads(us[n].kind) = "block" /\ Around(us, n) = Front(us[n].graphs)
        BY <1>7, <3>3 DEF Around, Leads, Place
      <4>2. graphs' = Front(graphs) /\ at' = a + 1 /\ reading' = "block" /\ query' = query /\ text' = text
            /\ status' = status /\ prefixes' = prefixes
        BY <1>2, <1>4, <1>6, <3>1, <3>3 DEF S!CloseBlock, S!Goto, S!Front, Front
      <4>. QED BY <1>4, <4>1, <4>2
    <3>. QED BY <2>2, <3>2, <3>3
  <2>. QED BY <2>1, <2>2
<1>9. Declares(us, n, prefixes') /\ Mean(us, n, query')
  BY <1>4, <1>7, <1>8, DeclaresMore, MeansMore
<1>. QED BY <1>4, <1>5, <1>6, <1>8, <1>9, NowRead

LEMMA GraphIsRead ==
  ASSUME NEW us, IsCut(text, us), NEW n \in DOMAIN us, HasRead(us, n - 1), us[n].kind = "graph", S!NextSparql
  PROVE  HasRead(us, n)'
<1>. DEFINE p == us[n].parts
            a == p[1].from
            b == p[3].from
            says == us[n].says
            g == S!ReadTerm(a + 1)
<1>1. /\ IsList(text) /\ Len(p) = 3 /\ EndsAt(us, n) = p[3].to
      /\ IsPiece(text, p[1], S!AWord("GRAPH")) /\ Spells(text, us[n].declared, p[2], says)
      /\ IsPiece(text, p[3], S!Sign("{"))
  BY PartsStand DEF IsUnit
<1>2. /\ a \in DOMAIN text /\ b \in DOMAIN text /\ p[2].from \in DOMAIN text /\ IsPosition(p[1].to) /\ IsPosition(p[2].to)
      /\ p[2].from < p[2].to
  <2>0. Len(p) = 3
    BY <1>1
  <2>1. 1 \in 1..Len(p) /\ 2 \in 1..Len(p) /\ 3 \in 1..Len(p)
    BY <2>0
  <2>. QED BY <2>1, PartsStand
<1>3. Followed(p[1].to, p[2].from) /\ Followed(p[2].to, b)
  <2>0. Len(p) = 3
    BY <1>1
  <2>1. 2 \in 2..Len(p) /\ 3 \in 2..Len(p) /\ 2 - 1 = 1 /\ 3 - 1 = 2
    BY <2>0
  <2>. QED BY <2>1, PartFollows
<1>4. /\ status = "running" /\ reading = "block" /\ Declares(us, n - 1, prefixes) /\ Mean(us, n - 1, query)
      /\ graphs = us[n].graphs /\ prefixes = us[n].declared /\ S!Skip(at) = a
  BY UnitStands DEF Place
<1>. HIDE DEF p, a, b, says, g
<1>5. p[1].to = a + 1 /\ text[a].u = "word" /\ text[a].s = "GRAPH"
  BY <1>1, <1>2, PieceIs DEF a
<1>6. S!AfterWord(a) = a + 1
  <2>1. IsPosition(a) /\ Blank(text, a, a)
    BY <1>1, <1>2, AtPiece
  <2>. QED BY <1>1, <1>2, <1>5, <2>1, PeekTo DEF Blanks
<1>7. ReadAs(g, says, p[2].to, b)
  <2>1. Gap(text, a + 1, p[2].from)
    BY <1>3, <1>5 DEF Followed
  <2>. QED BY <1>1, <1>2, <1>3, <1>4, <1>5, <2>1, TermIsRead DEF g
<1>8. g.v = says /\ ~S!Failed(g) /\ S!Skip(g.next) = b
  <2>1. IsList(text) /\ IsPosition(p[2].to) /\ Followed(p[2].to, b)
    BY <1>1, <1>2, <1>3
  <2>. QED BY <1>7, <2>1, AfterTerm
<1>9. S!Is(b, "{") /\ p[3].to = b + 1
  BY <1>1, <1>2, PieceIs DEF b
<1>10. S!Graph
  BY <1>1, <1>2, <1>4, <1>5, BlockStep
<1>11. /\ graphs' = Append(graphs, says) /\ at' = b + 1 /\ reading' = "block" /\ query' = query
       /\ text' = text /\ status' = status /\ prefixes' = prefixes
  BY <1>4, <1>6, <1>8, <1>9, <1>10 DEF S!Graph, S!Goto, g
<1>12. n \in Nat \ {0} /\ IsList(us) /\ n # 0
  BY PartsStand
<1>13. Declares(us, n, prefixes') /\ Mean(us, n, query')
  BY <1>4, <1>11, <1>12, DeclaresMore, MeansMore
<1>14. Leads(us[n].kind) = "block" /\ Around(us, n) = Append(us[n].graphs, says)
  BY <1>12 DEF Around, Leads, Place, says
<1>. QED BY <1>1, <1>4, <1>9, <1>11, <1>13, <1>14, NowRead

LEMMA FilterIsRead ==
  ASSUME NEW us, IsCut(text, us), NEW n \in DOMAIN us, HasRead(us, n - 1), us[n].kind = "filter", S!NextSparql
  PROVE  HasRead(us, n)'
<1>. DEFINE p == us[n].parts
            a == p[1].from
            open == p[2].from
            op == p[4].from
            c == p[6].from
            says == us[n].says
            l == S!ReadTerm(open + 1)
            r == S!ReadTerm(op + 1)
<1>1. /\ IsList(text) /\ Len(p) = 6 /\ EndsAt(us, n) = p[6].to
      /\ IsPiece(text, p[1], S!AWord("FILTER")) /\ IsPiece(text, p[2], S!Sign("(")) /\ IsPiece(text, p[6], S!Sign(")"))
      /\ says = Filter(says.op, says.lhs, says.rhs) /\ says.op \in {"=", "!=", "<", "<=", ">", ">="}
      /\ Spells(text, us[n].declared, p[3], says.lhs) /\ IsPiece(text, p[4], S!Sign(says.op))
      /\ Spells(text, us[n].declared, p[5], says.rhs)
  BY PartsStand DEF IsUnit
<1>2. \A m \in {1, 2, 3, 4, 5, 6} : p[m].from \in DOMAIN text /\ IsPosition(p[m].to) /\ p[m].from < p[m].to
  <2>1. \A m \in {1, 2, 3, 4, 5, 6} : m \in 1..Len(p)
    BY <1>1
  <2>. QED BY <2>1, PartsStand
<1>3. /\ Followed(p[1].to, open) /\ Followed(p[2].to, p[3].from) /\ Followed(p[3].to, op)
      /\ Followed(p[4].to, p[5].from) /\ Followed(p[5].to, c)
  <2>1. /\ 2 \in 2..Len(p) /\ 3 \in 2..Len(p) /\ 4 \in 2..Len(p) /\ 5 \in 2..Len(p) /\ 6 \in 2..Len(p)
        /\ 2 - 1 = 1 /\ 3 - 1 = 2 /\ 4 - 1 = 3 /\ 5 - 1 = 4 /\ 6 - 1 = 5
    BY <1>1
  <2>2. \A m \in 2..Len(p) : Followed(p[m - 1].to, p[m].from)
    BY PartFollows
  <2>. QED BY <2>1, <2>2
<1>4. /\ status = "running" /\ reading = "block" /\ Declares(us, n - 1, prefixes) /\ Mean(us, n - 1, query)
      /\ graphs = us[n].graphs /\ prefixes = us[n].declared /\ S!Skip(at) = a
  BY UnitStands DEF Place
<1>5. /\ a \in DOMAIN text /\ open \in DOMAIN text /\ op \in DOMAIN text /\ c \in DOMAIN text
      /\ IsPosition(p[1].to) /\ IsPosition(p[2].to) /\ IsPosition(p[3].to) /\ IsPosition(p[4].to) /\ IsPosition(p[5].to)
      /\ p[3].from \in DOMAIN text /\ p[5].from \in DOMAIN text /\ p[3].from < p[3].to /\ p[5].from < p[5].to
  BY <1>2
<1>. HIDE DEF p, a, open, op, c, says, l, r
<1>6. p[1].to = a + 1 /\ text[a].u = "word" /\ text[a].s = "FILTER"
  BY <1>1, <1>5, PieceIs DEF a
<1>7. S!AfterWord(a) = a + 1
  <2>1. IsPosition(a) /\ Blank(text, a, a)
    BY <1>1, <1>5, AtPiece
  <2>. QED BY <1>1, <1>5, <1>6, <2>1, PeekTo DEF Blanks
<1>8. S!Skip(a + 1) = open
  BY <1>1, <1>3, <1>5, <1>6, SkipFollowed
<1>9. p[2].to = open + 1 /\ S!Is(open, "(")
  BY <1>1, <1>5, PieceIs DEF open
<1>10. ReadAs(l, says.lhs, p[3].to, op)
  <2>1. Gap(text, open + 1, p[3].from)
    BY <1>3, <1>9 DEF Followed
  <2>. QED BY <1>1, <1>3, <1>4, <1>5, <1>9, <2>1, TermIsRead DEF l
<1>11. l.v = says.lhs /\ S!Skip(l.next) = op
  <2>1. IsList(text) /\ IsPosition(p[3].to) /\ Followed(p[3].to, op)
    BY <1>1, <1>3, <1>5
  <2>. QED BY <1>10, <2>1, AfterTerm
<1>12. p[4].to = op + 1 /\ S!Is(op, says.op) /\ text[op].s = says.op
  BY <1>1, <1>5, PieceIs DEF op
<1>13. ReadAs(r, says.rhs, p[5].to, c)
  <2>1. Gap(text, op + 1, p[5].from)
    BY <1>3, <1>12 DEF Followed
  <2>. QED BY <1>1, <1>3, <1>4, <1>5, <1>12, <2>1, TermIsRead DEF r
<1>14. r.v = says.rhs /\ ~S!Failed(r) /\ S!Skip(r.next) = c
  <2>1. IsList(text) /\ IsPosition(p[5].to) /\ Followed(p[5].to, c)
    BY <1>1, <1>3, <1>5
  <2>. QED BY <1>13, <2>1, AfterTerm
<1>15. p[6].to = c + 1 /\ S!Is(c, ")")
  BY <1>1, <1>5, PieceIs DEF c
<1>16. S!FilterClause
  BY <1>1, <1>4, <1>5, <1>6, BlockStep
<1>17. \E s \in S!FilterOps : S!Is(op, s)
  BY <1>1, <1>12 DEF S!FilterOps
<1>18. /\ query' = [query EXCEPT !.filters = Append(@, S!Filter(text[op].s, l.v, r.v))]
       /\ at' = c + 1 /\ reading' = "block" /\ graphs' = graphs
       /\ text' = text /\ status' = status /\ prefixes' = prefixes
  BY <1>4, <1>7, <1>8, <1>9, <1>11, <1>14, <1>15, <1>16, <1>17 DEF S!FilterClause, S!Goto, l, r
<1>19. S!Filter(text[op].s, l.v, r.v) = says
  <2>1. S!Filter(text[op].s, l.v, r.v) = Filter(says.op, says.lhs, says.rhs)
    BY <1>11, <1>12, <1>14 DEF S!Filter, Filter
  <2>. QED BY <1>1, <2>1
<1>20. n \in Nat \ {0} /\ IsList(us) /\ n # 0
  BY PartsStand
<1>21. Declares(us, n, prefixes') /\ Mean(us, n, query')
  BY <1>4, <1>18, <1>19, <1>20, DeclaresMore, MeansMore DEF says
<1>22. Leads(us[n].kind) = "block" /\ Around(us, n) = us[n].graphs
  BY <1>20 DEF Around, Leads, Place
<1>. QED BY <1>1, <1>4, <1>15, <1>18, <1>21, <1>22, NowRead

LEMMA TripleIsRead ==
  ASSUME NEW us, IsCut(text, us), NEW n \in DOMAIN us, HasRead(us, n - 1), us[n].kind = "triple", S!NextSparql
  PROVE  HasRead(us, n)'
<1>. DEFINE p == us[n].parts
            a == p[1].from
            c == NextAt(us, n)
            says == us[n].says
            s == S!ReadTerm(at)
            v == S!ReadTerm(s.next)
            o == S!ReadTerm(v.next)
<1>1. /\ IsList(text) /\ Len(p) = 3 /\ EndsAt(us, n) = p[3].to
      /\ says = Pattern(says.subject, says.predicate, says.object,
                        IF us[n].graphs = <<>> THEN None ELSE Last(us[n].graphs))
      /\ text[a].u = "word" => text[a].s \notin {"GRAPH", "FILTER"}
      /\ Spells(text, us[n].declared, p[1], says.subject) /\ Spells(text, us[n].declared, p[2], says.predicate)
      /\ Spells(text, us[n].declared, p[3], says.object)
  BY PartsStand DEF IsUnit
<1>2. \A m \in {1, 2, 3} : p[m].from \in DOMAIN text /\ IsPosition(p[m].to) /\ p[m].from < p[m].to
  <2>0. Len(p) = 3
    BY <1>1
  <2>1. \A m \in {1, 2, 3} : m \in 1..Len(p)
    BY <2>0
  <2>. QED BY <2>1, PartsStand
<1>3. Followed(p[1].to, p[2].from) /\ Followed(p[2].to, p[3].from)
  <2>0. Len(p) = 3
    BY <1>1
  <2>1. 2 \in 2..Len(p) /\ 3 \in 2..Len(p) /\ 2 - 1 = 1 /\ 3 - 1 = 2
    BY <2>0
  <2>. QED BY <2>1, PartFollows
<1>4. /\ status = "running" /\ reading = "block" /\ Declares(us, n - 1, prefixes) /\ Mean(us, n - 1, query)
      /\ graphs = us[n].graphs /\ prefixes = us[n].declared /\ S!Skip(at) = a /\ IsPosition(at) /\ Gap(text, at, a)
  BY UnitStands DEF Place
<1>5. n \in Nat \ {0} /\ IsList(us) /\ n # 0
  BY PartsStand
<1>6. Leads(us[n].kind) = "block" /\ Around(us, n) = us[n].graphs
  BY <1>5 DEF Around, Leads, Place
<1>7. Followed(p[3].to, c)
  <2>1. Leads(us[n].kind) # "tail"
    BY <1>6
  <2>2. Followed(EndsAt(us, n), c)
    BY <2>1, UnitFollows
  <2>. QED BY <1>1, <2>2
<1>8. /\ a \in DOMAIN text /\ p[2].from \in DOMAIN text /\ p[3].from \in DOMAIN text
      /\ IsPosition(p[1].to) /\ IsPosition(p[2].to) /\ IsPosition(p[3].to)
      /\ a < p[1].to /\ p[2].from < p[2].to /\ p[3].from < p[3].to
  BY <1>2
<1>. HIDE DEF p, a, c, says, s, v, o
<1>9. ReadAs(s, says.subject, p[1].to, p[2].from)
  BY <1>1, <1>3, <1>4, <1>8, TermIsRead DEF s, a
<1>10. s.v = says.subject /\ IsPosition(s.next) /\ Gap(text, s.next, p[2].from)
  <2>1. IsList(text) /\ IsPosition(p[1].to) /\ Followed(p[1].to, p[2].from)
    BY <1>1, <1>3, <1>8
  <2>. QED BY <1>9, <2>1, AfterTerm
<1>11. ReadAs(v, says.predicate, p[2].to, p[3].from)
  BY <1>1, <1>3, <1>4, <1>8, <1>10, TermIsRead DEF v
<1>12. v.v = says.predicate /\ IsPosition(v.next) /\ Gap(text, v.next, p[3].from)
  <2>1. IsList(text) /\ IsPosition(p[2].to) /\ Followed(p[2].to, p[3].from)
    BY <1>1, <1>3, <1>8
  <2>. QED BY <1>11, <2>1, AfterTerm
<1>13. ReadAs(o, says.object, p[3].to, c)
  BY <1>1, <1>4, <1>7, <1>8, <1>12, TermIsRead DEF o
<1>14. o.v = says.object /\ ~S!Failed(o) /\ o.next \in {p[3].to, c}
  <2>1. IsList(text) /\ IsPosition(p[3].to) /\ Followed(p[3].to, c)
    BY <1>1, <1>7, <1>8
  <2>. QED BY <1>13, <2>1, AfterTerm
<1>15. S!Triple
  <2>1. \/ text[a].u \in {"iri", "number", "string", "word"}
        \/ text[a] = S!Sign("?")
    BY <1>1 DEF Spells, VariableAt, IsKind, LiteralAt, NameAt, a
  <2>2. /\ ~S!Is(a, ".") /\ ~S!Is(a, "}") /\ text[a].u \notin Blanks /\ text[a].u # "end"
    <3>1. CASE text[a].u \in {"iri", "number", "string", "word"}
      BY <1>1, <1>8, <3>1, Pieces DEF Blanks
    <3>2. CASE text[a] = S!Sign("?")
      <4>1. S!Kind(a) = "sign" /\ S!Kind(a) = text[a].u /\ \A z : S!Is(a, z) => z = "?"
        BY <1>1, <1>8, <3>2, Pieces
      <4>. QED BY <4>1 DEF Blanks
    <3>. QED BY <2>1, <3>1, <3>2
  <2>. QED BY <1>1, <1>4, <1>8, <2>2, BlockStep
<1>16. /\ query' = [query EXCEPT !.patterns =
                      Append(@, S!Pattern(s.v, v.v, o.v, IF graphs = <<>> THEN None ELSE S!Last(graphs)))]
       /\ at' = o.next /\ reading' = "block" /\ graphs' = graphs
       /\ text' = text /\ status' = status /\ prefixes' = prefixes
  BY <1>14, <1>15 DEF S!Triple, S!Goto, s, v, o
<1>17. S!Pattern(s.v, v.v, o.v, IF graphs = <<>> THEN None ELSE S!Last(graphs)) = says
  <2>1. S!Pattern(s.v, v.v, o.v, IF graphs = <<>> THEN None ELSE S!Last(graphs))
        = Pattern(says.subject, says.predicate, says.object, IF us[n].graphs = <<>> THEN None ELSE Last(us[n].graphs))
    BY <1>4, <1>10, <1>12, <1>14 DEF S!Pattern, Pattern, S!Last, Last
  <2>. QED BY <1>1, <2>1
<1>18. Declares(us, n, prefixes') /\ Mean(us, n, query')
  BY <1>4, <1>5, <1>16, <1>17, DeclaresMore, MeansMore DEF says
<1>19. at' \in {EndsAt(us, n), NextAt(us, n)} /\ Leads(us[n].kind) # "tail"
  BY <1>1, <1>6, <1>14, <1>16 DEF c
<1>. QED BY <1>4, <1>6, <1>16, <1>18, <1>19, NowRead

LEMMA CapIsRead ==
  ASSUME NEW us, IsCut(text, us), NEW n \in DOMAIN us, HasRead(us, n - 1), us[n].kind \in {"limit", "offset"},
         S!NextSparql
  PROVE  HasRead(us, n)'
<1>. DEFINE p == us[n].parts
            a == p[1].from
            m == p[2].from
            f == us[n].kind
            word == IF f = "limit" THEN "LIMIT" ELSE "OFFSET"
<1>1. /\ IsList(text) /\ Len(p) = 2 /\ EndsAt(us, n) = p[2].to /\ us[n].says = text[m].n
      /\ IsPiece(text, p[1], S!AWord(word)) /\ IsKind(text, p[2], "number")
  <2>1. IsList(text) /\ IsUnit(text, us[n]) /\ EndsAt(us, n) = p[Len(p)].to
    BY PartsStand
  <2>2. /\ Len(p) = 2 /\ us[n].says = text[m].n
        /\ IsPiece(text, p[1], S!AWord(word)) /\ IsKind(text, p[2], "number")
    BY <2>1 DEF IsUnit
  <2>. QED BY <2>1, <2>2
<1>2. a \in DOMAIN text /\ m \in DOMAIN text /\ IsPosition(p[1].to) /\ Followed(p[1].to, m)
  <2>0. Len(p) = 2
    BY <1>1
  <2>1. 1 \in 1..Len(p) /\ 2 \in 1..Len(p) /\ 2 \in 2..Len(p) /\ 2 - 1 = 1
    BY <2>0
  <2>2. a \in DOMAIN text /\ m \in DOMAIN text /\ IsPosition(p[1].to)
    BY <2>1, PartsStand
  <2>3. Followed(p[2 - 1].to, p[2].from)
    BY <2>1, PartFollows
  <2>. QED BY <2>1, <2>2, <2>3
<1>3. /\ status = "running" /\ reading = "tail" /\ Declares(us, n - 1, prefixes) /\ Mean(us, n - 1, query)
      /\ graphs = us[n].graphs /\ IsPosition(at) /\ Blank(text, at, a)
  BY UnitStands DEF Bare, Place
<1>. HIDE DEF p, a, m, f
<1>4. p[1].to = a + 1 /\ text[a].u = "word" /\ text[a].s = word
  BY <1>1, <1>2, PieceIs DEF a
<1>5. p[2].to = m + 1 /\ S!Kind(m) = "number"
  BY <1>1, <1>2, PieceIs DEF m
<1>6. S!PeekWord(at) = word /\ S!AfterWord(at) = a + 1
  BY <1>1, <1>2, <1>3, <1>4, PeekTo DEF Blanks
<1>7. S!Skip(a + 1) = m
  BY <1>1, <1>2, <1>4, SkipFollowed
<1>8. S!After
  BY <1>3 DEF S!NextSparql, S!Prologue, S!Variables, S!CloseBlock, S!Dot, S!Graph, S!FilterClause, S!Triple, S!Running
<1>9. /\ at' = m + 1 /\ reading' = "tail" /\ query' = [query EXCEPT ![f] = us[n].says]
      /\ text' = text /\ status' = status /\ graphs' = graphs /\ prefixes' = prefixes
  <2>1. f \in {"limit", "offset"} /\ word \in {"LIMIT", "OFFSET"} /\ f = (IF word = "LIMIT" THEN "limit" ELSE "offset")
    BY DEF f
  <2>. HIDE DEF word
  <2>. QED BY <1>1, <1>5, <1>6, <1>7, <1>8, <2>1 DEF S!After, S!Goto
<1>10. n \in Nat \ {0} /\ IsList(us) /\ n # 0
  BY PartsStand
<1>11. Declares(us, n, prefixes') /\ Mean(us, n, query')
  <2>1. f \in {"limit", "offset"} /\ us[n].kind = f /\ us[n].kind # "prefix"
    BY DEF f
  <2>2. Declares(us, n, prefixes')
    BY <1>3, <1>9, <1>10, <2>1, DeclaresMore
  <2>3. Mean(us, n, query')
    BY <1>3, <1>9, <1>10, <2>1, MeansMore
  <2>. QED BY <2>2, <2>3
<1>12. Leads(us[n].kind) = "tail" /\ Around(us, n) = us[n].graphs
  BY <1>10 DEF Around, Leads, Place
<1>. QED BY <1>1, <1>3, <1>5, <1>9, <1>11, <1>12, NowRead

\* After the last unit the text is read.
LEMMA SelectEnds ==
  ASSUME NEW us, IsCut(text, us), HasRead(us, Len(us)), S!NextSparql
  PROVE  status' = "parsed" /\ query' = query
<1>1. IsList(text) /\ Len(us) \in DOMAIN us /\ Leads(us[Len(us)].kind) = "tail" /\ Len(us) # 0
  <2>1. IsList(text) /\ IsList(us) /\ us # <<>> /\ Leads(us[Len(us)].kind) = "tail"
    BY DEF IsCut
  <2>. QED BY <2>1 DEF IsList
<1>2. status = "running" /\ reading = "tail" /\ at = EndsAt(us, Len(us)) /\ IsPosition(at)
  BY <1>1 DEF HasRead
<1>3. PICK j \in at..Len(text) + 1 :
        Blank(text, at, j) /\ (j \in DOMAIN text => IsSign(text[j], {"#"}))
  BY <1>2 DEF IsCut
<1>4. j \in DOMAIN text \/ j = Len(text) + 1
  BY <1>1, <1>2, <1>3, Kinds DEF IsPosition
<1>5. S!Kind(j) \in {"sign", "end"} /\ IsPosition(j)
  BY <1>1, <1>2, <1>3, <1>4, Kinds DEF IsPosition, IsSign
<1>6. S!Past(at, S!Space) = j
  BY <1>1, <1>2, <1>3, <1>5, BlankPast DEF S!Space
<1>7. S!PeekWord(at) = None
  BY <1>5, <1>6 DEF S!PeekWord
<1>8. S!After
  BY <1>2 DEF S!NextSparql, S!Prologue, S!Variables, S!CloseBlock, S!Dot, S!Graph, S!FilterClause, S!Triple, S!Running
<1>. QED BY <1>7, <1>8, NoneIsNoWord DEF S!After, S!End

\* A text that means something has a layout that says so, and the translator has
\* read some of its units, or all of them.
SelectInv ==
  language = "sparql" /\ means # None =>
    \E us : /\ IsCut(text, us) /\ Mean(us, Len(us), means)
            /\ (\E n : HasRead(us, n)) \/ (status = "parsed" /\ query = means)

LEMMA UnitIsRead ==
  ASSUME NEW us, IsCut(text, us), NEW n \in DOMAIN us, HasRead(us, n - 1), S!NextSparql
  PROVE  HasRead(us, n)'
<1>1. us[n].kind \in {"prefix", "select", "var", "where", "triple", "filter", "dot", "graph", "close", "end", "limit", "offset"}
  <2>1. IsUnit(text, us[n])
    BY PartsStand
  <2>. QED BY <2>1 DEF IsUnit
<1>. QED BY <1>1, PrefixIsRead, SelectIsRead, VarIsRead, WhereIsRead, TripleIsRead, FilterIsRead, EdgeIsRead,
            GraphIsRead, CapIsRead

LEMMA SomeAreLeft ==
  ASSUME NEW us, IsList(us), NEW n \in 0..Len(us), n # Len(us)
  PROVE  n + 1 \in DOMAIN us /\ (n + 1) - 1 = n
BY DEF IsList

LEMMA SelectIsTranslated ==
  ASSUME SelectInv, ParseSparql
  PROVE  SelectInv'
<1>. SUFFICES ASSUME language = "sparql", means # None
     PROVE  \E us : (/\ IsCut(text, us) /\ Mean(us, Len(us), means)
                     /\ (\E n : HasRead(us, n)) \/ (status = "parsed" /\ query = means))'
  BY DEF SelectInv, ParseSparql
<1>1. S!NextSparql /\ means' = means
  BY DEF ParseSparql
<1>2. PICK us : /\ IsCut(text, us) /\ Mean(us, Len(us), means)
                /\ (\E n : HasRead(us, n)) \/ (status = "parsed" /\ query = means)
  BY DEF SelectInv
<1>3. status = "running" /\ text' = text
  BY <1>1 DEF S!NextSparql, S!Prologue, S!Variables, S!CloseBlock, S!Dot, S!Graph, S!FilterClause, S!Triple, S!After,
              S!Running, S!Goto, S!End
<1>4. PICK n : HasRead(us, n)
  BY <1>2, <1>3
<1>5. IsList(us) /\ Len(us) \in Nat /\ n \in 0..Len(us)
  BY <1>2, <1>4 DEF IsCut, IsList, HasRead
<1>6. CASE n = Len(us)
  <2>1. status' = "parsed" /\ query' = query
    BY <1>1, <1>2, <1>4, <1>6, SelectEnds
  <2>2. query = means
    <3>1. Mean(us, Len(us), query)
      BY <1>4, <1>6 DEF HasRead
    <3>. QED BY <1>2, <1>5, <3>1, MeanOne
  <2>. QED BY <1>1, <1>2, <1>3, <2>1, <2>2
<1>7. CASE n # Len(us)
  <2>1. n + 1 \in DOMAIN us /\ (n + 1) - 1 = n
    BY <1>5, <1>7, SomeAreLeft
  <2>2. HasRead(us, n + 1)'
    BY <1>1, <1>2, <1>4, <2>1, UnitIsRead
  <2>. QED BY <1>1, <1>2, <1>3, <2>2
<1>. QED BY <1>6, <1>7

LEMMA SelectInit == Init => SelectInv
<1>. SUFFICES ASSUME Init, language = "sparql", means # None
     PROVE  \E us : IsCut(text, us) /\ Mean(us, Len(us), means) /\ HasRead(us, 0)
  BY DEF SelectInv
<1>1. PICK s \in Source : InitText(s)
  BY DEF Init
<1>2. LanguageOf(s.text) = "sparql" /\ means = s.means /\ prefixes = <<>> /\ graphs = <<>>
  BY <1>1 DEF InitText
<1>3. S!InitSparql({s.text})
  BY <1>1, <1>2 DEF InitText
<1>4. text = s.text /\ at = 1 /\ reading = "prologue" /\ query = DefaultQuery /\ status = "running"
  BY <1>3 DEF S!InitSparql, S!DefaultQuery, DefaultQuery
<1>. DEFINE us == s.layout
<1>5. IsCut(text, us) /\ Mean(us, Len(us), means)
  BY <1>2, <1>4, SourcesAreSpelled DEF RendersSelect
<1>6. IsList(text) /\ Len(us) \in Nat \ {0} /\ 1 \in DOMAIN us
  BY <1>5 DEF IsCut, IsList
<1>. HIDE DEF us
<1>7. IsPosition(1)
  <2>1. Len(text) \in Nat
    BY <1>6, Kinds
  <2>. QED BY <2>1 DEF IsPosition
<1>8. Declares(us, 0, <<>>) /\ Mean(us, 0, DefaultQuery)
  BY NothingMeans
<1>9. EndsAt(us, 0) = 1 /\ Around(us, 0) = <<>>
  BY DEF EndsAt, Around
<1>10. HasRead(us, 0)
  BY <1>2, <1>4, <1>6, <1>7, <1>8, <1>9 DEF HasRead
<1>. QED BY <1>5, <1>10

LEMMA SelectStays ==
  ASSUME SelectInv, UNCHANGED tvars
  PROVE  SelectInv'
<1>1. UNCHANGED <<text, at, reading, query, status, prefixes, graphs, means, language>>
  BY DEF tvars, dvars
<1>. SUFFICES ASSUME language = "sparql", means # None
     PROVE  \E us : (/\ IsCut(text, us) /\ Mean(us, Len(us), means)
                     /\ (\E n : HasRead(us, n)) \/ (status = "parsed" /\ query = means))'
  BY <1>1 DEF SelectInv
<1>2. PICK us : /\ IsCut(text, us) /\ Mean(us, Len(us), means)
                /\ (\E n : HasRead(us, n)) \/ (status = "parsed" /\ query = means)
  BY DEF SelectInv
<1>3. ASSUME NEW n PROVE HasRead(us, n) => HasRead(us, n)'
  BY <1>1 DEF HasRead, IsPosition, NextAt
<1>. QED BY <1>1, <1>2, <1>3

LEMMA SelectIsInvariant == Spec => []SelectInv
<1>1. SelectInv /\ [Next]_vars => SelectInv'
  <2>. SUFFICES ASSUME SelectInv, [Next]_vars PROVE SelectInv'
    OBVIOUS
  <2>1. CASE Read
    <3>1. CASE ParseDontoQL
      BY <3>1 DEF ParseDontoQL, SelectInv
    <3>2. CASE ParseSparql
      BY <3>2, SelectIsTranslated
    <3>. QED BY <2>1, <3>1, <3>2 DEF Read, Parse
  <2>2. CASE Ask \/ Answer \/ Fail \/ OthersEdit \/ UNCHANGED vars
    <3>1. UNCHANGED tvars
      BY <2>2 DEF Ask, Answer, Fail, OthersEdit, vars
    <3>. QED BY <3>1, SelectStays DEF tvars
  <2>. QED BY <2>1, <2>2 DEF Next, Handle
<1>. QED BY <1>1, SelectInit, PTL DEF Spec

\* SPARQL reads what is written: whatever prefixes are declared, and declared
\* again, wherever the blanks and comments stand and however the GRAPH blocks
\* are nested, every pattern is read with its terms, its IRIs expanded by the
\* declaration before it and in the context of the block around it, and every
\* filter, variable, limit and offset; nothing of it is refused.
THEOREM SparqlIsRead == Spec => [](language = "sparql" => ReadsWhatIsWritten)
<1>1. SelectInv => (language = "sparql" => ReadsWhatIsWritten)
  BY DEF SelectInv, HasRead, ReadsWhatIsWritten, Ended
<1>. QED BY <1>1, SelectIsInvariant, PTL

-----------------------------------------------------------------------------
(* Both languages *)

\* What is written is read: every text that renders a query is read as that
\* query, DontoQL's and SPARQL's, and none is refused.
THEOREM TextsAreRead == Spec => []ReadsWhatIsWritten
<1>1. (language \in {"dontoql", "sparql"} /\ (language = "dontoql" => ReadsWhatIsWritten)
       /\ (language = "sparql" => ReadsWhatIsWritten)) => ReadsWhatIsWritten
  OBVIOUS
<1>. QED BY <1>1, TextIsInvariant, DontoQLIsRead, SparqlIsRead, PTL

-----------------------------------------------------------------------------
(* The rows are those of what was meant *)

\* What is asked is a text that renders a query.
AsksWhatMeans == (asks => means # None) /\ (pc # "idle" => asks)

LEMMA AskedMeans == Spec => []AsksWhatMeans
<1>1. Init => AsksWhatMeans
  BY AskedTextsMean DEF Init, InitText, E!Init, AsksWhatMeans
<1>2. AsksWhatMeans /\ [Next]_vars => AsksWhatMeans'
  <2>. SUFFICES ASSUME AsksWhatMeans, [Next]_vars PROVE AsksWhatMeans'
    OBVIOUS
  <2>1. UNCHANGED <<asks, means>>
    BY DEF Next, Handle, Read, Ask, Answer, Fail, OthersEdit, vars, tvars, caller, Parse, ParseDontoQL, ParseSparql
  <2>2. CASE Read \/ UNCHANGED vars
    BY <2>1, <2>2 DEF Read, vars, evaluation, AsksWhatMeans
  <2>3. CASE Ask
    BY <2>1, <2>3 DEF Ask, AsksWhatMeans
  <2>4. CASE Answer
    <3>1. pc # "idle"
      BY <2>4, ClausesAre
         DEF Answer, E!Evaluate, E!ApplyPreset, E!LoadConcept, E!MatchRow, E!Retain, E!Extend,
             E!NextPattern, E!Order, E!LoadEvidence
    <3>. QED BY <2>1, <3>1 DEF AsksWhatMeans
  <2>5. CASE Fail
    <3>1. pc # "idle"
      BY <2>5, ClausesAre DEF Fail, E!CallFails, E!Asks
    <3>. QED BY <2>1, <3>1 DEF AsksWhatMeans
  <2>6. CASE OthersEdit
    BY <2>1, <2>6 DEF OthersEdit, E!Others, AsksWhatMeans
  <2>. QED BY <2>2, <2>3, <2>4, <2>5, <2>6 DEF Next, Handle
<1>. QED BY <1>1, <1>2, PTL DEF Spec

\* From text to rows: if nobody edits meanwhile and the documentation promises no
\* other rows (Query's Disputed), the rows are a window of the solutions of the query that was meant, with their evidence, and it is refused
\* just when it is ill-typed: the text is read as it was written, and the nested
\* loops, whatever order they are run in, compute the join.
THEOREM RowsAreJoin == Spec => []AnswerIsJoin
<1>1. JoinInv /\ AsksWhatMeans /\ ReadsWhatIsWritten => AnswerIsJoin
  <2>. SUFFICES ASSUME JoinInv, AsksWhatMeans, ReadsWhatIsWritten,
                       pc \in {"done", "ill-typed"}, past = {store}, means.patterns # <<>>
       PROVE  IF E!IllTyped(store, Meant) THEN pc = "ill-typed"
              ELSE pc = "done" /\ answer \in E!Answers(store, Meant)
    BY DEF AnswerIsJoin
  <2>1. status = "parsed" /\ asked.patterns = query.patterns
    BY DEF JoinInv, AskedOK
  <2>2. query = means
    BY <2>1 DEF AsksWhatMeans, ReadsWhatIsWritten, Ended
  <2>3. Evaluated
    BY <2>1, <2>2 DEF Evaluated
  <2>4. asked = Meant
    BY <2>2, <2>3 DEF JoinInv, AskedOK, Requested, Meant
  <2>5. Steady
    BY DEF Steady
  <2>6. /\ pc = "ill-typed" => E!IllTyped(store, asked)
        /\ pc = "done" => ~E!IllTyped(store, asked) /\ answer \in E!Answers(store, asked)
    BY <2>3, <2>5 DEF JoinInv, AnsweredOK
  <2>. QED BY <2>4, <2>6
<1>. QED BY <1>1, JoinIsInvariant, AskedMeans, TextsAreRead, PTL
=============================================================================
