------------------------------ MODULE MCQuery -------------------------------
(* Texts, a small store, and requests whose texts are asked of it.          *)
(* DontoQL: any two clauses, one with a token left out, and all of them.    *)
(* SPARQL: two items of a block, nested and not, with blanks and comments    *)
(* between them and without.                                                 *)
EXTENDS QueryCommand

CONSTANTS s1, s2, s3, s4, s5, doc

T(s) == Tok(s, s)
X == Tok("var", "x")
Y == Tok("var", "y")
P == Tok("prefixed", "ex:p")
Ctx == Tok("angle", "ctx")

C(lexemes, sets) == [toks |-> lexemes, sets |-> sets]
Kw(s, rest) == <<Ident(s)>> \o rest

TriplePattern == Pattern(Var("x"), Iri("ex:p"), Var("y"), None)
InGraph == Pattern(Var("y"), Iri("ex:p"), Num(5), Iri("ctx"))

Clauses ==
  { C(Kw("PRESET", <<Tok("prefixed", "as_of:t")>>), "preset" :> "as_of:t"),
    C(Kw("PRESET", <<Ident("latest")>>), "preset" :> "latest"),
    C(Kw("MATCH", <<X, P, Y>>), "patterns" :> <<TriplePattern>>),
    C(Kw("MATCH", <<Y, P, IntTok(5), Ident("IN"), Ctx, Comma, X, P, Y>>),
      "patterns" :> <<InGraph, TriplePattern>>),
    C(Kw("FILTER", <<X, Op("!="), Tok("str", "m"), Comma, Y, Op("<="), IntTok(5)>>),
      "filters" :> <<Filter("!=", Var("x"), Text("m", "xsd:string")), Filter("<=", Var("y"), Num(5))>>),
    C(Kw("POLARITY", <<Ident("negated")>>), "polarity" :> "negated"),
    C(Kw("MATURITY", <<Op(">="), IntTok(2)>>), "maturity" :> 2),
    C(Kw("MATURITY", <<IntTok(3)>>), "maturity" :> 3),
    C(Kw("IDENTITY_LENS", <<Ident("SAMEAS")>>), "identity" :> "sameas"),
    C(Kw("PREDICATES", <<Ident("EXPAND_ABOVE"), IntTok(80)>>),
      "expansion" :> [mode |-> "above", percent |-> 80]),
    C(Kw("PREDICATES", <<Ident("STRICT")>>), "expansion" :> [mode |-> "strict"]),
    C(Kw("MODALITY", <<Ident("inferred"), Comma, Ident("elicited")>>),
      "modality" :> <<"inferred", "elicited">>),
    C(Kw("EXTRACTION_LEVEL", <<Ident("quoted")>>), "level" :> <<"quoted">>),
    C(Kw("TRANSACTION_TIME", Kw("AS_OF", <<Tok("str", "t")>>)), "asOf" :> "t"),
    C(Kw("POLICY", Kw("ALLOWS", <<Ident("quote")>>)), "policy" :> "quote"),
    C(Kw("SCHEMA_LENS", <<Tok("prefixed", "ex:lens")>>), "lens" :> "ex:lens"),
    C(Kw("EXPANDS_FROM", Kw("concept", <<P>>) \o Kw("USING", Kw("schema_lens", <<Ctx>>))),
      "expands" :> [concept |-> "ex:p", lens |-> "ctx"]),
    C(Kw("ORDER_BY", <<Ident("contradiction_pressure")>>), "order" :> "desc"),
    C(Kw("ORDER", Kw("BY", <<Ident("contradiction_pressure"), Ident("ASC")>>)), "order" :> "asc"), C(<<Semi>>, <<>>),
    C(Kw("WITH", Kw("evidence", <<Op("="), Ident("full")>>)), "evidence" :> "full"),
    C(Kw("PROJECT", <<X, Comma, Y>>), "project" :> <<"x", "y">>),
    C(Kw("LIMIT", <<IntTok(5)>>), "limit" :> 5),
    C(Kw("OFFSET", <<IntTok(2)>>), "offset" :> 2),
    C(Kw("SCOPE", Kw("include", <<P, Comma, Ctx>>) \o Kw("exclude", <<P>>) \o Kw("ancestors", <<>>)),
      "scope" :> [include |-> <<"ex:p", "ctx">>, exclude |-> <<"ex:p">>,
                  descendants |-> TRUE, ancestors |-> TRUE]),
    C(Kw("SCOPE", Kw("no_descendants", <<T("comment")>>)), "scope" :> [Anywhere EXCEPT !.descendants = FALSE]) }

\* What a list of clauses says: every field as its last clause has it.
Saying(cs) == [f \in DOMAIN DefaultQuery |->
  LET named == {n \in DOMAIN cs : f \in DOMAIN cs[n].sets}
  IN IF named = {} THEN DefaultQuery[f] ELSE cs[Max(named)].sets[f]]

Spell(cs) == FlattenSeq([n \in DOMAIN cs |-> cs[n].toks])

\* The layout of a list of clauses: an entry begins at the keyword of a list, at
\* a word of a scope and at every comma.
Words(c) == SelectSeq(c.toks, LAMBDA x : x.t # "comment")
EntriesOf(words, sets) ==
  LET scope == "scope" \in DOMAIN sets
      heads == IF scope THEN {m \in 2..Len(words) : words[m].t = "ident"} ELSE {1}
      starts == SetToSortSeq(heads \cup {m \in DOMAIN words : words[m] = Comma}, <)
      kind(m) == words[Max({h \in heads : h <= m})].s
      value == sets[CHOOSE f \in DOMAIN sets : TRUE]
  IN IF DOMAIN sets \cap ({"scope"} \cup Range(ListField)) = {} THEN <<>>
     ELSE [i \in DOMAIN starts |->
             [at |-> starts[i], kind |-> kind(starts[i]),
              says |-> IF ~scope THEN value[i] ELSE IF starts[i] < Len(words) THEN words[starts[i] + 1].s ELSE None]]
LayoutOf(cs) ==
  [n \in DOMAIN cs |->
     [from |-> 1 + FoldLeft(LAMBDA x, c : x + Len(Words(c)), 0, SubSeq(cs, 1, n - 1)),
      words |-> Words(cs[n]), sets |-> cs[n].sets, entries |-> EntriesOf(Words(cs[n]), cs[n].sets)]]
Written(cs) == [text |-> Spell(cs), means |-> Saying(cs), layout |-> LayoutOf(cs)]

Pairs == {<<c>> : c \in Clauses} \cup (Clauses \X Clauses)
AllOfThem == FoldSet(LAMBDA c, cs : Append(cs, c), <<>>, Clauses)
Whole == Pairs \cup {AllOfThem, Reverse(AllOfThem)}


\* A clause that misses a token, after another one; and what is no clause.
Without(s, n) == IF n \in DOMAIN s THEN RemoveAt(s, n) ELSE s
Broken ==
  {c.toks \o Without(d.toks, n) : c \in {x \in Clauses : "limit" \in DOMAIN x.sets}, d \in Clauses, n \in 1..9}
  \cup {<<Comma>>, <<Ident("OPTIONAL")>>, <<Tok("unreadable", "(")>>,
        Kw("PREDICATES", <<Ident("EXPAND_ABOVE"), IntTok(101)>>), Kw("POLARITY", <<Ident("maybe")>>)}

\* Numbers that do not fit say nothing: they are taken modulo 2^8 and 2^64.
Wrapped == {Kw("MATURITY", <<IntTok(256)>>), Kw("LIMIT", <<IntTok(-1)>>)}

-----------------------------------------------------------------------------
W(s) == <<S!AWord(s)>>
G(s) == <<S!Sign(s)>>
B == <<S!Blank>>
Remark == G("#") \o W("SELECT") \o B \o G("?")
Note == Remark \o <<S!Newline>>
TT(spelled, term) == [spelled |-> spelled, term |-> term]

Sx == TT(G("?") \o W("x"), Var("x"))
Name(declared) == TT(W("ex") \o G(":") \o W("p"),
                     Iri(IF declared THEN <<"http", W("p")>> ELSE <<"ex", ":", W("p")>>))
Fragment == TT(W("ex") \o G(":") \o W("p") \o G("#") \o W("q"), Iri(<<"ex", ":", W("p") \o G("#") \o W("q")>>))
Sg == TT(<<S!Piece("iri", "ctx")>>, Iri(<<"ctx">>))
Sn == TT(<<S!Number(5)>>, Num(5))
Str == <<S!Piece("string", "m")>>
Lang == TT(Str \o G("@") \o W("en"), [lit |-> "m", dt |-> "rdf:langString", lang |-> "en"])
Typed(declared) == TT(Str \o G("^^") \o W("ex") \o G(":") \o W("p"),
                      [lit |-> "m", dt |-> IF declared THEN <<"http", W("p")>> ELSE <<"ex", ":", W("p")>>])

\* A unit: its parts with what stands after each, and what it says.
Pt(spelled, gap) == [spelled |-> spelled, gap |-> gap]
U(kind, parts, says) == [kind |-> kind, parts |-> parts, says |-> says]
SpellParts(parts) == FlattenSeq([m \in DOMAIN parts |-> parts[m].spelled \o parts[m].gap])
SpellUnits(us) == FlattenSeq([n \in DOMAIN us |-> SpellParts(us[n].parts)])

\* The items of a block: their units, and what they add.
Dot(gap) == <<U("dot", <<Pt(G("."), gap)>>, None)>>
Triple3(a, b, c, gap, then) ==
  LET pat == Pattern(a.term, b.term, c.term, None)
  IN [units |-> <<U("triple", <<Pt(a.spelled, B), Pt(b.spelled, B \o gap), Pt(c.spelled, gap)>>, pat)>> \o then,
      pats |-> <<pat>>, fils |-> <<>>]
FilterItem(a, op, b) ==
  LET fil == Filter(op, a.term, b.term)
  IN [units |-> <<U("filter", <<Pt(W("FILTER"), B), Pt(G("("), <<>>), Pt(a.spelled, <<>>), Pt(G(op), <<>>),
                               Pt(b.spelled, <<>>), Pt(G(")"), <<>>)>>, fil)>>,
      pats |-> <<>>, fils |-> <<fil>>]
In(g, its) ==
  [units |-> <<U("graph", <<Pt(W("GRAPH"), B), Pt(g.spelled, <<>>), Pt(G("{"), <<>>)>>, g.term)>>
             \o FlattenSeq([n \in DOMAIN its |-> its[n].units]) \o <<U("close", <<Pt(G("}"), B)>>, None)>>,
   pats |-> FlattenSeq([n \in DOMAIN its |->
              [j \in DOMAIN its[n].pats |->
                 [its[n].pats[j] EXCEPT !.graph = IF @ = None THEN g.term ELSE @]]]),
   fils |-> FlattenSeq([n \in DOMAIN its |-> its[n].fils])]

Items(d) ==
  LET t1 == Triple3(Sx, Name(d), Name(d), B, Dot(B))
      t2 == Triple3(Sg, Sx, Lang, <<>>, Dot(<<>>))
      t3 == Triple3(Sg, IF d THEN Name(d) ELSE Fragment, Sn, Note, <<>>)
      f1 == FilterItem(Sx, "!=", Typed(d))
      f2 == FilterItem(Sx, "<=", Sn)
  IN {t1, t2, f1, f2, t3,
      In(Sg, <<t1>>), In(Name(d), <<f2, t2>>), In(Sg, <<t2, In(Name(d), <<t1>>), t1>>)}

Cap(kind, word, n, gap) == U(kind, <<Pt(W(word), B), Pt(<<S!Number(n)>>, gap)>>, n)
Tails == {[gap |-> <<>>, units |-> <<>>, sets |-> <<>>],
          [gap |-> B, units |-> <<Cap("limit", "LIMIT", 5, <<>>)>>, sets |-> ("limit" :> 5)],
          [gap |-> <<>>, units |-> <<Cap("limit", "LIMIT", 3, B), Cap("offset", "OFFSET", 2, B), Cap("limit", "LIMIT", 5, B \o Remark)>>,
           sets |-> ("offset" :> 2) @@ ("limit" :> 5)]}

\* Of two declarations of a prefix the last one counts.
Declaration(iri) ==
  U("prefix", <<Pt(W("PREFIX"), B), Pt(W("ex") \o G(":"), B), Pt(<<S!Piece("iri", iri)>>, B)>>,
    [name |-> "ex", iri |-> iri])
Heads(d) ==
  LET prologue == IF d THEN <<Declaration("old"), Declaration("http")>> ELSE <<>>
      select == <<U("select", <<Pt(W("SELECT"), B)>>, None)>>
      where == <<Pt(W("WHERE"), B), Pt(G("{"), <<>>)>>
  IN {[units |-> prologue \o select \o <<U("where", <<Pt(G("*"), B)>> \o where, None)>>, project |-> <<>>],
      [units |-> prologue \o select
                 \o <<U("var", <<Pt(G("?") \o W("x"), B)>>, "x"), U("var", <<Pt(G("?") \o W("y"), Note \o Note)>>, "y"),
                      U("where", where, None)>>,
       project |-> <<"x", "y">>]}

\* Where the parts of units stand in the text, which graphs are around them and
\* which prefixes are declared before.
Laid(units) ==
  LET Lay(acc, u) ==
        LET p == u.parts
            Begins(m) == acc.at + Len(SpellParts(SubSeq(p, 1, m - 1)))
            inner == IF acc.graphs = <<>> THEN None ELSE Last(acc.graphs)
        IN [at |-> Begins(Len(p) + 1),
            graphs |-> CASE u.kind = "graph" -> Append(acc.graphs, u.says)
                         [] u.kind = "close" -> Front(acc.graphs) [] OTHER -> acc.graphs,
            declared |-> IF u.kind = "prefix" THEN (u.says.name :> u.says.iri) @@ acc.declared ELSE acc.declared,
            laid |-> Append(acc.laid,
              [kind |-> u.kind, graphs |-> acc.graphs, declared |-> acc.declared,
               says |-> IF u.kind = "triple" THEN [u.says EXCEPT !.graph = inner] ELSE u.says,
               parts |-> [m \in DOMAIN p |-> [from |-> Begins(m), to |-> Begins(m) + Len(p[m].spelled)]]])]
  IN FoldLeft(Lay, [at |-> 1, graphs |-> <<>>, declared |-> <<>>, laid |-> <<>>], units).laid

Select(h, i, j, t) ==
  LET units == h.units \o i.units \o j.units \o <<U("end", <<Pt(G("}"), t.gap)>>, None)>> \o t.units
  IN [text |-> SpellUnits(units), layout |-> Laid(units),
      means |-> [f \in DOMAIN DefaultQuery |->
        CASE f = "patterns" -> i.pats \o j.pats [] f = "filters" -> i.fils \o j.fils
          [] f = "project" -> h.project
          [] OTHER -> IF f \in DOMAIN t.sets THEN t.sets[f] ELSE DefaultQuery[f]]]

Selects == UNION {{Select(h, i, j, t) : h \in Heads(d), i \in Items(d), j \in Items(d), t \in Tails} : d \in BOOLEAN}

\* A query that misses a piece.
Cut == LET s == CHOOSE x \in Selects : Len(x.text) > 60 IN {Without(s.text, n) : n \in 2..Len(s.text)}

-----------------------------------------------------------------------------
(* Five statements in two contexts, one of them not yet asserted; a closure  *)
(* that aligns predicates, and one that holds each to itself only; and a     *)
(* query for every clause.                                                  *)
St(a, p, b, c, pol) == [subject |-> a, predicate |-> p, object |-> b, ctx |-> c, polarity |-> pol]
MCContent ==
  (s1 :> St("a", "knows", Iri("b"), "c1", "asserted")) @@ (s2 :> St("b", "age", Num(5), "c1", "asserted"))
  @@ (s3 :> St("a", "likes", Iri("b"), "c1", "asserted")) @@ (s4 :> St("b", "knows", Iri("a"), "c2", "asserted"))
  @@ (s5 :> St("b", "knows", Iri("b"), "c1", "negated"))
MCParent == ("c1" :> None) @@ ("c2" :> "c1")

MCAsOf == "as_of:t1" :> 1

MCAction == {"quote", "view_anchor_location"}

Store0 ==
  [lo |-> [s \in Id |-> IF s = s4 THEN None ELSE 1], hi |-> [s \in Id |-> None],
   maturity |-> [s \in Id |-> IF s = s1 THEN 2 ELSE 0],
   modality |-> [s \in Id |-> IF s = s2 THEN None ELSE "inferred"],
   level |-> [s \in Id |-> IF s = s3 THEN None ELSE "quoted"],
   links |-> {<<s1, doc>>}, allows |-> [d \in Doc |-> {"quote"}],
   lenses |-> {<<s1, "lens">>, <<s2, "lens">>},
   closure |-> {[of |-> "knows", to |-> "knows", swap |-> FALSE, confidence |-> 100],
                [of |-> "knows", to |-> "likes", swap |-> FALSE, confidence |-> 90],
                [of |-> "knownBy", to |-> "knows", swap |-> TRUE, confidence |-> 100]},
   edges |-> {[concept |-> "knows", lens |-> "lens", to |-> "age"]},
   hypotheses |-> {}, pressure |-> [s \in Id |-> IF s = s1 THEN 1 ELSE 0]]
MCStart ==
  {Store0,
   [Store0 EXCEPT !.lo[s4] = 1, !.allows[doc] = MCAction, !.hypotheses = {"c2"}, !.links = {<<s4, doc>>, <<s1, doc>>},
                  !.closure = {c \in @ : c.of = c.to}]}
\* When older transactions began: none runs, or one begun when as_of:t1 is about.
MCOlder == {{}, {1}}

Pat(a, p, b) == Pattern(a, p, b, None)
VX == Var("x")
VY == Var("y")
VZ == Var("z")
Knows == Iri("knows")

Q(pats) == [DefaultQuery EXCEPT !.patterns = pats]
Named(q, name) == [q EXCEPT !.preset = name]
One == <<Pat(VX, Var("p"), VY)>>

\* Each with the presets callers may name beside the text.
MCRequest ==
  LET knows == Q(<<Pat(VX, Knows, VY)>>)
      one == Q(One)
      plain ==
        { DefaultQuery, knows,
          [Q(<<Pat(VX, Knows, VY), Pat(VY, Iri("age"), VZ)>>) EXCEPT
             !.filters = <<Filter(">", VZ, Num(3)), Filter("=", Var("u"), Var("w"))>>, !.project = <<"x", "z", "u">>],
          [Q(<<Pat(VX, Iri("age"), VY), Pat(VY, Knows, VZ)>>) EXCEPT !.filters = <<Filter("<=", VY, Num(4))>>],
          Q(<<Pat(VX, Knows, VY), Pat(VY, Knows, VX)>>), Q(<<Pat(VX, Knows, VX)>>),
          [one EXCEPT !.order = "desc", !.offset = 1, !.limit = 1, !.evidence = "full"],
          [one EXCEPT !.order = "asc", !.limit = 1, !.filters = <<Filter("!=", VX, Iri("b"))>>],
          [one EXCEPT !.modality = <<"inferred">>, !.level = <<"quoted">>],
          [one EXCEPT !.policy = "quote", !.lens = "lens", !.evidence = "redacted_if_required"],
          [one EXCEPT !.policy = "sell"],
          [one EXCEPT !.expands = [concept |-> "knows", lens |-> "lens"],
             !.filters = <<Filter("<", VY, Num(6)), Filter(">=", VY, Num(5))>>],
          [knows EXCEPT !.scope = [Anywhere EXCEPT !.include = <<"c2">>, !.descendants = FALSE]],
          [knows EXCEPT !.scope = [AnyOf(<<"c2">>) EXCEPT !.ancestors = TRUE, !.exclude = <<"c2">>]],
          [Q(<<Pat(VX, Knows, VX)>>) EXCEPT !.expansion = [mode |-> "above", percent |-> 95], !.polarity = "negated"],
          [Q(<<Pat(VX, Iri("knownBy"), VY)>>) EXCEPT !.expansion = [mode |-> "strict"]],
          Q(<<Pat(VX, Iri("knownBy"), VY)>>),
          Named(one, "curated"), Named([one EXCEPT !.scope = AnyOf(<<"c2">>)], "anywhere"), Named(one, "newest") }
  IN {[query |-> q, preset |-> None] : q \in plain}
     \cup {[query |-> Q(<<Pat(VX, Knows, VY), Pat(VY, Var("p"), VZ)>>), preset |-> "as_of:t1"],
           [query |-> knows, preset |-> "under_hypothesis"],
           [query |-> Named([one EXCEPT !.maturity = 2], "latest"), preset |-> "raw"]}

Ed(kind, of) == [kind |-> kind, of |-> of]
MCEdit == {Ed("assert", s4), Ed("retract", s1), Ed("promote", s2) @@ ("maturity" :> 2),
           Ed("modality", s1) @@ ("modality" :> "elicited"), Ed("policy", doc) @@ ("allows" :> {}),
           Ed("lens", s3) @@ ("lens" :> "lens"), Ed("argue", s3) @@ ("pressure" :> 2), Ed("context", "c1")}

\* A query as it is written in DontoQL, clause by clause.
TermTok(x) == IF IsVar(x) THEN Tok("var", x.var) ELSE IF IsIri(x) THEN Tok("prefixed", x.iri) ELSE IntTok(x.num)
Commas(lists) == FlattenSeq([i \in DOMAIN lists |-> IF i = 1 THEN lists[i] ELSE <<Comma>> \o lists[i]])
When(b, s) == IF b THEN s ELSE <<>>
Idents(xs) == Commas([i \in DOMAIN xs |-> <<Ident(xs[i])>>])
Irises(xs) == Commas([i \in DOMAIN xs |-> <<Tok("prefixed", xs[i])>>])
Rendered(q) ==
  LET d == DefaultQuery
      Says(f, lexemes) == IF q[f] = d[f] THEN <<>> ELSE <<C(lexemes, f :> q[f])>>
  IN Says("preset", Kw("PRESET", <<Tok("prefixed", q.preset)>>))
  \o Says("scope", Kw("SCOPE", <<>>)
       \o When(q.scope.include # <<>>, Kw("include", Irises(q.scope.include)))
       \o When(q.scope.exclude # <<>>, Kw("exclude", Irises(q.scope.exclude)))
       \o When(~q.scope.descendants, Kw("no_descendants", <<>>)) \o When(q.scope.ancestors, Kw("ancestors", <<>>)))
  \o Says("patterns", Kw("MATCH", Commas([i \in DOMAIN q.patterns |->
       <<TermTok(q.patterns[i].subject), TermTok(q.patterns[i].predicate), TermTok(q.patterns[i].object)>>])))
  \o Says("filters", Kw("FILTER", Commas([i \in DOMAIN q.filters |->
       <<TermTok(q.filters[i].lhs), Op(q.filters[i].op), TermTok(q.filters[i].rhs)>>])))
  \o Says("polarity", Kw("POLARITY", <<Ident(q.polarity)>>))
  \o Says("maturity", Kw("MATURITY", <<IntTok(q.maturity)>>))
  \o Says("expansion", Kw("PREDICATES", IF q.expansion.mode = "strict" THEN <<Ident("STRICT")>>
                                         ELSE <<Ident("EXPAND_ABOVE"), IntTok(q.expansion.percent)>>))
  \o Says("modality", Kw("MODALITY", Idents(q.modality)))
  \o Says("level", Kw("EXTRACTION_LEVEL", Idents(q.level)))
  \o Says("policy", Kw("POLICY", Kw("ALLOWS", <<Ident(q.policy)>>)))
  \o Says("lens", Kw("SCHEMA_LENS", <<Ident(q.lens)>>))
  \o Says("expands", Kw("EXPANDS_FROM", Kw("concept", <<Tok("prefixed", q.expands.concept)>>)
       \o Kw("USING", Kw("schema_lens", <<Tok("prefixed", q.expands.lens)>>))))
  \o Says("order", Kw("ORDER_BY", <<Ident("contradiction_pressure"), Ident(IF q.order = "asc" THEN "ASC" ELSE "DESC")>>))
  \o Says("evidence", Kw("WITH", Kw("evidence", <<Op("="), Ident(q.evidence)>>)))
  \o Says("project", Kw("PROJECT", Commas([i \in DOMAIN q.project |-> <<Tok("var", q.project[i])>>])))
  \o Says("limit", Kw("LIMIT", <<IntTok(q.limit)>>))
  \o Says("offset", Kw("OFFSET", <<IntTok(q.offset)>>))

Users(x, p, asks1) == [text |-> x.text, means |-> x.means, layout |-> x.layout, preset |-> p, asks |-> asks1]
Meaningless(t) == [text |-> t, means |-> None, layout |-> None]
MCSource ==
  {Users(x, None, FALSE) :
     x \in {Written(cs) : cs \in Whole} \cup Selects
          \cup {Meaningless(t) : t \in Broken \cup Wrapped \cup Cut}}
  \cup {Users(Written(Rendered(r.query)), r.preset, TRUE) : r \in MCRequest}
=============================================================================
