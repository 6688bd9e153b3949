--------------------------- MODULE IngestFormats ----------------------------
(***************************************************************************)
(* The readers of packages/donto-ingest: what each makes of a file, as the *)
(* statements it hands on in their order, or that it refuses the file.     *)
(* An IRI is a sequence of its parts, so that prefixing is concatenation.  *)
(***************************************************************************)
EXTENDS QueryAlgebra, SequencesExt, FiniteSetsExt

\* A file was read: its statements, and what the report says is missing.
Read(stmts, losses) == [stmts |-> stmts, losses |-> losses, fails |-> FALSE]
Refused == [stmts |-> <<>>, losses |-> <<>>, fails |-> TRUE]

Always == <<None, None>>
In(c, s, p, o) ==
  [s |-> s, p |-> p, o |-> o, ctx |-> c, polarity |-> "asserted", maturity |-> 0, valid |-> Always]

ForEach(seq, F(_)) == FlattenSeq([i \in DOMAIN seq |-> F(seq[i])])
RdfType == <<"rdf:type">>

-----------------------------------------------------------------------------
(* N-Quads, Turtle, TriG, RDF/XML: a file is the sequence of its quads.  A  *)
(* term is named, blank, a literal or a quoted triple.                      *)

Named(i) == [named |-> i]
Blank(b) == [blank |-> b]
Quoted == [quoted |-> TRUE]

BlankIri(b) == <<"_:", b>>

\* Subjects, objects and graphs.
Node(t) == IF "named" \in DOMAIN t THEN t.named ELSE BlankIri(t.blank)
Object(t) == IF IsLiteral(t) THEN t ELSE Iri(Node(t))

QuadToInput(q, c) == In(IF q.g = None THEN c ELSE Node(q.g), Node(q.s), q.p, Object(q.o))

\* A quoted triple is noticed when it is met and refused when all is read.
RdfStar(q) == Quoted \in {q.s, q.o}
ReadRdf(file, c) ==
  IF ~file.wellFormed \/ \E i \in DOMAIN file.quads : RdfStar(file.quads[i]) THEN Refused
  ELSE Read([i \in DOMAIN file.quads |-> QuadToInput(file.quads[i], c)], <<>>)

-----------------------------------------------------------------------------
(* JSONL: a statement a line.                                               *)

JsonlRow(l, c) ==
  [In(IF l.c = None THEN c ELSE l.c, l.s, l.p, l.o) EXCEPT
     !.polarity = IF l.pol \in Polarities THEN l.pol ELSE "asserted", !.maturity = l.maturity, !.valid = l.valid]

ReadJsonl(file, c) ==
  IF \E i \in DOMAIN file.lines : file.lines[i].kind = "malformed" THEN Refused
  ELSE LET rows == SelectSeq(file.lines, LAMBDA l : l.kind = "row")
       IN Read([i \in DOMAIN rows |-> JsonlRow(rows[i], c)], <<>>)

-----------------------------------------------------------------------------
(* CSV under a mapping.  A cell is what stands there and what it reads as,  *)
(* a number or a truth value.                                               *)

Cell(txt, reads) == [txt |-> txt, reads |-> reads]
Empty == Cell("", None)

\* The cell under a header; the last one of those that are called the same.
Under(file, rec, col) ==
  LET at == {i \in DOMAIN file.headers : file.headers[i] = col}
  IN IF at = {} THEN None ELSE rec[CHOOSE i \in at : \A j \in at : j <= i]
OrEmpty(c) == IF c = None THEN Empty ELSE c

\* A column that is mapped twice is taken out of the row the first time.
Mapped(file, rec, cols, k) ==
  IF \E j \in 1..k - 1 : cols[j].column = cols[k].column THEN Empty
  ELSE OrEmpty(Under(file, rec, cols[k].column))

CsvObject(col, c) ==
  IF col.iri THEN Iri(IF col.prefix = None THEN <<c.txt>> ELSE <<col.prefix, c.txt>>)
  ELSE CASE col.datatype = "xsd:integer" /\ c.reads \in Int -> Num(c.reads)
         [] col.datatype = "xsd:boolean" /\ c.reads \in BOOLEAN -> [bool |-> c.reads, dt |-> col.datatype]
         [] OTHER -> Text(<<c.txt>>, IF col.datatype = None THEN "xsd:string" ELSE col.datatype)

\* render_template: its parts are texts and column names.
CsvSubject(file, rec, subj) ==
  IF "template" \in DOMAIN subj
  THEN [i \in DOMAIN subj.template |->
          IF "column" \in DOMAIN subj.template[i]
          THEN OrEmpty(Under(file, rec, subj.template[i].column)).txt ELSE subj.template[i].txt]
  ELSE (IF subj.prefix = None THEN <<>> ELSE <<subj.prefix>>) \o <<Under(file, rec, subj.column).txt>>

CsvRow(file, rec, m, c) ==
  LET cols == m.columns
      skipped(k) == m.skipBlank /\ Mapped(file, rec, cols, k) = Empty
      row == [k \in DOMAIN cols |->
                IF skipped(k) THEN <<>>
                ELSE <<In(c, CsvSubject(file, rec, m.subject), cols[k].predicate,
                          CsvObject(cols[k], Mapped(file, rec, cols, k)))>>]
  IN IF "column" \in DOMAIN m.subject /\ m.skipBlank /\ Under(file, rec, m.subject.column) = Empty
     THEN <<>> ELSE FlattenSeq(row)

\* A record of another width, or no column for the subject, refuses the file.
ReadCsv(file, c) ==
  LET m == file.mapping
      noSubject == "column" \in DOMAIN m.subject /\ m.subject.column \notin Range(file.headers)
  IN IF \E i \in DOMAIN file.records : noSubject \/ Len(file.records[i]) # Len(file.headers) THEN Refused
     ELSE Read(ForEach(file.records, LAMBDA rec : CsvRow(file, rec, m, c)), <<>>)

-----------------------------------------------------------------------------
(* JSON: an object is the sequence of its members.                          *)

Str(v) == [j |-> "str", v |-> v]
Int64(n) == [j |-> "int", v |-> n]
Decimal(v) == [j |-> "dec", v |-> v]
Bool(b) == [j |-> "bool", v |-> b]
Null == [j |-> "null"]
Arr(items) == [j |-> "arr", items |-> items]
Obj(members) == [j |-> "obj", members |-> members]

Member(o, key) ==
  LET at == {i \in DOMAIN o.members : o.members[i][1] = key}
  IN IF at = {} THEN None ELSE o.members[CHOOSE i \in at : TRUE][2]
IsStr(v) == v # None /\ v.j = "str"

\* The literal a scalar becomes.
Scalar(v) ==
  CASE v.j = "str" -> Text(v.v, "xsd:string")
    [] v.j = "int" -> Num(v.v)
    [] v.j = "dec" -> [dec |-> v.v, dt |-> "xsd:decimal"]
    [] v.j = "bool" -> [bool |-> v.v, dt |-> "xsd:boolean"]

\* Property graphs: a node's labels and properties; an edge is a node of its own.
RECURSIVE PushValue(_, _, _, _)
PushValue(c, s, p, v) ==
  CASE v.j = "null" -> <<>>
    [] v.j = "arr" -> ForEach(v.items, LAMBDA x : PushValue(c, s, p, x))
    [] v.j = "obj" -> <<In(c, s, p, [json |-> v, dt |-> "donto:json"])>>
    [] OTHER -> <<In(c, s, p, Scalar(v))>>

Ex(i) == <<"ex:", i>>
Props(c, s, props) == ForEach(props, LAMBDA kv : PushValue(c, s, Ex(kv[1]), kv[2]))

ReadPropertyGraph(file, c) ==
  Read(ForEach(file.nodes, LAMBDA n :
         [i \in DOMAIN n.labels |-> In(c, Ex(n.id), RdfType, Iri(Ex(n.labels[i])))] \o Props(c, Ex(n.id), n.props))
       \o ForEach(file.edges, LAMBDA e :
         <<In(c, <<"ex:", "edge/", e.id>>, RdfType, Iri(Ex(e.type))),
           In(c, <<"ex:", "edge/", e.id>>, Ex("from"), Iri(Ex(e.from))),
           In(c, <<"ex:", "edge/", e.id>>, Ex("to"), Iri(Ex(e.to)))>>
         \o Props(c, <<"ex:", "edge/", e.id>>, e.props)), <<>>)

-----------------------------------------------------------------------------
(* JSON-LD: a subject and, nested in it, others.  A node without @id gets a *)
(* new name: the run that reads it and where it stands.                     *)

Expand(cx, i) == IF Len(i) = 3 /\ i[1] \in DOMAIN cx.prefixes THEN <<cx.prefixes[i[1]], i[3]>> ELSE i

Resolved(cx, i) == IF cx.base = None \/ i[1] = "_" THEN i ELSE <<cx.base>> \o i

Types(cx, t) ==
  IF t = None THEN <<>>
  ELSE IF t.j = "arr" THEN SelectSeq(t.items, IsStr)
  ELSE SelectSeq(<<t>>, IsStr)

TypedLiteral(cx, v) ==
  LET t == Member(v, <<"@type">>)
      lang == Member(v, <<"@language">>)
  IN [value |-> Member(v, <<"@value">>), dt |-> IF IsStr(t) THEN Expand(cx, t.v) ELSE <<"xsd:string">>,
      lang |-> IF IsStr(lang) THEN lang.v ELSE None]

RECURSIVE ParseSubject(_, _, _, _), EmitValue(_, _, _, _, _, _)
ParseSubject(cx, c, o, fresh) ==
  LET id == Member(o, <<"@id">>)
      s == Resolved(cx, IF IsStr(id) THEN Expand(cx, id.v) ELSE fresh)
      types == Types(cx, Member(o, <<"@type">>))
      member(i) == IF o.members[i][1][1] \in {"@id", "@type", "@context", "@graph", "@value", "@language"} THEN <<>>
                   ELSE EmitValue(cx, c, s, Expand(cx, o.members[i][1]), o.members[i][2], Append(fresh, i))
  IN [i \in DOMAIN types |-> In(c, s, RdfType, Iri(Expand(cx, types[i].v)))]
     \o FlattenSeq([i \in DOMAIN o.members |-> member(i)])
EmitValue(cx, c, s, p, v, fresh) ==
  CASE v.j = "null" -> <<>>
    [] v.j = "arr" -> FlattenSeq([i \in DOMAIN v.items |-> EmitValue(cx, c, s, p, v.items[i], Append(fresh, i))])
    [] v.j = "obj" /\ IsStr(Member(v, <<"@id">>)) -> <<In(c, s, p, Iri(Expand(cx, Member(v, <<"@id">>).v)))>>
    [] v.j = "obj" /\ ~IsStr(Member(v, <<"@id">>)) /\ Member(v, <<"@value">>) # None ->
         <<In(c, s, p, TypedLiteral(cx, v))>>
    [] v.j = "obj" /\ ~IsStr(Member(v, <<"@id">>)) /\ Member(v, <<"@value">>) = None ->
         ParseSubject(cx, c, v, fresh) \o <<In(c, s, p, Iri(fresh))>>
    [] OTHER -> <<In(c, s, p, Scalar(v))>>

\* absorb_context: prefixes, the base, and nothing that is not a string.
Absorb(cx, o) ==
  LET m == Member(o, <<"@context">>)
      strs == IF m = None THEN <<>> ELSE SelectSeq(m.members, LAMBDA kv : kv[2].j = "str")
      names == {kv[1][1] : kv \in Range(strs)} \ {"@base"}
      of(n) == (CHOOSE kv \in Range(strs) : kv[1][1] = n)[2].v[1]
  IN [prefixes |-> [n \in DOMAIN cx.prefixes \cup names |-> IF n \in names THEN of(n) ELSE cx.prefixes[n]],
      base |-> IF \E kv \in Range(strs) : kv[1][1] = "@base" THEN of("@base") ELSE cx.base]

\* parse_value: subjects of the top level, of arrays and of a @graph; what is
\* neither an object nor an array there refuses the file.
RECURSIVE Subjects(_, _, _)
Subjects(cx, v, fresh) ==
  LET g == Member(v, <<"@graph">>)
  IN CASE v.j = "arr" -> FlattenSeq([i \in DOMAIN v.items |-> Subjects(cx, v.items[i], Append(fresh, i))])
       [] v.j = "obj" ->
            IF g = None THEN <<[cx |-> Absorb(cx, v), node |-> v, fresh |-> fresh]>>
            ELSE IF g.j = "arr"
            THEN [i \in DOMAIN g.items |-> [cx |-> Absorb(cx, v), node |-> g.items[i], fresh |-> Append(fresh, i)]]
            ELSE <<[cx |-> Absorb(cx, v), node |-> g, fresh |-> Append(fresh, 1)]>>
       [] OTHER -> <<[cx |-> cx, node |-> v, fresh |-> fresh]>>

ReadJsonLd(file, c, run) ==
  LET subjects == Subjects([prefixes |-> <<>>, base |-> None], file.value, <<"_", ":", run>>)
  IN IF \E i \in DOMAIN subjects : subjects[i].node.j # "obj" THEN Refused
     ELSE Read(ForEach(subjects, LAMBDA x : ParseSubject(x.cx, c, x.node, x.fresh)), <<>>)

-----------------------------------------------------------------------------
(* POST /assert/batch: each statement has one object and a known polarity,  *)
(* or none is asserted.                                                     *)

ReadRequest(file) ==
  LET good(r) == (r.objectIri = None) # (r.objectLit = None) /\ r.polarity \in Polarities
      asked(r) == [In(r.context, r.subject, r.predicate, IF r.objectIri = None THEN r.objectLit ELSE Iri(r.objectIri))
                     EXCEPT !.polarity = r.polarity, !.maturity = r.maturity, !.valid = r.valid]
  IN IF \E i \in DOMAIN file.statements : ~good(file.statements[i]) THEN Refused
     ELSE Read([i \in DOMAIN file.statements |-> asked(file.statements[i])], <<>>)
=============================================================================
