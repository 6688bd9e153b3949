----------------------------- MODULE LingFormats -----------------------------
(***************************************************************************)
(* The readers of packages/donto-ling-*: what each makes of a dataset, as   *)
(* its statements in their order and the losses it reports, or that it      *)
(* refuses the dataset.  IRIs and texts are sequences of their parts.       *)
(***************************************************************************)
EXTENDS IngestFormats

String(t) == Text(t, "xsd:string")
Said(c, s, p, v) == IF v = None THEN <<>> ELSE <<In(c, s, p, v)>>
OrNone(v, F(_)) == IF v = None THEN None ELSE F(v)
Instance(c, s, class) == In(c, s, RdfType, Iri(<<class>>))

\* iri_safe: what an IRI may not hold becomes an underscore.
Safe(t, unsafe) == [i \in DOMAIN t |-> IF t[i] \in unsafe THEN "_" ELSE t[i]]

\* A BTreeMap; its keys stand in the order they were first met, not sorted.
Put(m, k, v) ==
  IF \E i \in DOMAIN m : m[i][1] = k THEN [i \in DOMAIN m |-> IF m[i][1] = k THEN <<k, v>> ELSE m[i]]
  ELSE Append(m, <<k, v>>)
Each(m, c, s, p) == [i \in DOMAIN m |-> In(c, s, <<p, m[i][1]>>, String(m[i][2]))]

-----------------------------------------------------------------------------
(* CLDF: tables of rows, in the order of the metadata.  A cell that is not  *)
(* in the table's header is not in the row's domain; an empty one is <<>>.  *)

Canonical == {"LanguageTable", "ParameterTable", "CodeTable", "ValueTable"}

Prefix(d) ==
  IF d.identifier # None THEN <<d.identifier, "/">>
  ELSE IF d.title # None THEN <<"cldf:", d.title, "/">> ELSE <<"cldf:">>

CellOf(row, col) == IF col \in DOMAIN row THEN row[col] ELSE None
OrBlank(v) == IF v = None THEN <<>> ELSE v

\* Rows without an ID are dropped and not reported.
RowsOf(d, kind, i) ==
  IF d.tables[i].kind = kind /\ d.tables[i].found
  THEN SelectSeq(d.tables[i].rows, LAMBDA r : OrBlank(CellOf(r, "ID")) # <<>>) ELSE <<>>

\* Whether one of the first n tables has the row.
Known(d, kind, n, id) == \E i \in 1..n : \E r \in Range(RowsOf(d, kind, i)) : r.ID = id

EntityIri(d, sort, id) == Prefix(d) \o <<sort>> \o id

Language(d, c, r) ==
  LET s == EntityIri(d, "lang/", r.ID)
  IN <<Instance(c, s, "ling:Language")>>
     \o Said(c, s, <<"ling:name">>, OrNone(CellOf(r, "Name"), String))
     \o Said(c, s, <<"ling:glottocode">>, OrNone(CellOf(r, "Glottocode"), String))

\* A code is tied to a parameter of a table before its own.
Code(d, c, i, r) ==
  LET s == EntityIri(d, "code/", r.ID)
      p == CellOf(r, "Parameter_ID")
  IN <<Instance(c, s, "ling:Code")>>
     \o (IF p # None /\ Known(d, "ParameterTable", i - 1, p)
         THEN <<In(c, s, <<"ling:codeFor">>, Iri(EntityIri(d, "param/", p)))>> ELSE <<>>)
     \o Said(c, s, <<"ling:name">>, OrNone(CellOf(r, "Name"), String))

WhyLost(d, r) ==
  LET n == Len(d.tables)
  IN IF ~Known(d, "LanguageTable", n, OrBlank(CellOf(r, "Language_ID"))) THEN "language"
     ELSE IF ~Known(d, "ParameterTable", n, OrBlank(CellOf(r, "Parameter_ID"))) THEN "parameter"
     ELSE IF CellOf(r, "Value") = None THEN "value" ELSE None

Value(d, c, r) ==
  IF WhyLost(d, r) # None THEN <<>>
  ELSE <<In(c, EntityIri(d, "lang/", r.Language_ID), EntityIri(d, "param/", r.Parameter_ID),
            IF Known(d, "CodeTable", Len(d.tables), r.Value) THEN Iri(EntityIri(d, "code/", r.Value))
            ELSE String(r.Value))>>

ReadCldf(d, c) ==
  LET all(kind, F(_, _)) ==
        FlattenSeq([i \in DOMAIN d.tables |-> ForEach(RowsOf(d, kind, i), LAMBDA r : F(i, r))])
      lost == all("ValueTable", LAMBDA i, r : IF WhyLost(d, r) = None THEN <<>> ELSE <<<<WhyLost(d, r)>> \o r.ID>>)
      others == SelectSeq(d.tables, LAMBDA t : t.kind \notin Canonical)
  IN IF \E t \in Range(d.tables) : t.kind \in Canonical /\ t.found /\ ~t.wellFormed THEN Refused
     ELSE Read(all("LanguageTable", LAMBDA i, r : Language(d, c, r)) \o all("CodeTable", LAMBDA i, r : Code(d, c, i, r))
                 \o all("ValueTable", LAMBDA i, r : Value(d, c, r)),
               lost \o [i \in DOMAIN others |-> <<"table", others[i].kind>>])

-----------------------------------------------------------------------------
(* CoNLL-U: a line is blank, a comment, a token, or malformed.              *)

NoSentence == [id |-> None, text |-> None, tokens |-> <<>>, ranges |-> <<>>, empties |-> <<>>]

\* A key is recognised by how it starts; the rest of it goes into the value.
CommentValue(l) == IF Len(l.key) = 1 THEN l.value ELSE Tail(l.key) \o <<" = ">> \o l.value

UdLine(st, l) ==
  LET cur == st.cur
      into(s) == [st EXCEPT !.cur = s, !.has = TRUE]
  IN CASE l.line = "blank" ->
            IF st.has THEN [st EXCEPT !.done = Append(@, cur), !.cur = NoSentence, !.has = FALSE] ELSE st
       [] l.line = "comment" ->
            IF l.key[1] = "sent_id" THEN into([cur EXCEPT !.id = CommentValue(l)])
            ELSE IF l.key[1] = "text" THEN into([cur EXCEPT !.text = CommentValue(l)])
            ELSE [st EXCEPT !.losses = Append(@, <<"comment">> \o l.key)]
       [] l.line = "token" ->
            CASE l.shape = "range" -> into([cur EXCEPT !.ranges = Append(@, l.id)])
              [] l.shape = "empty" -> into([cur EXCEPT !.empties = Append(@, l.id)])
              [] OTHER -> [into([cur EXCEPT !.tokens = Append(@, l)]) EXCEPT
                  !.losses = @ \o ForEach(l.feats, LAMBDA f : IF Len(f) = 1 THEN <<<<"feats", f[1]>>>> ELSE <<>>)]

\* The sentences of the lines; the last one needs no blank line after it.
Sentences(lines) ==
  UdLine(FoldLeft(UdLine, [done |-> <<>>, cur |-> NoSentence, has |-> FALSE, losses |-> <<>>], lines),
         [line |-> "blank"])

TokenIri(sent, id) == <<"ud:tok/">> \o sent \o <<"/", id>>

UdToken(c, sent, t) ==
  LET s == TokenIri(sent, t.id)
      pairs == SelectSeq(t.feats, LAMBDA f : Len(f) = 2)
      feats == FoldLeft(LAMBDA m, f : Put(m, f[1], <<f[2]>>), <<>>, pairs)
      misc == SelectSeq(t.misc, LAMBDA f : Len(f) = 2)
  IN <<Instance(c, s, "ud:Token"), In(c, <<"ud:sent/">> \o sent, <<"ud:hasToken">>, Iri(s))>>
     \o Said(c, s, <<"ud:form">>, OrNone(t.form, String))
     \o Said(c, s, <<"ud:lemma">>, OrNone(t.lemma, String))
     \o Said(c, s, <<"ud:upos">>, OrNone(t.upos, LAMBDA v : Iri(<<"upos:">> \o v)))
     \o Said(c, s, <<"ud:xpos">>, OrNone(t.xpos, String))
     \o Each(feats, c, s, "ud:feat:")
     \o (IF t.head = "0" THEN <<In(c, s, <<"ud:isRoot">>, String(<<"true">>))>>
         ELSE Said(c, s, <<"ud:head">>, OrNone(t.head, LAMBDA v : Iri(TokenIri(sent, v)))))
     \o Said(c, s, <<"ud:deprel">>, OrNone(t.deprel, LAMBDA v : Iri(<<"udrel:">> \o v)))
     \o [i \in DOMAIN misc |-> In(c, s, <<"ud:misc_", misc[i][1]>>, String(<<misc[i][2]>>))]

UdLosses(sent, x) ==
  ForEach(x.tokens, LAMBDA t : (IF t.deps THEN <<<<"deps", t.id>>>> ELSE <<>>)
                                 \o ForEach(t.misc, LAMBDA f : IF Len(f) = 1 THEN <<<<"misc", f[1]>>>> ELSE <<>>))
  \o [i \in DOMAIN x.ranges |-> <<"range", x.ranges[i]>>]
  \o [i \in DOMAIN x.empties |-> <<"empty node", x.empties[i]>>]

ReadUd(file, c) ==
  IF \E l \in Range(file.lines) : l.line = "malformed" THEN Refused
  ELSE LET st == Sentences(file.lines)
           local(i) == IF st.done[i].id = None THEN <<"autogen-", i - 1>> ELSE st.done[i].id
           sentence(i) == LET s == <<"ud:sent/">> \o local(i)
                          IN <<Instance(c, s, "ud:Sentence")>>
                             \o Said(c, s, <<"ud:text">>, OrNone(st.done[i].text, String))
                             \o ForEach(st.done[i].tokens, LAMBDA t : UdToken(c, local(i), t))
       IN Read(FlattenSeq([i \in DOMAIN st.done |-> sentence(i)]),
               st.losses \o FlattenSeq([i \in DOMAIN st.done |-> UdLosses(local(i), st.done[i])]))

-----------------------------------------------------------------------------
(* UniMorph: a lemma, a form and its tags on a line.                        *)

Inside == {" ", ".", "/"}

ReadUniMorph(file, c) ==
  LET full(l) == l.line = "row" /\ l.lemma # <<>> /\ l.form # <<>>
      rows == SelectSeq(file.lines, full)
      root == <<"unimorph:", file.language>>
      lexeme(r) == root \o <<"/lex/">> \o Safe(r.lemma, Inside)
      form(i) == root \o <<"/form/">> \o Safe(rows[i].lemma, Inside) \o <<"/", i - 1>>
      first(i) == \A j \in 1..i - 1 : rows[j].lemma # rows[i].lemma
      tags(i) == SelectSeq(rows[i].tags, LAMBDA t : t # "")
      stmts(i) ==
        (IF first(i) THEN <<Instance(c, lexeme(rows[i]), "unimorph:Lexeme"),
                            In(c, lexeme(rows[i]), <<"unimorph:citationForm">>, String(rows[i].lemma))>> ELSE <<>>)
        \o <<Instance(c, form(i), "unimorph:WordForm"),
             In(c, form(i), <<"unimorph:lemma">>, Iri(lexeme(rows[i]))),
             In(c, form(i), <<"unimorph:surface">>, String(rows[i].form))>>
        \o [k \in DOMAIN tags(i) |-> In(c, form(i), <<"unimorph:hasTag">>, Iri(<<"unimorph:tag/", tags(i)[k]>>))]
      lost(l) == IF l.line # "row" THEN <<>>
                 ELSE IF ~full(l) THEN <<<<"row">>>>
                 ELSE ForEach(l.tags, LAMBDA t : IF t = "" THEN <<<<"tag">>>> ELSE <<>>)
  IN IF \E l \in Range(file.lines) : l.line = "malformed" THEN Refused
     ELSE Read(FlattenSeq([i \in DOMAIN rows |-> stmts(i)]), ForEach(file.lines, lost))

-----------------------------------------------------------------------------
(* The events of an XML reader, for LIFT and EAF.                           *)

Open(name, attrs) == [ev |-> "start", name |-> name, attrs |-> attrs]
SelfClosed(name, attrs) == [ev |-> "empty", name |-> name, attrs |-> attrs]
Chars(t) == [ev |-> "text", text |-> t]
Close(name) == [ev |-> "end", name |-> name]
BadXml == [ev |-> "error"]

Attr(e, a) == IF a \in DOMAIN e.attrs THEN e.attrs[a] ELSE None

-----------------------------------------------------------------------------
(* LIFT: the open entry and sense, and the path of open elements.           *)

LiftElements == {"lift", "header", "entry", "sense", "lexical-unit", "form", "text", "gloss", "definition", "grammatical-info"}

NoEntry(id) == [id |-> id, forms |-> <<>>, senses |-> <<>>]
NoSense(id) == [id |-> id, glosses |-> <<>>, definitions |-> <<>>, grammar |-> None]

Grammar(st, e) ==
  IF st.sense # None /\ Attr(e, "value") # None THEN [st EXCEPT !.sense.grammar = Attr(e, "value")] ELSE st

LiftOpen(st, e) ==
  LET id == OrBlank(Attr(e, "id"))
      default == (IF st.entry = None THEN <<>> ELSE st.entry.id)
                 \o <<"-sense-", IF st.entry = None THEN "0" ELSE ToString(Len(st.entry.senses))>>
      opened ==
        CASE e.name = "entry" /\ id # <<>> -> [st EXCEPT !.entry = NoEntry(id)]
          [] e.name = "entry" /\ id = <<>> ->
               [st EXCEPT !.entry = NoEntry(<<"anon-", ToString(Len(st.entries))>>), !.losses = Append(@, <<"entry">>)]
          [] e.name = "sense" -> [st EXCEPT !.sense = NoSense(IF id = <<>> THEN default ELSE id)]
          [] e.name \in {"form", "gloss", "definition"} -> [st EXCEPT !.lang = Attr(e, "lang")]
          [] e.name = "grammatical-info" -> Grammar(st, e)
          [] OTHER -> IF st.entry # None /\ e.name \notin LiftElements
                      THEN [st EXCEPT !.losses = Append(@, <<"element", e.name>>)] ELSE st
  IN [opened EXCEPT !.path = <<e.name>> \o @]

\* What the text is of is told by the element it stands in and those around.
LiftText(st, e) ==
  LET lang == IF st.lang = None THEN "und" ELSE st.lang
      inside(p) == Len(st.path) >= Len(p) /\ SubSeq(st.path, 1, Len(p)) = p
      form == inside(<<"text", "form", "lexical-unit">>)
      definition == inside(<<"text", "form", "definition">>) \/ inside(<<"text", "definition">>)
      gloss == inside(<<"text", "gloss">>) \/ inside(<<"gloss">>)
  IN IF form /\ st.entry # None THEN [st EXCEPT !.entry.forms = Put(@, lang, e.text)]
     ELSE IF definition /\ st.sense # None THEN [st EXCEPT !.sense.definitions = Put(@, lang, e.text)]
     ELSE IF gloss /\ st.sense # None THEN [st EXCEPT !.sense.glosses = Put(@, lang, e.text)]
     ELSE st

LiftClose(st, e) ==
  LET closed ==
        CASE e.name = "entry" /\ st.entry # None ->
               [st EXCEPT !.entries = Append(@, st.entry), !.entry = None]
          [] e.name = "sense" /\ st.sense # None ->
               IF st.entry = None THEN [st EXCEPT !.sense = None]
               ELSE [st EXCEPT !.entry.senses = Append(@, st.sense), !.sense = None]
          [] e.name \in {"form", "gloss", "definition"} -> [st EXCEPT !.lang = None]
          [] OTHER -> st
  IN [closed EXCEPT !.path = Tail(@)]

LiftEvent(st, e) ==
  CASE e.ev = "start" -> LiftOpen(st, e)
    [] e.ev = "empty" -> IF e.name = "grammatical-info" THEN Grammar(st, e) ELSE st
    [] e.ev = "text" -> LiftText(st, e)
    [] e.ev = "end" -> LiftClose(st, e)

LiftSense(c, entry, x) ==
  LET s == <<"lift:sense/">> \o Safe(x.id, {" "})
  IN <<In(c, entry, <<"lift:hasSense">>, Iri(s)), Instance(c, s, "lift:Sense")>>
     \o Each(x.glosses, c, s, "lift:gloss/") \o Each(x.definitions, c, s, "lift:definition/")
     \o Said(c, s, <<"lift:grammaticalCategory">>, OrNone(x.grammar, String))

ReadLift(file, c) ==
  IF \E e \in Range(file.events) : e.ev = "error" THEN Refused
  ELSE LET st == FoldLeft(LiftEvent, [entries |-> <<>>, entry |-> None, sense |-> None, lang |-> None,
                                      path |-> <<>>, losses |-> <<>>], file.events)
           entry(x) == LET s == <<"lift:entry/">> \o Safe(x.id, {" "})
                       IN <<Instance(c, s, "lift:Entry")>> \o Each(x.forms, c, s, "lift:form/")
                          \o ForEach(x.senses, LAMBDA y : LiftSense(c, s, y))
       IN Read(ForEach(st.entries, entry), st.losses)

-----------------------------------------------------------------------------
(* EAF: time slots, and annotations in tiers.                               *)

Unrepresented == {"LINGUISTIC_TYPE", "LOCALE", "LANGUAGE", "CONSTRAINT", "CONTROLLED_VOCABULARY", "LICENSE"}

At(st, slot) == IF slot \in DOMAIN st.slots THEN st.slots[slot] ELSE None
Annotation(st, e) ==
  IF e.name = "ALIGNABLE_ANNOTATION"
  THEN [id |-> Attr(e, "ANNOTATION_ID"), class |-> "eaf:AlignableAnnotation", value |-> None,
        start |-> At(st, Attr(e, "TIME_SLOT_REF1")), end |-> At(st, Attr(e, "TIME_SLOT_REF2")), refersTo |-> None]
  ELSE [id |-> Attr(e, "ANNOTATION_ID"), class |-> "eaf:RefAnnotation", value |-> None,
        start |-> None, end |-> None, refersTo |-> Attr(e, "ANNOTATION_REF")]

EafOpen(st, e) ==
  CASE e.name = "TIER" ->
         IF OrBlank(Attr(e, "TIER_ID")) = <<>> THEN [st EXCEPT !.losses = Append(@, <<"tier">>)]
         ELSE [st EXCEPT !.tier = [id |-> Attr(e, "TIER_ID"), participant |-> Attr(e, "PARTICIPANT"), annotations |-> <<>>]]
    [] e.name \in {"ALIGNABLE_ANNOTATION", "REF_ANNOTATION"} -> [st EXCEPT !.ann = Annotation(st, e)]
    [] e.name = "ANNOTATION_VALUE" -> [st EXCEPT !.inText = TRUE, !.value = <<>>]
    [] OTHER -> st

EafEmpty(st, e) ==
  CASE e.name = "TIME_SLOT" /\ Attr(e, "TIME_VALUE") # None ->
         [st EXCEPT !.slots = [x \in DOMAIN @ \cup {Attr(e, "TIME_SLOT_ID")} |->
                                 IF x = Attr(e, "TIME_SLOT_ID") THEN Attr(e, "TIME_VALUE") ELSE @[x]]]
    [] e.name = "MEDIA_DESCRIPTOR" ->
         [st EXCEPT !.media = @ \o ForEach(<<"MEDIA_URL", "RELATIVE_MEDIA_URL">>, LAMBDA a :
                                   IF OrBlank(Attr(e, a)) = <<>> THEN <<>> ELSE <<Attr(e, a)>>)]
    [] e.name \in Unrepresented -> [st EXCEPT !.losses = Append(@, <<"element", e.name>>)]
    [] OTHER -> st

\* An annotation that ends outside a tier is dropped.
EafClose(st, e) ==
  CASE e.name = "ANNOTATION_VALUE" ->
         IF st.ann # None /\ st.value # <<>>
         THEN [st EXCEPT !.inText = FALSE, !.ann.value = st.value, !.value = <<>>]
         ELSE [st EXCEPT !.inText = FALSE]
    [] e.name \in {"ALIGNABLE_ANNOTATION", "REF_ANNOTATION"} ->
         IF st.ann # None /\ st.tier # None
         THEN [st EXCEPT !.tier.annotations = Append(@, st.ann), !.ann = None]
         ELSE [st EXCEPT !.ann = None]
    [] e.name = "TIER" /\ st.tier # None -> [st EXCEPT !.tiers = Append(@, st.tier), !.tier = None]
    [] OTHER -> st

EafEvent(st, e) ==
  CASE e.ev = "start" -> EafOpen(st, e)
    [] e.ev = "empty" -> EafEmpty(st, e)
    [] e.ev = "text" -> IF st.inText THEN [st EXCEPT !.value = @ \o e.text] ELSE st
    [] e.ev = "end" -> EafClose(st, e)

EafAnnotation(c, tier, a) ==
  LET named(id) == <<"eaf:ann/">> \o Safe(OrBlank(id), {" "})
      s == named(a.id)
  IN <<Instance(c, s, a.class), In(c, tier, <<"eaf:hasAnnotation">>, Iri(s))>>
     \o Said(c, s, <<"eaf:value">>, OrNone(a.value, String))
     \o Said(c, s, <<"eaf:startMs">>, OrNone(a.start, Num)) \o Said(c, s, <<"eaf:endMs">>, OrNone(a.end, Num))
     \o Said(c, s, <<"eaf:refersTo">>, OrNone(a.refersTo, LAMBDA v : Iri(named(v))))

\* Tiers and annotations are named apart from the document they are in.
ReadEaf(file, c) ==
  IF \E e \in Range(file.events) : e.ev = "error" THEN Refused
  ELSE LET doc == <<"eaf:doc/">> \o Safe(file.stem, {" "})
           st == FoldLeft(EafEvent, [tiers |-> <<>>, tier |-> None, ann |-> None, inText |-> FALSE, value |-> <<>>,
                                     slots |-> <<>>, media |-> <<>>, losses |-> <<>>], file.events)
           tier(t) == LET s == <<"eaf:tier/">> \o Safe(t.id, {" "})
                      IN <<Instance(c, s, "eaf:Tier"), In(c, doc, <<"eaf:hasTier">>, Iri(s))>>
                         \o Said(c, s, <<"eaf:participant">>, OrNone(t.participant, String))
                         \o ForEach(t.annotations, LAMBDA a : EafAnnotation(c, s, a))
       IN Read(<<Instance(c, doc, "eaf:Document")>>
                 \o [i \in DOMAIN st.media |-> In(c, doc, <<"eaf:media">>, String(st.media[i]))]
                 \o ForEach(st.tiers, tier), st.losses)
=============================================================================
