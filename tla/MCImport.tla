------------------------------ MODULE MCImport ------------------------------
(* Files of every format, put together from pieces; of every piece is said  *)
(* which statements it means and how many losses it has.                    *)
EXTENDS Import

C == <<"ctx">>
D == <<"other">>
A == <<"a">>
B == <<"b">>
P == <<"p">>
Word == String(<<"w">>)
No == [p \in {} |-> None]

S(s, p, o) == In(C, s, p, o)
Type(s, c) == S(s, RdfType, Iri(c))
Lit(s, p, t) == S(s, <<p>>, String(t))
Ref(s, p, i) == S(s, <<p>>, Iri(i))

\* A piece of a file, and a file of them.
Piece(text, means, lost) == [text |-> text, means |-> means, lost |-> lost]
Of(format, means, lost, rest) == [format |-> format, ctx |-> C, contexts |-> <<>>, means |-> means, lost |-> lost] @@ rest
MeaningOf(ps) == UNION {p.means : p \in Range(ps)}
LostIn(ps) == FoldLeft(LAMBDA n, p : n + p.lost, 0, ps)
Texts(ps) == [i \in DOMAIN ps |-> ps[i].text]
Lists(pieces) == {<<>>} \cup {<<p>> : p \in pieces} \cup {pq \in pieces \X pieces : pq[1] # pq[2]}
Files(format, pieces, Rest(_)) == {Of(format, MeaningOf(ps), LostIn(ps), Rest(Texts(ps))) : ps \in Lists(pieces)}

-----------------------------------------------------------------------------
Quad(s, o, g) == [s |-> s, p |-> P, o |-> o, g |-> g]
Quads ==
  { Piece(Quad(Named(A), Named(B), None), {S(A, P, Iri(B))}, 0),
    Piece(Quad(Named(A), Named(B), Named(D)), {In(D, A, P, Iri(B))}, 0),
    Piece(Quad(Blank("x"), Word, Blank("g")), {In(<<"_:", "g">>, <<"_:", "x">>, P, Word)}, 0) }
RdfFiles ==
  Files("rdf", Quads, LAMBDA t : [wellFormed |-> TRUE, quads |-> t])
  \cup { Of("rdf", None, 0, [wellFormed |-> TRUE, quads |-> <<Quad(Named(A), Word, None), Quad(Quoted, Word, None)>>]),
         Of("rdf", None, 0, [wellFormed |-> FALSE, quads |-> <<>>]) }

Row(c, pol, maturity, valid) ==
  [kind |-> "row", s |-> A, p |-> P, o |-> Iri(B), c |-> c, pol |-> pol, maturity |-> maturity, valid |-> valid]
Lines ==
  { Piece(Row(None, "negated", 0, Always), {[S(A, P, Iri(B)) EXCEPT !.polarity = "negated"]}, 0),
    Piece(Row(D, "sure", 2, <<10, 20>>), {[In(D, A, P, Iri(B)) EXCEPT !.maturity = 2, !.valid = <<10, 20>>]}, 0),
    Piece([kind |-> "comment"], {}, 0) }
JsonlFiles ==
  Files("jsonl", Lines, LAMBDA t : [lines |-> t])
  \cup { Of("jsonl", None, 0, [lines |-> <<Row(None, None, 0, Always), [kind |-> "malformed"]>>]),
         Of("jsonl", None, 0, [lines |-> <<Row(None, None, 0, Always), Row(None, None, 0, <<20, 10>>)>>]),
         [Of("jsonl", None, 0, [lines |-> <<Row(None, None, 0, Always)>>])
            EXCEPT !.contexts = (C :> [kind |-> "custom", mode |-> "curated", parent |-> None])] }

Column(name, iri, dt) == [column |-> name, predicate |-> <<name>>, iri |-> iri, prefix |-> None, datatype |-> dt]
CsvFile(subject, records, means) ==
  Of("csv", means, 0,
     [mapping |-> [subject |-> subject, skipBlank |-> TRUE,
                   columns |-> <<Column("n", FALSE, "xsd:integer"), Column("of", TRUE, None)>>],
      headers |-> <<"id", "n", "of">>, records |-> records])
ById == [column |-> "id", prefix |-> "ex:"]
CsvFiles ==
  { CsvFile(ById, <<<<Cell("1", 1), Cell("5", 5), Cell("a", None)>>, <<Empty, Cell("6", 6), Empty>>>>,
            {S(<<"ex:", "1">>, <<"n">>, Num(5)), S(<<"ex:", "1">>, <<"of">>, Iri(A))}),
    CsvFile([template |-> <<[txt |-> "row/"], [column |-> "id"]>>], <<<<Empty, Cell("six", None), Empty>>>>,
            {S(<<"row/", "">>, <<"n">>, Text(<<"six">>, "xsd:integer"))}),
    CsvFile(ById, <<<<Cell("1", 1), Cell("5", 5)>>>>, None),
    CsvFile([column |-> "name", prefix |-> None], <<<<Cell("1", 1), Cell("5", 5), Empty>>>>, None),
    Of("csv", None, 0, [mapping |-> None]) }

Node1 == [id |-> "1", labels |-> <<"Dog">>, props |-> <<<<"age", Arr(<<Int64(5), Null>>)>>, <<"name", Str(<<"w">>)>>>>]
Edge == [id |-> "7", type |-> "LIKES", from |-> "1", to |-> "2", props |-> <<<<"since", Obj(<<>>)>>>>]
E7 == <<"ex:", "edge/", "7">>
GraphFiles ==
  { Of("property graph",
       {Type(Ex("1"), Ex("Dog")), S(Ex("1"), Ex("age"), Num(5)), S(Ex("1"), Ex("name"), Word), Type(E7, Ex("LIKES")),
        S(E7, Ex("from"), Iri(Ex("1"))), S(E7, Ex("to"), Iri(Ex("2"))),
        S(E7, Ex("since"), [json |-> Obj(<<>>), dt |-> "donto:json"])},
       0, [nodes |-> <<Node1>>, edges |-> <<Edge>>]) }

Name3 == <<"ex", ":", "n">>
Context == <<<<"@context">>, Obj(<<<<<<"ex">>, Str(<<"http:ex/">>)>>, <<<<"@base">>, Str(<<"http:b/">>)>>, <<<<"t">>, Obj(<<>>)>>>>)>>
Inner == Obj(<<<<Name3, Bool(TRUE)>>>>)
Id(i) == <<<<"@id">>, Str(i)>>
JsonLdFile(v, means) == Of("jsonld", means, 0, [value |-> v])
N == <<"http:ex/", "n">>
JsonLdFiles ==
  { JsonLdFile(Obj(<<Context, Id(A), <<<<"@type">>, Arr(<<Str(Name3), Int64(5)>>)>>, <<Name3, Arr(<<Int64(5), Null, Obj(<<Id(Name3)>>)>>)>>>>),
               {Type(<<"http:b/", "a">>, N), S(<<"http:b/", "a">>, N, Num(5)), S(<<"http:b/", "a">>, N, Iri(N))}),
    JsonLdFile(Obj(<<Id(A), <<P, Obj(<<<<<<"@value">>, Str(<<"w">>)>>, <<<<"@language">>, Str("en")>>>>)>>, <<<<"q">>, Inner>>>>),
               {S(A, P, [value |-> Str(<<"w">>), dt |-> <<"xsd:string">>, lang |-> "en"]),
                S(<<"_", ":", 3>>, Name3, [bool |-> TRUE, dt |-> "xsd:boolean"]), S(A, <<"q">>, Iri(<<"_", ":", 3>>))}),
    JsonLdFile(Arr(<<Obj(<<<<<<"@graph">>, Arr(<<Inner, Obj(<<Id(A), <<P, Decimal("1.5")>>>>)>>)>>>>)>>),
               {S(<<"_", ":", 1, 1>>, Name3, [bool |-> TRUE, dt |-> "xsd:boolean"]), S(A, P, [dec |-> "1.5", dt |-> "xsd:decimal"])}),
    JsonLdFile(Arr(<<Obj(<<Id(A), <<P, Int64(5)>>>>), Str(<<"w">>)>>), None) }

Asked(o, l, pol) == [context |-> D, subject |-> A, predicate |-> P, objectIri |-> o, objectLit |-> l, polarity |-> pol,
                     maturity |-> 0, valid |-> Always]
RequestFiles ==
  { Of("request", {In(D, A, P, Iri(B)), In(D, A, P, Word)}, 0,
       [statements |-> <<Asked(B, None, "asserted"), Asked(None, Word, "asserted"), Asked(B, None, "asserted")>>]),
    Of("request", None, 0, [statements |-> <<Asked(B, None, "asserted"), Asked(B, Word, "asserted")>>]),
    Of("request", None, 0, [statements |-> <<Asked(B, None, "asserted"), Asked(None, Word, "sure")>>]) }
QuarantineFiles ==
  { Of("quarantine", {In(<<"ctx:quarantine/", "f", "_", "nt">>, A, P, Iri(B))}, 0,
       [source |-> <<"f", ".", "nt">>, stmts |-> <<S(A, P, Iri(B)), In(D, A, P, Iri(B))>>]) }

-----------------------------------------------------------------------------
Rows(kind, rows) == [kind |-> kind, found |-> TRUE, wellFormed |-> TRUE, rows |-> rows]
Value3(id, l, p, v) == [ID |-> <<id>>, Language_ID |-> l, Parameter_ID |-> p, Value |-> v]
Langs == Rows("LanguageTable", <<[ID |-> <<"en">>, Name |-> <<"English">>], [ID |-> <<>>]>>)
Params == Rows("ParameterTable", <<[ID |-> <<"wo">>, Name |-> <<"word order">>]>>)
Codes == Rows("CodeTable", <<[ID |-> <<"svo">>, Parameter_ID |-> <<"wo">>, Name |-> <<"SVO">>]>>)
X(sort, id) == <<"cldf:", sort, id>>
En == {Type(X("lang/", "en"), <<"ling:Language">>), Lit(X("lang/", "en"), "ling:name", <<"English">>)}
Svo == {Type(X("code/", "svo"), <<"ling:Code">>), Lit(X("code/", "svo"), "ling:name", <<"SVO">>)}
Values ==
  { Piece(Value3("1", <<"en">>, <<"wo">>, <<"svo">>), {S(X("lang/", "en"), X("param/", "wo"), Iri(X("code/", "svo")))}, 0),
    Piece(Value3("2", <<"en">>, <<"wo">>, <<"free">>), {Lit(X("lang/", "en"), "cldf:", <<"free">>)}, 0),
    Piece(Value3("3", <<"xx">>, <<"wo">>, <<"svo">>), {}, 1),
    Piece([ID |-> <<"4">>, Language_ID |-> <<"en">>, Parameter_ID |-> <<"wo">>], {}, 1),
    Piece([ID |-> <<"5">>, Language_ID |-> <<"en">>, Value |-> <<"svo">>], {}, 1) }
Cldf(tables, rest) ==
  rest @@ [found |-> TRUE, identifier |-> None, title |-> None, tables |-> tables, registerSource |-> FALSE, strict |-> FALSE]
Free(x) == IF x.p = <<"cldf:">> THEN [x EXCEPT !.p = X("param/", "wo")] ELSE x
CldfFile(ps, before, known, lost, rest) ==
  Of("cldf", {Free(x) : x \in MeaningOf(ps) \cup En \cup Svo \cup known}, LostIn(ps) + lost,
     Cldf(before \o <<Rows("ValueTable", Texts(ps))>>, rest))
CodeFor == {Ref(X("code/", "svo"), "ling:codeFor", X("param/", "wo"))}
CldfFiles ==
  {CldfFile(ps, <<Langs, Params, Codes>>, CodeFor, 0, <<>>) : ps \in Lists(Values)}
  \cup { CldfFile(<<>>, <<Langs, Codes, Params>>, {}, 0, <<>>),
         CldfFile(<<>>, <<Langs, Params, Codes, Rows("ExampleTable", <<>>)>>, CodeFor, 1, [strict |-> FALSE]),
         CldfFile(<<>>, <<Langs, Params, Codes>>, CodeFor, 1, [registerSource |-> TRUE]),
         Of("cldf", {}, 0, Cldf(<<>>, [title |-> "wals", registerSource |-> TRUE])),
         Of("cldf", {Type(<<"urn:d", "/", "lang/", "en">>, <<"ling:Language">>), Lit(<<"urn:d", "/", "lang/", "en">>, "ling:name", <<"English">>)},
            0, Cldf(<<Langs>>, [identifier |-> "urn:d"])),
         Of("cldf", None, 0, Cldf(<<>>, [found |-> FALSE])),
         Of("cldf", None, 0, Cldf(<<[Langs EXCEPT !.wellFormed = FALSE]>>, <<>>)) }

Comment(key, v) == [line |-> "comment", key |-> key, value |-> <<v>>]
BlankLine == [line |-> "blank"]
Token(id, rest) ==
  rest @@ [line |-> "token", shape |-> "word", id |-> id, form |-> None, lemma |-> None, upos |-> None, xpos |-> None, feats |-> <<>>,
           head |-> None, deprel |-> None, deps |-> FALSE, misc |-> <<>>]
Tok(s, id) == <<"ud:tok/", s, "/", id>>
Sent(s) == <<"ud:sent/", s>>
TokenOf(s, id) == {Type(Tok(s, id), <<"ud:Token">>), Ref(Sent(s), "ud:hasToken", Tok(s, id))}
Ten == [form |-> <<"dogs">>, lemma |-> <<"dog">>, upos |-> <<"NOUN">>, xpos |-> <<"NNS">>, head |-> "0", deprel |-> <<"root">>,
        feats |-> <<<<"Number", "Sing">>, <<"Odd">>, <<"Number", "Plur">>>>, misc |-> <<<<"SpaceAfter", "No">>, <<"x">>>>, deps |-> TRUE]
UdPieces ==
  { Piece(<<Comment(<<"text">>, "w")>>, {Lit(Sent("s1"), "ud:text", <<"w">>)}, 0),
    Piece(<<Comment(<<"newdoc">>, "w")>>, {}, 1),
    Piece(<<Token("1", Ten)>>, TokenOf("s1", "1") \cup
            {Lit(Tok("s1", "1"), "ud:form", <<"dogs">>), Lit(Tok("s1", "1"), "ud:lemma", <<"dog">>), Ref(Tok("s1", "1"), "ud:upos", <<"upos:", "NOUN">>),
             Lit(Tok("s1", "1"), "ud:xpos", <<"NNS">>), S(Tok("s1", "1"), <<"ud:feat:", "Number">>, String(<<"Plur">>)),
             Lit(Tok("s1", "1"), "ud:isRoot", <<"true">>), Ref(Tok("s1", "1"), "ud:deprel", <<"udrel:", "root">>),
             S(Tok("s1", "1"), <<"ud:misc_", "SpaceAfter">>, String(<<"No">>))}, 3),
    Piece(<<Token("2", [head |-> "1"])>>, TokenOf("s1", "2") \cup {Ref(Tok("s1", "2"), "ud:head", Tok("s1", "1"))}, 0),
    Piece(<<Token("1-2", [shape |-> "range"]), Token("2.1", [shape |-> "empty"])>>, {}, 2) }
S1 == Comment(<<"sent_id">>, "s1")
UdFiles ==
  Files("ud", UdPieces, LAMBDA t : [lines |-> <<S1>> \o FlattenSeq(t), strict |-> FALSE, more |-> {}])
UdWhole ==
  {[f EXCEPT !.means = @ \cup {Type(Sent("s1"), <<"ud:Sentence">>)}] : f \in UdFiles}
  \cup { Of("ud", None, 0, [lines |-> <<S1, [line |-> "malformed"]>>, strict |-> FALSE]),
         Of("ud", {Type(Sent("autogen-") \o <<0>>, <<"ud:Sentence">>), Type(Sent("s1"), <<"ud:Sentence">>),
                   Type(<<"ud:tok/", "autogen-", 0, "/", "1">>, <<"ud:Token">>),
                   Ref(Sent("autogen-") \o <<0>>, "ud:hasToken", <<"ud:tok/", "autogen-", 0, "/", "1">>)}, 0,
            [lines |-> <<BlankLine, Token("1", <<>>), BlankLine, BlankLine, S1, BlankLine>>, strict |-> FALSE]) }

Form(l, f, tags) == [line |-> "row", lemma |-> l, form |-> f, tags |-> tags]
Lex(l) == <<"unimorph:", "eng", "/lex/", l>>
WordForm(l, i) == <<"unimorph:", "eng", "/form/", l, "/", i>>
FormOf(l, i, f, tags) ==
  {Type(WordForm(l, i), <<"unimorph:WordForm">>), Ref(WordForm(l, i), "unimorph:lemma", Lex(l)), Lit(WordForm(l, i), "unimorph:surface", <<f>>)}
  \cup {Ref(WordForm(l, i), "unimorph:hasTag", <<"unimorph:tag/", t>>) : t \in tags}
LexOf(l) == {Type(Lex(l), <<"unimorph:Lexeme">>), Lit(Lex(l), "unimorph:citationForm", <<l>>)}
UniMorphFiles ==
  { Of("unimorph", LexOf("go") \cup LexOf("be") \cup FormOf("go", 0, "went", {"V"}) \cup FormOf("go", 1, "goes", {}) \cup FormOf("be", 2, "is", {"V"}), 2,
       [language |-> "eng", strict |-> FALSE,
        lines |-> <<Form(<<"go">>, <<"went">>, <<"V", "">>), Form(<<>>, <<"x">>, <<"V">>), Form(<<"go">>, <<"goes">>, <<>>),
                    [line |-> "comment"], Form(<<"be">>, <<"is">>, <<"V">>)>>]),
    Of("unimorph", None, 0, [language |-> "eng", strict |-> FALSE, lines |-> <<Form(<<"go">>, <<"went">>, <<>>), [line |-> "malformed"]>>]) }

El(name, attrs, inside) == <<Open(name, attrs)>> \o inside \o <<Close(name)>>
TextEl(t) == El("text", No, <<Chars(<<t>>)>>)
E1 == <<"lift:entry/", "e1">>
Y1 == <<"lift:sense/", "y1">>
En1 == [lang |-> "en"]
SensePieces ==
  { Piece(El("gloss", En1, <<Chars(<<"cat">>)>>), {S(Y1, <<"lift:gloss/", "en">>, String(<<"cat">>))}, 0),
    Piece(El("gloss", [lang |-> "es"], TextEl("gato")), {S(Y1, <<"lift:gloss/", "es">>, String(<<"gato">>))}, 0),
    Piece(El("definition", No, El("form", En1, TextEl("pet"))), {S(Y1, <<"lift:definition/", "en">>, String(<<"pet">>))}, 0),
    Piece(El("definition", No, TextEl("pet")), {S(Y1, <<"lift:definition/", "und">>, String(<<"pet">>))}, 0),
    Piece(<<SelfClosed("grammatical-info", [value |-> <<"Noun">>])>>, {Lit(Y1, "lift:grammaticalCategory", <<"Noun">>)}, 0),
    Piece(El("note", No, TextEl("x")), {}, 1) }
LiftDoc(t) ==
  [events |-> El("lift", No, El("entry", [id |-> <<"e1">>],
     El("lexical-unit", No, El("form", En1, TextEl("cat"))) \o El("sense", [id |-> <<"y1">>], FlattenSeq(t)))), strict |-> FALSE]
LiftFiles ==
  {[f EXCEPT !.means = @ \cup {Type(E1, <<"lift:Entry">>), S(E1, <<"lift:form/", "en">>, String(<<"cat">>)),
                               Ref(E1, "lift:hasSense", Y1), Type(Y1, <<"lift:Sense">>)}] : f \in Files("lift", SensePieces, LiftDoc)}
  \cup { Of("lift", {Type(<<"lift:entry/", "anon-", "0">>, <<"lift:Entry">>), Ref(<<"lift:entry/", "anon-", "0">>, "lift:hasSense", <<"lift:sense/", "anon-", "0", "-sense-", "0">>),
                     Type(<<"lift:sense/", "anon-", "0", "-sense-", "0">>, <<"lift:Sense">>)}, 1,
            [events |-> El("entry", No, El("sense", No, <<SelfClosed("trait", No)>>)), strict |-> FALSE]),
         Of("lift", None, 0, [events |-> <<Open("entry", [id |-> <<"e1">>]), BadXml>>, strict |-> FALSE]) }

Slot(i, t) == <<SelfClosed("TIME_SLOT", [TIME_SLOT_ID |-> <<i>>] @@ IF t = None THEN No ELSE [TIME_VALUE |-> t])>>
Ann(kind, attrs, v) == El(kind, [ANNOTATION_ID |-> <<"a1">>] @@ attrs, El("ANNOTATION_VALUE", No, v))
Aligned == Ann("ALIGNABLE_ANNOTATION", [TIME_SLOT_REF1 |-> <<"t1">>, TIME_SLOT_REF2 |-> <<"t2">>], <<Chars(<<"hi">>)>>)
Doc1 == <<"eaf:doc/", "rec">>
T1 == <<"eaf:tier/", "t">>
N1 == <<"eaf:ann/", "a1">>
Tier1 == {Type(T1, <<"eaf:Tier">>), Ref(Doc1, "eaf:hasTier", T1)}
EafPieces ==
  { Piece(<<SelfClosed("MEDIA_DESCRIPTOR", [MEDIA_URL |-> <<"u">>, RELATIVE_MEDIA_URL |-> <<>>])>>, {Lit(Doc1, "eaf:media", <<"u">>)}, 0),
    Piece(<<SelfClosed("LOCALE", No), SelfClosed("TIER", [TIER_ID |-> <<"x">>])>>, {}, 1),
    Piece(El("TIER", [PARTICIPANT |-> <<"w">>], Aligned), {}, 1),
    Piece(El("TIER", [TIER_ID |-> <<"t">>], <<>>), Tier1, 0),
    Piece(El("TIER", [TIER_ID |-> <<"t">>, PARTICIPANT |-> <<"w">>], Aligned),
          Tier1 \cup {Lit(T1, "eaf:participant", <<"w">>), Type(N1, <<"eaf:AlignableAnnotation">>), Ref(T1, "eaf:hasAnnotation", N1),
                      Lit(N1, "eaf:value", <<"hi">>), S(N1, <<"eaf:startMs">>, Num(5))}, 0) }
EafDoc(t) == [events |-> Slot("t1", 5) \o Slot("t2", None) \o FlattenSeq(t), stem |-> <<"rec">>, strict |-> FALSE]
EafFiles ==
  {[f EXCEPT !.means = @ \cup {Type(Doc1, <<"eaf:Document">>)}] : f \in Files("eaf", EafPieces, EafDoc)}
  \cup { Of("eaf", {Type(Doc1, <<"eaf:Document">>), Type(N1, <<"eaf:RefAnnotation">>), Ref(T1, "eaf:hasAnnotation", N1),
                    Ref(N1, "eaf:refersTo", <<"eaf:ann/", "a0">>)} \cup Tier1, 0,
            [events |-> El("TIER", [TIER_ID |-> <<"t">>], Ann("REF_ANNOTATION", [ANNOTATION_REF |-> <<"a0">>], <<>>)), stem |-> <<"rec">>, strict |-> FALSE]),
         Of("eaf", None, 0, [events |-> <<BadXml>>, stem |-> <<"rec">>, strict |-> FALSE]) }

-----------------------------------------------------------------------------
MCDate == (<<"1900">> :> 19000) @@ (<<"1920">> :> 19200)
MCStamp == (<<"1943T">> :> 19430)
Rec(columns, vals) == [k \in columns |-> IF k \in DOMAIN vals THEN vals[k] ELSE [null |-> TRUE]]
Tab(columns, rows) == [columns |-> columns, rows |-> [i \in DOMAIN rows |-> Rec(columns, rows[i])]]
Tx(s) == T(<<s>>)
Beneath(dir, id) == C \o <<dir, id>>
Src == <<"ctx", "/source/", "s">>
Bare == <<"ctx", "/source/">>
I1 == Beneath("/iri/", "1")
GTable(t, rows) == (t :> Tab(Needs[t], rows))
Gen(db, means) == Of("genealogy", means, 0, [db |-> db, dryRun |-> FALSE])
SrcRow == [id |-> Tx("s"), name |-> Tx("w"), citation |-> [int |-> 5]]
SrcMeans == {Lit(Src, "rdfs:label", <<"w">>)}
Alias1(from, to) == [entity_id |-> Tx("1"), name |-> Tx("w"), year_start |-> [int |-> from], year_end |-> [int |-> to]]
GenealogyFiles ==
  { Gen(GTable("sources", <<SrcRow>>) @@ GTable("entities", <<[id |-> Tx("1"), kind |-> Tx("Dog"), label |-> Tx("w"), source_id |-> Tx("s")]>>)
        @@ GTable("claims", <<[subject_id |-> Tx("1"), predicate |-> T(P), object |-> [int |-> 5], source_id |-> Tx("s"), confidence |-> Tx("strong")],
                              [subject_id |-> Tx("1"), predicate |-> T(P), object |-> T(<<"ex:", "a">>), source_id |-> Tx("s")],
                              [subject_id |-> Tx("1"), predicate |-> T(P), source_id |-> Tx("s")]>>),
        SrcMeans \cup {In(Src, I1, RdfType, Iri(<<"ex:", "Dog">>)), In(Src, I1, <<"rdfs:label">>, Word), In(Src, I1, P, Iri(<<"ex:", "a">>)),
                       [In(Src, I1, P, Num(5)) EXCEPT !.maturity = 1]}),
    Gen(GTable("sources", <<SrcRow>>)
        @@ GTable("events", <<[id |-> Tx("v"), kind |-> Tx("Birth"), date |-> Tx("1900"), place |-> Tx("w"), source_id |-> Tx("s")],
                              [id |-> Tx("v2"), date |-> Tx("1943T"), source_id |-> Tx("s")]>>)
        @@ GTable("participants", <<[event_id |-> Tx("v"), entity_id |-> Tx("1"), role |-> Tx("child")], [event_id |-> Tx("v"), entity_id |-> Tx("1")]>>),
        SrcMeans \cup {In(Src, Beneath("/event/", "v"), RdfType, Iri(<<"ex:", "Birth">>)), In(Src, Beneath("/event/", "v"), <<"ex:place">>, Word),
                       In(Src, Beneath("/event/", "v"), <<"ex:when">>, [day |-> 19000, dt |-> "xsd:date"]),
                       In(Src, Beneath("/event/", "v2"), <<"ex:whenText">>, String(<<"1943T">>)),
                       S(Beneath("/event/", "v"), <<"ex:role/", "child">>, Iri(I1)), Ref(Beneath("/event/", "v"), "ex:participant", I1)}),
    Gen(GTable("relationships", <<[left_id |-> Tx("1"), right_id |-> [int |-> 2], kind |-> Tx("sameAs"), confidence |-> Tx("moderate")],
                                  [left_id |-> Tx("1"), right_id |-> Tx("1"), kind |-> Tx("knows")]>>)
        @@ GTable("aliases", <<Alias1(1900, 1920) @@ [location |-> Tx("here")]>>),
        {[S(I1, <<"donto:", "sameAs">>, Iri(C \o <<"/iri/", "int", 2>>)) EXCEPT !.maturity = 1], S(I1, <<"ex:rel/", "knows">>, Iri(I1)),
         Valid(Lit(I1, "ex:knownAs", <<"w">>), 19000, 19200), Valid(Lit(I1, "ex:knownAsLocation", <<"here">>), 19000, 19200)}),
    Gen(GTable("discrepancies", <<[id |-> Tx("1"), summary |-> Tx("w"), kind |-> Tx("k")]>>) @@ GTable("hypotheses", <<[id |-> Tx("1"), statement |-> Tx("w"), status |-> Tx("open")]>>),
        {Ref(Beneath("/discrepancy/", "1"), "rdf:type", <<"donto:Discrepancy">>), Lit(Beneath("/discrepancy/", "1"), "rdfs:comment", <<"w">>),
         Lit(Beneath("/discrepancy/", "1"), "ex:discrepancyKind", <<"k">>), Ref(Beneath("/hypothesis/", "1"), "rdf:type", <<"donto:Hypothesis">>),
         Lit(Beneath("/hypothesis/", "1"), "donto:statement", <<"w">>), Ref(Beneath("/hypothesis/", "1"), "donto:status", <<"donto:", "open">>)}),
    Gen(GTable("sources", <<SrcRow>>)
        @@ GTable("entities", <<[id |-> Tx("1"), label |-> Tx("w"), source_id |-> Tx("s")], [id |-> Tx("1"), label |-> Tx("v")]>>)
        @@ GTable("events", <<[id |-> Tx("v"), place |-> Tx("w"), source_id |-> Tx("x")], [id |-> Tx("v"), place |-> Tx("w")]>>),
        SrcMeans \cup {In(Src, I1, <<"rdfs:label">>, Word), In(Bare, I1, <<"rdfs:label">>, String(<<"v">>)),
                       In(Bare \o <<"x">>, Beneath("/event/", "v"), <<"ex:place">>, Word), In(Bare, Beneath("/event/", "v"), <<"ex:place">>, Word)}),
    Gen(GTable("sources", <<SrcRow>>) @@ GTable("aliases", <<Alias1(1920, 1900)>>), None),
    Gen(GTable("sources", <<SrcRow>>) @@ GTable("aliases", <<Alias1(0, 0)>>), None),
    Gen(GTable("sources", <<SrcRow>>) @@ GTable("claims", <<[subject_id |-> Tx("1"), predicate |-> T(P), object |-> T(<<"a", Nul>>), source_id |-> Tx("s")]>>), None),
    Gen(GTable("sources", <<SrcRow>>) @@ ("claims" :> Tab({"id"}, <<>>)), None),
    Gen("sources" :> Tab({"id"}, <<[id |-> Tx("s")]>>), None),
    Of("genealogy", {}, 0, [db |-> GTable("sources", <<SrcRow>>), dryRun |-> TRUE]) }

TableOf(t) == CHOOSE tb \in Range(Tables) : tb.name = t
RTable(t, rows) == (t :> Tab(ColumnsOf(TableOf(t)), rows))
Rel(db, means) == Of("relink", means, 0, [db |-> db])
All(s, valid, stmts) == {Valid(S(s, x[1], x[2]), valid[1], valid[2]) : x \in stmts}
Typ(c) == <<RdfType, Iri(<<c>>)>>
Says(p, t) == <<<<p>>, String(<<t>>)>>
Points(p, dir, id) == <<<<p>>, Iri(Beneath(dir, id))>>
Doc5 == C \o <<"/document/", "int", 5>>
DocRow == [id |-> [int |-> 5], path |-> Tx("w"), title |-> [int |-> 5], created |-> Tx("1943T"), tags |-> Tx("[]")]
DocMeans == All(Doc5, Always, {Typ("ex:Document"), Says("donto:path", "w")}) \cup All(Doc5, <<19430, None>>, {Says("donto:created", "1943T")})
ChunkOf(content) == RTable("chunks", <<[id |-> [int |-> 1], document_id |-> [int |-> 5], chunk_index |-> [int |-> 0], content |-> T(content)]>>)
Chunk1 == C \o <<"/chunk/", "int", 1>>
ChunkMeans(content) == All(Chunk1, Always, {Typ("ex:Chunk"), <<<<"donto:document">>, Iri(Doc5)>>, <<<<"donto:chunkIndex">>, Num(0)>>, <<<<"donto:content">>, String(content)>>})
ClaimRow == [id |-> Tx("c"), subject_id |-> Tx("1"), predicate |-> Tx("p"), object_value |-> Tx("w"), source_id |-> Tx("s"), chunk_id |-> [int |-> 1],
             text_span |-> T(<<"o", Nul, "n", "e">>), confidence |-> Tx("strong"), valid_from |-> Tx("1900"), valid_until |-> Tx("1920"), superseded_by |-> Tx("d")]
Person(id, rest) == rest @@ [id |-> Tx(id), name |-> Tx("w")]
RelinkFiles ==
  { Rel(RTable("documents", <<DocRow>>) @@ ChunkOf(<<"a", "b">>), DocMeans \cup ChunkMeans(<<"a", "b">>)),
    Rel(ChunkOf(<<"a", "b", "c", "d", "e", "f">>), ChunkMeans(<<"a", "b", "...">>) \cup {S(Chunk1, <<"donto:contentTruncated">>, Num(6))}),
    Rel(RTable("claims", <<ClaimRow>>),
        All(Beneath("/claim/", "c"), <<19000, 19200>>,
            {Typ("ex:Claim"), Points("donto:claimSubject", "/iri/", "1"), Says("donto:claimPredicate", "p"), Says("donto:claimObjectValue", "w"),
             Points("donto:sourceContext", "/source/", "s"), <<<<"donto:evidenceChunk">>, Iri(Chunk1)>>, <<<<"donto:textSpan">>, String(<<"o", "n", "...">>)>>,
             Says("donto:confidence", "strong"), Points("donto:supersededBy", "/claim/", "d")})),
    Rel(RTable("relationships", <<[id |-> Tx("r"), type |-> Tx("knows"), entity_a_id |-> Tx("1"), entity_b_id |-> Tx("1"), valid_from |-> Tx("1900")]>>)
        @@ RTable("aliases", <<[id |-> [int |-> 1], entity_id |-> Tx("1"), name_form |-> Tx("w"), year |-> [int |-> 1900], source_id |-> Tx("s")]>>),
        All(Beneath("/relationship/", "r"), <<19000, None>>,
            {<<RdfType, Iri(<<"ex:rel/", "knows">>)>>, Points("donto:entityA", "/iri/", "1"), Points("donto:entityB", "/iri/", "1")})
        \cup All(C \o <<"/alias/", "int", 1>>, <<19000, 19010>>,
                 {Typ("ex:Alias"), Points("donto:entity", "/iri/", "1"), Says("donto:nameForm", "w"), Points("donto:sourceContext", "/source/", "s")})),
    Rel(RTable("events", <<[id |-> Tx("v"), type |-> Tx("Birth"), date_value |-> Tx("1900"), location_id |-> Tx("1")]>>)
        @@ RTable("hypotheses", <<[id |-> Tx("h"), statement |-> Tx("w"), status |-> Tx("open"), resolved_date |-> Tx("1900")]>>),
        All(Beneath("/event-full/", "v"), <<19000, None>>, {<<RdfType, Iri(<<"ex:", "Birth">>)>>, Says("donto:dateValue", "1900"), Points("donto:location", "/iri/", "1")})
        \cup All(Beneath("/hypothesis-full/", "h"), Always, {Typ("donto:Hypothesis"), Says("donto:statement", "w"), Says("donto:status", "open")})
        \cup All(Beneath("/hypothesis-full/", "h"), <<19000, None>>, {Says("donto:resolvedDate", "1900")})),
    Rel(RTable("token_usage", <<[id |-> [int |-> 1], file_path |-> Tx("w"), model |-> Tx("m"), chunks |-> [int |-> 1], input_tokens |-> [int |-> 1],
                                 output_tokens |-> [int |-> 1], total_tokens |-> [int |-> 1], cost_usd |-> [real |-> 5]]>>),
        All(C \o <<"/extraction-cost/", "int", 1>>, Always,
            {Typ("ex:ExtractionCost"), Says("donto:filePath", "w"), Says("donto:model", "m"), <<<<"donto:costUsd">>, [dec |-> 5, dt |-> "xsd:decimal"]>>}
            \cup {<<<<p>>, Num(1)>> : p \in {"donto:chunks", "donto:inputTokens", "donto:outputTokens", "donto:totalTokens"}})),
    Rel(RTable("persons", <<Person("1", [birth_year_est |-> [int |-> 1900]]), Person("2", [notes |-> [int |-> 5]])>>),
        All(Beneath("/person/", "1"), Always, {Typ("ex:Person"), Says("rdfs:label", "w"), <<<<"donto:birthYearEst">>, Num(1900)>>})
        \cup All(Beneath("/person/", "2"), Always, {Typ("ex:Person"), Says("rdfs:label", "w")})),
    Rel(RTable("persons", <<Person("1", <<>>), Person("2", [name |-> [int |-> 5]])>>), None),
    Rel(RTable("documents", <<DocRow>>) @@ ("chunks" :> Tab({"id"}, <<>>)), None),
    Rel(RTable("claims", <<[ClaimRow EXCEPT !.valid_from = Tx("1943T")]>>), None) }

MCStrict ==
  {[CldfFile(<<>>, <<Langs, Params, Codes>> \o more, CodeFor, Len(more), <<>>) EXCEPT !.strict = TRUE] :
     more \in {<<>>, <<Rows("ExampleTable", <<>>)>>}}

MCFile ==
  RdfFiles \cup JsonlFiles \cup CsvFiles \cup GraphFiles \cup JsonLdFiles \cup RequestFiles \cup QuarantineFiles
  \cup CldfFiles \cup UdWhole \cup UniMorphFiles \cup LiftFiles \cup EafFiles \cup GenealogyFiles \cup RelinkFiles \cup MCStrict
=============================================================================
