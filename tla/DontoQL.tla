------------------------------ MODULE DontoQL -------------------------------
(***************************************************************************)
(* The DontoQL parser (packages/donto-query/src/dontoql.rs).  A text is a  *)
(* sequence of lexemes; lex() turns it into tokens or rejects it, and      *)
(* parse_query reads one clause after another, a list one item at a time.  *)
(* Keywords are matched whatever their case; here they are written in one. *)
(*                                                                         *)
(* The parser reports an error with the position of the token it is at.    *)
(* It often took the offending token first, and when that was the last one *)
(* there is no position to report: the index is past the end of the vector *)
(* and the call panics.                                                    *)
(***************************************************************************)
EXTENDS QueryAlgebra, SequencesExt, FiniteSetsExt

CONSTANTS
  Timestamp, \* the strings that are RFC3339 timestamps
  U64        \* stands for 2^64: more than any number of rows

VARIABLES
  text,    \* what is parsed
  toks,    \* its tokens, from at[1] on still to be read
  at,      \* Parser.i
  reading, \* what is read next: a clause, an item of a list, the words of a scope
  query,   \* what was read so far
  status   \* unlexed, running; parsed, error or panic once it ended

dvars == <<text, toks, at, reading, query, status>>

-----------------------------------------------------------------------------
(* Tokens *)

Tok(kind, s) == [t |-> kind, s |-> s]
Ident(s) == Tok("ident", s)
Op(s) == Tok("op", s)
Comma == Tok("comma", ",")
Semi == Tok("semi", ";")
Eof == Tok("eof", "")
IntTok(n) == [t |-> "int", n |-> n]

\* lex(): comments and blanks go; a lexeme it cannot read (a bare `?` or `!`, a
\* parenthesis, an open string or <iri>, a number beyond i64) ends it.
Lexes(lexemes) == \A k \in DOMAIN lexemes : lexemes[k].t # "unreadable"
Lex(lexemes) == Append(SelectSeq(lexemes, LAMBDA x : x.t # "comment"), Eof)

-----------------------------------------------------------------------------
(* Forms: the tokens a construct is made of.  A slot that is peeked at can  *)
(* only be refused with an error; any other slot takes its token first.     *)

Word(s) == [kinds |-> {"ident"}, only |-> {s}, peeked |-> TRUE]
Sign(s) == [kinds |-> {"op"}, only |-> {s}, peeked |-> TRUE]
AnyOp == [kinds |-> {"op"}, only |-> {}, peeked |-> TRUE]
Value(kinds) == [kinds |-> kinds, only |-> {}, peeked |-> FALSE]
OneOf(strings, kinds) == [kinds |-> kinds, only |-> strings, peeked |-> FALSE]

Fits(slot, tok) == tok.t \in slot.kinds /\ (slot.only = {} \/ tok.s \in slot.only)

Misfits(form, i) == {k \in DOMAIN form : i + k - 1 <= Len(toks) /\ ~Fits(form[k], toks[i + k - 1])}

\* term(): a variable, an IRI or a literal.
ATerm == Value({"var", "angle", "prefixed", "str", "int"})
TermOf(tok) ==
  CASE tok.t = "var" -> Var(tok.s)
    [] tok.t \in {"angle", "prefixed"} -> Iri(tok.s)
    [] tok.t = "str" -> Text(tok.s, "xsd:string")
    [] tok.t = "int" -> Num(tok.n)

AnIri == Value({"angle", "prefixed"})

IdentityModes ==
  ("DEFAULT" :> "default") @@ ("EXPAND_CLUSTERS" :> "clusters") @@ ("CLUSTERS" :> "clusters")
  @@ ("EXPAND_SAMEAS_TRANSITIVE" :> "sameas") @@ ("SAMEAS" :> "sameas") @@ ("STRICT" :> "strict")

Orders == {"contradiction_pressure", "contradictionpressure"}
Evidence == {"none", "redacted_if_required", "full"}

\* Whether the token after the k-th from here on is this one.
Ahead(k, tok) == at + k <= Len(toks) /\ toks[at + k] = tok

\* The form of what follows the keyword of a clause with one value.
Form(kw) ==
  CASE kw = "PRESET" -> <<Value({"ident", "prefixed", "str"})>>
    [] kw = "POLARITY" -> <<OneOf(Polarities, {"ident"})>>
    [] kw = "MATURITY" -> IF Ahead(1, Op(">=")) THEN <<Sign(">="), Value({"int"})>> ELSE <<Value({"int"})>>
    [] kw \in {"IDENTITY", "IDENTITY_LENS"} -> <<OneOf(DOMAIN IdentityModes, {"ident"})>>
    [] kw = "PREDICATES" ->
         LET mode == OneOf({"EXPAND", "STRICT", "EXPAND_ABOVE"}, {"ident"})
         IN IF Ahead(1, Ident("EXPAND_ABOVE")) THEN <<mode, Value({"int"})>> ELSE <<mode>>
    [] kw = "TRANSACTION_TIME" -> <<Word("AS_OF"), OneOf(Timestamp, {"str", "prefixed", "ident"})>>
    [] kw = "AS_OF" -> <<OneOf(Timestamp, {"str", "prefixed", "ident"})>>
    [] kw = "POLICY" -> <<Word("ALLOWS"), Value({"ident"})>>
    [] kw = "SCHEMA_LENS" -> <<Value({"angle", "prefixed", "ident"})>>
    [] kw = "EXPANDS_FROM" -> <<Word("concept"), Value({"angle", "prefixed", "str"}),
                                Word("USING"), Word("schema_lens"),
                                Value({"angle", "prefixed", "str"})>>
    [] kw = "ORDER_BY" -> <<OneOf(Orders, {"ident"})>>
    [] kw = "ORDER" -> <<Word("BY"), OneOf(Orders, {"ident"})>>
    [] kw = "WITH" -> <<Word("evidence"), Sign("="), OneOf(Evidence, {"ident"})>>
    [] kw \in {"LIMIT", "OFFSET"} -> <<Value({"int"})>>

OneValue == {"PRESET", "POLARITY", "MATURITY", "IDENTITY", "IDENTITY_LENS", "PREDICATES",
             "TRANSACTION_TIME", "AS_OF", "POLICY", "SCHEMA_LENS", "EXPANDS_FROM", "ORDER_BY",
             "ORDER", "WITH", "LIMIT", "OFFSET"}

\* A direction after the name of an order, which is descending without one.
Directions == {Ident("ASC"), Ident("DESC")}

\* `n as u8` and `n as u64`
AsU8(n) == n % 256
AsU64(n) == IF n >= 0 THEN n ELSE U64 + n

\* What the clause at the cursor sets, its last token being toks[e].
Sets(kw, e) ==
  LET v == toks[e] IN
  CASE kw = "PRESET" -> [query EXCEPT !.preset = v.s]
    [] kw = "POLARITY" -> [query EXCEPT !.polarity = v.s]
    [] kw = "MATURITY" -> [query EXCEPT !.maturity = AsU8(v.n)]
    [] kw \in {"IDENTITY", "IDENTITY_LENS"} -> [query EXCEPT !.identity = IdentityModes[v.s]]
    [] kw = "PREDICATES" ->
         [query EXCEPT !.expansion =
            IF v.t = "int" THEN [mode |-> "above", percent |-> v.n]
            ELSE IF v.s = "STRICT" THEN [mode |-> "strict"] ELSE [mode |-> "expand"]]
    [] kw \in {"TRANSACTION_TIME", "AS_OF"} -> [query EXCEPT !.asOf = v.s]
    [] kw = "POLICY" -> [query EXCEPT !.policy = v.s]
    [] kw = "SCHEMA_LENS" -> [query EXCEPT !.lens = v.s]
    [] kw = "EXPANDS_FROM" -> [query EXCEPT !.expands = [concept |-> toks[e - 3].s, lens |-> v.s]]
    [] kw \in {"ORDER_BY", "ORDER"} ->
         [query EXCEPT !.order = IF toks[e + 1] = Ident("ASC") THEN "asc" ELSE "desc"]
    [] kw = "WITH" -> [query EXCEPT !.evidence = v.s]
    [] kw = "LIMIT" -> [query EXCEPT !.limit = AsU64(v.n)]
    [] kw = "OFFSET" -> [query EXCEPT !.offset = AsU64(v.n)]

\* EXPAND_ABOVE takes a percentage.
InRange(kw, e) == kw = "PREDICATES" /\ toks[e].t = "int" => toks[e].n \in 0..100

-----------------------------------------------------------------------------
End(s) == status' = s /\ UNCHANGED <<text, toks, at, reading, query>>
Advance(j, r, q) == at' = j /\ reading' = r /\ query' = q /\ UNCHANGED <<text, toks, status>>

Here == toks[at]
Running(r) == status = "running" /\ reading = r

\* The first token that does not fit is refused: by an error at the token the
\* parser stands at, which is one further if it took the token.
Refuse(form, i) ==
  LET k == Min(Misfits(form, i))
  IN End(IF form[k].peeked \/ i + k <= Len(toks) THEN "error" ELSE "panic")

InitDontoQL(texts) ==
  /\ text \in texts
  /\ toks = <<>> /\ at = 1 /\ reading = "clause" /\ query = DefaultQuery
  /\ status = "unlexed"

Tokens ==
  /\ status = "unlexed"
  /\ IF Lexes(text)
     THEN toks' = Lex(text) /\ status' = "running" /\ UNCHANGED <<text, at, reading, query>>
     ELSE End("error")

Finish == Running("clause") /\ Here = Eof /\ End("parsed")

Skip == Running("clause") /\ Here = Semi /\ Advance(at + 1, "clause", query)

NoClause ==
  /\ Running("clause") /\ Here \notin {Eof, Semi}
  /\ Here.t = "ident" => Here.s \notin OneValue \cup {"MATCH", "FILTER", "MODALITY",
                                   "EXTRACTION_LEVEL", "PROJECT", "SCOPE"}
  /\ End("error")

\* A clause with one value; the last one written wins.
Clause ==
  /\ Running("clause") /\ Here.t = "ident" /\ Here.s \in OneValue
  /\ LET form == Form(Here.s)
         e == at + Len(form)
         directed == Here.s \in {"ORDER", "ORDER_BY"} /\ toks[e + 1] \in Directions
     IN IF Misfits(form, at + 1) # {} THEN Refuse(form, at + 1)
        ELSE IF ~InRange(Here.s, e) THEN End("error")
        ELSE Advance(IF directed THEN e + 2 ELSE e + 1, "clause", Sets(Here.s, e))

ListField ==
  [MATCH |-> "patterns", FILTER |-> "filters", MODALITY |-> "modality",
   EXTRACTION_LEVEL |-> "level", PROJECT |-> "project"]

\* As if the items of a list were added to those of an earlier clause.
StartList_appends ==
  /\ Running("clause") /\ Here.t = "ident" /\ Here.s \in DOMAIN ListField
  /\ LET f == ListField[Here.s]
     IN Advance(at + 1, Here.s, IF query[f] = None THEN [query EXCEPT ![f] = <<>>] ELSE query)

\* A list replaces that of an earlier clause.
StartList ==
  /\ Running("clause") /\ Here.t = "ident" /\ Here.s \in DOMAIN ListField
  /\ Advance(at + 1, Here.s, [query EXCEPT ![ListField[Here.s]] = <<>>])

\* The form of an item, and what the tokens from at on say.
ItemForm(list) ==
  CASE list = "MATCH" -> IF Ahead(3, Ident("IN")) THEN <<ATerm, ATerm, ATerm, Word("IN"), ATerm>>
                         ELSE <<ATerm, ATerm, ATerm>>
    [] list = "FILTER" -> <<ATerm, AnyOp, ATerm>>
    [] list \in {"MODALITY", "EXTRACTION_LEVEL"} -> <<Value({"ident"})>>
    [] list = "PROJECT" -> <<Value({"var"})>>
Item(list) ==
  CASE list = "MATCH" -> Pattern(TermOf(toks[at]), TermOf(toks[at + 1]), TermOf(toks[at + 2]),
                                 IF Ahead(3, Ident("IN")) THEN TermOf(toks[at + 4]) ELSE None)
    [] list = "FILTER" -> Filter(toks[at + 1].s, TermOf(toks[at]), TermOf(toks[at + 2]))
    [] list \in {"MODALITY", "EXTRACTION_LEVEL", "PROJECT"} -> Here.s

\* After an item of a list: another one after a comma, or what comes next.
Goon(j, again, after, q) ==
  IF toks[j] = Comma THEN Advance(j + 1, again, q) ELSE Advance(j, after, q)

ReadItem(list) ==
  /\ Running(list)
  /\ LET form == ItemForm(list)
     IN IF Misfits(form, at) # {} THEN Refuse(form, at)
        ELSE Goon(at + Len(form), list, "clause",
                  [query EXCEPT ![ListField[list]] = Append(@, Item(list))])

StartScope ==
  /\ Running("clause") /\ Here = Ident("SCOPE")
  /\ Advance(at + 1, "SCOPE", [query EXCEPT !.scope = Anywhere])

ScopeWord ==
  /\ Running("SCOPE")
  /\ CASE Here = Ident("include") -> Advance(at + 1, "include", query)
       [] Here = Ident("exclude") -> Advance(at + 1, "exclude", query)
       [] Here = Ident("no_descendants") ->
            Advance(at + 1, "SCOPE", [query EXCEPT !.scope.descendants = FALSE])
       [] Here = Ident("ancestors") ->
            Advance(at + 1, "SCOPE", [query EXCEPT !.scope.ancestors = TRUE])
       [] OTHER -> Advance(at, "clause", query)

ReadContext(side) ==
  /\ Running(side)
  /\ IF ~Fits(AnIri, Here) THEN Refuse(<<AnIri>>, at)
     ELSE Goon(at + 1, side, "SCOPE", [query EXCEPT !.scope[side] = Append(@, Here.s)])

NextDontoQL ==
  \/ Tokens \/ Finish \/ Skip \/ NoClause \/ Clause \/ StartList
  \/ \E list \in DOMAIN ListField : ReadItem(list)
  \/ StartScope \/ ScopeWord
  \/ \E side \in {"include", "exclude"} : ReadContext(side)
=============================================================================
