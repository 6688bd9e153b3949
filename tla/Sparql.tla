------------------------------- MODULE Sparql -------------------------------
(***************************************************************************)
(* The SPARQL translator (packages/donto-query/src/sparql.rs).  It works   *)
(* on the characters of the text, without a lexer; here a text is a        *)
(* sequence of pieces - a word of letters, a number, a string, an <iri>,   *)
(* a sign, a blank, a line end - and a cursor.  A comment is no piece: it  *)
(* is what stands from a "#" to the end of the line, if the tokenizer      *)
(* skips where the "#" is; a local name takes a "#" as any other of its    *)
(* characters.                                                             *)
(***************************************************************************)
EXTENDS QueryAlgebra, SequencesExt, FiniteSetsExt

VARIABLES
  text,     \* what is parsed
  at,       \* Tokenizer.pos
  reading,  \* prologue, variables, block or tail
  prefixes, \* the IRI of each declared prefix
  graphs,   \* the terms of the GRAPH blocks the cursor is in
  query,    \* what was read so far
  status    \* running; parsed or error once it ended

svars == <<text, at, reading, prefixes, graphs, query, status>>

Piece(kind, s) == [u |-> kind, s |-> s]
AWord(s) == Piece("word", s)
Sign(s) == Piece("sign", s)
Blank == Piece("blank", " ")
Newline == Piece("newline", " ")
Number(n) == [u |-> "number", n |-> n]

-----------------------------------------------------------------------------
(* The tokenizer *)

Kind(i) == IF i \in DOMAIN text THEN text[i].u ELSE "end"
Is(i, s) == Kind(i) = "sign" /\ text[i].s = s

\* The first position from i on after pieces of these kinds.
Past(i, kinds) ==
  CHOOSE j \in i..Len(text) + 1 : Kind(j) \notin kinds /\ \A k \in i..j - 1 : Kind(k) \in kinds

Space == {"blank", "newline"}

\* From i on, what skip_ws skips: blanks, and what is behind a "#" in its line.
Skipped(i, k) ==
  /\ k \in DOMAIN text
  /\ Kind(k) \in Space \/ \E c \in i..k : Is(c, "#") /\ \A l \in c..k - 1 : Kind(l) # "newline"

\* skip_ws
Skip(i) == CHOOSE j \in i..Len(text) + 1 : ~Skipped(i, j) /\ \A k \in i..j - 1 : Skipped(i, k)

\* peek_word, which skips blanks but no comments.
PeekWord(i) == LET j == Past(i, Space) IN IF Kind(j) = "word" THEN text[j].s ELSE None
AfterWord(i) == Past(i, Space) + 1

\* read_local: everything up to the first character no local name has.
OfLocal(i) == Kind(i) \in {"word", "number"} \/ \E s \in {"-", ".", "/", "#"} : Is(i, s)
LocalEnd(i) == CHOOSE j \in i..Len(text) + 1 : ~OfLocal(j) /\ \A k \in i..j - 1 : OfLocal(k)

\* What was read and the position after it; nothing is read after a failure.
Got(v, i) == [v |-> v, next |-> i]
Wrong == [v |-> None, next |-> 0]
Failed(r) == r.next = 0

\* A prefixed name; one with an undeclared prefix is kept as it is.
Resolve(p, l) == IF p \in DOMAIN prefixes THEN <<prefixes[p], l>> ELSE <<p, ":", l>>

\* `pfx:local`, its parts apart or not.
ReadName(i) ==
  LET colon == Skip(i + 1)
      l == Skip(colon + 1)
  IN IF ~Is(colon, ":") THEN Wrong
     ELSE Got(Resolve(text[i].s, SubSeq(text, l, LocalEnd(l) - 1)), LocalEnd(l))

\* The datatype of a literal, after `^^`.
ReadDatatype(i) ==
  LET w == Skip(i)
      colon == Skip(w + 1)
      l == Skip(colon + 1)
  IN IF Kind(i) = "iri" THEN Got(<<text[i].s>>, i + 1)
     ELSE IF Kind(w) = "word" /\ Is(colon, ":") /\ Kind(l) = "word"
     THEN Got(Resolve(text[w].s, <<text[l]>>), l + 1) ELSE Wrong

\* A string with what follows it: a language, a datatype or nothing.
ReadLiteral(i) ==
  LET j == Skip(i + 1)
      w == Skip(j + 1)
      dt == ReadDatatype(j + 1)
  IN IF Is(j, "@") THEN (IF Kind(w) # "word" THEN Wrong
                         ELSE Got([lit |-> text[i].s, dt |-> "rdf:langString", lang |-> text[w].s], w + 1))
     ELSE IF Is(j, "^^") THEN (IF Failed(dt) THEN Wrong
                               ELSE Got([lit |-> text[i].s, dt |-> dt.v], dt.next))
     ELSE Got(Text(text[i].s, "xsd:string"), j)

\* read_term.  A number is read without its sign, so that a negative one is wrong.
ReadTerm(from) ==
  LET i == Skip(from)
      w == Skip(i + 1)
  IN CASE Is(i, "?") -> IF Kind(w) = "word" THEN Got(Var(text[w].s), w + 1) ELSE Wrong
       [] Kind(i) = "iri" -> Got(Iri(<<text[i].s>>), i + 1)
       [] Kind(i) = "string" -> ReadLiteral(i)
       [] Kind(i) = "word" -> LET n == ReadName(i) IN IF Failed(n) THEN Wrong ELSE Got(Iri(n.v), n.next)
       [] Kind(i) = "number" -> Got(Num(text[i].n), i + 1)
       [] OTHER -> Wrong

-----------------------------------------------------------------------------
End(s) == status' = s /\ UNCHANGED <<text, at, reading, prefixes, graphs, query>>
Running(r) == status = "running" /\ reading = r
Goto(i, r, q) == at' = i /\ reading' = r /\ query' = q /\ UNCHANGED <<text, status>>

InitSparql(texts) ==
  /\ text \in texts
  /\ at = 1 /\ reading = "prologue" /\ prefixes = <<>> /\ graphs = <<>>
  /\ query = DefaultQuery /\ status = "running"

\* PREFIX pfx: <iri>; without one, SELECT.
Prologue ==
  /\ Running("prologue")
  /\ LET w == PeekWord(at)
         p == Skip(AfterWord(at))
         colon == Past(p, {"word", "number"} \cup Space)
         iri == Skip(colon + 1)
     IN CASE w = "PREFIX" ->
               IF Is(colon, ":") /\ Kind(iri) = "iri"
               THEN /\ prefixes' = [q \in DOMAIN prefixes \cup {text[p].s} |->
                                    IF q = text[p].s THEN text[iri].s ELSE prefixes[q]]
                    /\ Goto(iri + 1, "prologue", query) /\ UNCHANGED graphs
               ELSE End("error")
          [] w = "SELECT" -> Goto(AfterWord(at), "variables", query) /\ UNCHANGED <<prefixes, graphs>>
          [] OTHER -> End("error")

\* The variables, a star, or WHERE and the block.
Variables ==
  /\ Running("variables")
  /\ LET i == Skip(at)
         w == Skip(i + 1)
         block == Skip(AfterWord(IF Is(i, "*") THEN i + 1 ELSE i))
     IN IF Is(i, "?") /\ Kind(w) # "word" THEN End("error")
        ELSE IF Is(i, "?")
        THEN Goto(w + 1, "variables", [query EXCEPT !.project = Append(@, text[w].s)])
             /\ UNCHANGED <<prefixes, graphs>>
        ELSE IF PeekWord(IF Is(i, "*") THEN i + 1 ELSE i) = "WHERE" /\ Is(block, "{")
        THEN Goto(block + 1, "block", query) /\ UNCHANGED <<prefixes, graphs>>
        ELSE End("error")

\* The end of a block: that of the innermost graph, or of the whole.
CloseBlock ==
  /\ Running("block")
  /\ LET i == Skip(at)
     IN /\ Kind(i) = "end" \/ Is(i, "}")
        /\ IF Kind(i) = "end" THEN End("error")
           ELSE IF graphs = <<>> THEN Goto(i + 1, "tail", query) /\ UNCHANGED <<prefixes, graphs>>
           ELSE graphs' = Front(graphs) /\ Goto(i + 1, "block", query) /\ UNCHANGED prefixes

Dot ==
  /\ Running("block") /\ Is(Skip(at), ".")
  /\ Goto(Skip(at) + 1, "block", query) /\ UNCHANGED <<prefixes, graphs>>

Inner == Kind(Skip(at)) # "end" /\ ~\E s \in {"}", "."} : Is(Skip(at), s)

Graph ==
  /\ Running("block") /\ Inner /\ PeekWord(Skip(at)) = "GRAPH"
  /\ \E g \in {ReadTerm(AfterWord(Skip(at)))} :
        IF Failed(g) \/ ~Is(Skip(g.next), "{") THEN End("error")
        ELSE graphs' = Append(graphs, g.v) /\ Goto(Skip(g.next) + 1, "block", query) /\ UNCHANGED prefixes

FilterOps == {"=", "!=", "<", "<=", ">", ">="}

FilterClause ==
  /\ Running("block") /\ Inner /\ PeekWord(Skip(at)) = "FILTER"
  /\ \E open \in {Skip(AfterWord(Skip(at)))} :
     \E a \in {ReadTerm(open + 1)} : \E op \in {Skip(a.next)} : \E b \in {ReadTerm(op + 1)} :
       IF Is(open, "(") /\ (\E s \in FilterOps : Is(op, s)) /\ ~Failed(b) /\ Is(Skip(b.next), ")")
       THEN Goto(Skip(b.next) + 1, "block",
                 [query EXCEPT !.filters = Append(@, Filter(text[op].s, a.v, b.v))])
            /\ UNCHANGED <<prefixes, graphs>>
       ELSE End("error")

Triple ==
  /\ Running("block") /\ Inner /\ PeekWord(Skip(at)) \notin {"GRAPH", "FILTER"}
  /\ \E s \in {ReadTerm(at)} : \E p \in {ReadTerm(s.next)} : \E o \in {ReadTerm(p.next)} :
       IF Failed(o) THEN End("error")
       ELSE Goto(o.next, "block",
                 [query EXCEPT !.patterns =
                    Append(@, Pattern(s.v, p.v, o.v, IF graphs = <<>> THEN None ELSE Last(graphs)))])
            /\ UNCHANGED <<prefixes, graphs>>

\* LIMIT and OFFSET; whatever else follows the block is not read.
After ==
  /\ Running("tail")
  /\ LET w == PeekWord(at)
         n == Skip(AfterWord(at))
         f == IF w = "LIMIT" THEN "limit" ELSE "offset"
     IN IF w \notin {"LIMIT", "OFFSET"} THEN End("parsed")
        ELSE IF Kind(n) # "number" THEN End("error")
        ELSE Goto(n + 1, "tail", [query EXCEPT ![f] = text[n].n]) /\ UNCHANGED <<prefixes, graphs>>

NextSparql ==
  Prologue \/ Variables \/ CloseBlock \/ Dot \/ Graph \/ FilterClause \/ Triple \/ After
=============================================================================
