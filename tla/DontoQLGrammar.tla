--------------------------- MODULE DontoQLGrammar ---------------------------
(***************************************************************************)
(* What a text of DontoQL says, whatever reads it.  A layout tells of a    *)
(* text which words its clauses are made of, where the items of a list or  *)
(* of a scope begin among them, and which field of the query each clause   *)
(* sets: every field is as the last clause that sets it has it.            *)
(***************************************************************************)
EXTENDS DontoQL

\* A token and the term it names.
Names(tok, term) ==
  \/ tok.t = "var" /\ term = Var(tok.s)
  \/ tok.t \in {"angle", "prefixed"} /\ term = Iri(tok.s)
  \/ tok.t = "str" /\ term = Text(tok.s, "xsd:string")
  \/ tok.t = "int" /\ term = Num(tok.n)

IsOf(tok, kinds) == tok.t \in kinds
IsOneOf(tok, kinds, strings) == tok.t \in kinds /\ tok.s \in strings

\* A clause whose value is the word v.
ValueSays(words, v, sets) ==
  \/ words = <<Ident("PRESET"), v>> /\ IsOf(v, {"ident", "prefixed", "str"}) /\ sets = [preset |-> v.s]
  \/ words = <<Ident("POLARITY"), v>> /\ IsOneOf(v, {"ident"}, Polarities) /\ sets = [polarity |-> v.s]
  \/ /\ words \in {<<Ident("MATURITY"), v>>, <<Ident("MATURITY"), Op(">="), v>>}
     /\ IsOf(v, {"int"}) /\ v.n \in 0..255 /\ sets = [maturity |-> v.n]
  \/ /\ words \in {<<Ident("IDENTITY"), v>>, <<Ident("IDENTITY_LENS"), v>>}
     /\ IsOneOf(v, {"ident"}, DOMAIN IdentityModes) /\ sets = [identity |-> IdentityModes[v.s]]
  \/ words = <<Ident("PREDICATES"), v>> /\ v = Ident("EXPAND") /\ sets = [expansion |-> [mode |-> "expand"]]
  \/ words = <<Ident("PREDICATES"), v>> /\ v = Ident("STRICT") /\ sets = [expansion |-> [mode |-> "strict"]]
  \/ /\ words = <<Ident("PREDICATES"), Ident("EXPAND_ABOVE"), v>>
     /\ IsOf(v, {"int"}) /\ v.n \in 0..100 /\ sets = [expansion |-> [mode |-> "above", percent |-> v.n]]
  \/ /\ words \in {<<Ident("AS_OF"), v>>, <<Ident("TRANSACTION_TIME"), Ident("AS_OF"), v>>}
     /\ IsOneOf(v, {"str", "prefixed", "ident"}, Timestamp) /\ sets = [asOf |-> v.s]
  \/ words = <<Ident("POLICY"), Ident("ALLOWS"), v>> /\ IsOf(v, {"ident"}) /\ sets = [policy |-> v.s]
  \/ words = <<Ident("SCHEMA_LENS"), v>> /\ IsOf(v, {"angle", "prefixed", "ident"}) /\ sets = [lens |-> v.s]
  \/ \E c \in Range(words) :
       /\ words = <<Ident("EXPANDS_FROM"), Ident("concept"), c, Ident("USING"), Ident("schema_lens"), v>>
       /\ IsOf(c, {"angle", "prefixed", "str"}) /\ IsOf(v, {"angle", "prefixed", "str"})
       /\ sets = [expands |-> [concept |-> c.s, lens |-> v.s]]
  \/ /\ words \in {<<Ident("ORDER_BY"), v>>, <<Ident("ORDER_BY"), v, Ident("DESC")>>,
                   <<Ident("ORDER"), Ident("BY"), v>>, <<Ident("ORDER"), Ident("BY"), v, Ident("DESC")>>}
     /\ IsOneOf(v, {"ident"}, Orders) /\ sets = [order |-> "desc"]
  \/ /\ words \in {<<Ident("ORDER_BY"), v, Ident("ASC")>>, <<Ident("ORDER"), Ident("BY"), v, Ident("ASC")>>}
     /\ IsOneOf(v, {"ident"}, Orders) /\ sets = [order |-> "asc"]
  \/ /\ words = <<Ident("WITH"), Ident("evidence"), Op("="), v>>
     /\ IsOneOf(v, {"ident"}, Evidence) /\ sets = [evidence |-> v.s]
  \/ words = <<Ident("LIMIT"), v>> /\ IsOf(v, {"int"}) /\ v.n \in Nat /\ sets = [limit |-> v.n]
  \/ words = <<Ident("OFFSET"), v>> /\ IsOf(v, {"int"}) /\ v.n \in Nat /\ sets = [offset |-> v.n]

ValueClause(words, sets) == \E v \in Range(words) : ValueSays(words, v, sets)

\* An entry begins with the keyword of its list or with a comma, and goes as far
\* as the next one or the end of the clause.
Beyond(words, entries, i) == IF i = Len(entries) THEN Len(words) + 1 ELSE entries[i + 1].at

\* The words from a to b - 1 are an item.
IsItem(list, words, a, b, x) ==
  \/ /\ list = "MATCH" /\ x = Pattern(x.subject, x.predicate, x.object, x.graph)
     /\ Names(words[a], x.subject) /\ Names(words[a + 1], x.predicate) /\ Names(words[a + 2], x.object)
     /\ \/ b = a + 3 /\ x.graph = None
        \/ b = a + 5 /\ words[a + 3] = Ident("IN") /\ Names(words[a + 4], x.graph)
  \/ /\ list = "FILTER" /\ b = a + 3 /\ words[a + 1].t = "op"
     /\ x = Filter(words[a + 1].s, x.lhs, x.rhs)
     /\ Names(words[a], x.lhs) /\ Names(words[a + 2], x.rhs)
  \/ list \in {"MODALITY", "EXTRACTION_LEVEL"} /\ b = a + 1 /\ words[a].t = "ident" /\ x = words[a].s
  \/ list = "PROJECT" /\ b = a + 1 /\ words[a].t = "var" /\ x = words[a].s

ListClause(words, entries, sets) ==
  \E list \in DOMAIN ListField :
    /\ words[1] = Ident(list) /\ entries # <<>> /\ entries[1].at = 1
    /\ \A i \in DOMAIN entries :
         LET e == entries[i]
         IN /\ e.at \in 1..Len(words) /\ Beyond(words, entries, i) <= Len(words) + 1
            /\ i > 1 => words[e.at] = Comma
            /\ e.kind = list /\ IsItem(list, words, e.at + 1, Beyond(words, entries, i), e.says)
    /\ sets = [f \in {ListField[list]} |-> [i \in DOMAIN entries |-> entries[i].says]]

\* How many of the first i entries are of the kind, and what the m-th of these says.
Count(entries, kind, i) == Cardinality({j \in 1..i : entries[j].kind = kind})
Nth(entries, kind, m) == CHOOSE j \in DOMAIN entries : entries[j].kind = kind /\ Count(entries, kind, j) = m
Listed(entries, kind, i) == [m \in 1..Count(entries, kind, i) |-> entries[Nth(entries, kind, m)].says]

\* What the first i entries of a scope say.
ScopeSays(entries, i) ==
  [include |-> Listed(entries, "include", i), exclude |-> Listed(entries, "exclude", i),
   descendants |-> \A j \in 1..i : entries[j].kind # "no_descendants",
   ancestors |-> \E j \in 1..i : entries[j].kind = "ancestors"]

ScopeClause(words, entries, sets) ==
  /\ words[1] = Ident("SCOPE") /\ Len(words) >= 1
  /\ IF entries = <<>> THEN Len(words) = 1 ELSE entries[1].at = 2
  /\ \A i \in DOMAIN entries :
       LET e == entries[i]
       IN /\ e.at \in 1..Len(words) /\ Beyond(words, entries, i) <= Len(words) + 1
          /\ \/ words[e.at] = Ident(e.kind)
             \/ i > 1 /\ words[e.at] = Comma /\ e.kind = entries[i - 1].kind /\ e.kind \in {"include", "exclude"}
          /\ \/ /\ e.kind \in {"include", "exclude"} /\ Beyond(words, entries, i) = e.at + 2
                /\ words[e.at + 1].t \in {"angle", "prefixed"} /\ e.says = words[e.at + 1].s
             \/ e.kind \in {"no_descendants", "ancestors"} /\ Beyond(words, entries, i) = e.at + 1
  /\ sets = [scope |-> ScopeSays(entries, Len(entries))]

IsClause(c) ==
  \/ c.words = <<Semi>> /\ c.sets = <<>>
  \/ ValueClause(c.words, c.sets)
  \/ ListClause(c.words, c.entries, c.sets)
  \/ ScopeClause(c.words, c.entries, c.sets)

\* Where the n-th clause ends, the next one begins.
EndOf(clauses, n) == IF n = 0 THEN 1 ELSE clauses[n].from + Len(clauses[n].words)

IsList(s) == s \in Seq(Range(s))

IsLayout(tokens, clauses) ==
  /\ IsList(tokens) /\ IsList(clauses)
  /\ \A n \in DOMAIN clauses :
       LET c == clauses[n]
       IN /\ IsList(c.words) /\ IsList(c.entries)
          /\ c.from \in 1..Len(tokens) /\ c.from = EndOf(clauses, n - 1) /\ EndOf(clauses, n) <= Len(tokens)
          /\ \A m \in DOMAIN c.words : tokens[c.from + m - 1] = c.words[m]
          /\ IsClause(c)
  /\ tokens[EndOf(clauses, Len(clauses))] = Eof

\* What the first n clauses say.
Say(clauses, n, q) ==
  /\ q = [f \in DOMAIN DefaultQuery |-> q[f]]
  /\ \A f \in DOMAIN DefaultQuery :
       \/ q[f] = DefaultQuery[f] /\ \A m \in 1..n : f \notin DOMAIN clauses[m].sets
       \/ \E m \in 1..n : /\ f \in DOMAIN clauses[m].sets /\ q[f] = clauses[m].sets[f]
                          /\ \A l \in m + 1..n : f \notin DOMAIN clauses[l].sets

\* A text with the layout, which renders the query.
Renders(lexemes, clauses, q) ==
  Lexes(lexemes) /\ IsLayout(Lex(lexemes), clauses) /\ Say(clauses, Len(clauses), q)
=============================================================================
