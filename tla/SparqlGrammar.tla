--------------------------- MODULE SparqlGrammar ----------------------------
(***************************************************************************)
(* What a SPARQL text says, whatever translates it.  A layout cuts a text  *)
(* into units - a declaration, a variable, a pattern, a filter, the edges  *)
(* of a block - and each unit into parts, between which only blanks and    *)
(* comments stand.  It keeps to what the translator reads: no comment      *)
(* before PREFIX, SELECT, LIMIT and OFFSET or after a star; the local part *)
(* of a name is not empty and goes as far as it can, a full stop and a "#" *)
(* included, so that a comment keeps away from the name before it; and no  *)
(* pattern begins with a name whose prefix is GRAPH or FILTER.             *)
(***************************************************************************)
EXTENDS DontoQLGrammar

VARIABLES prefixes, graphs

S == INSTANCE Sparql

Blanks == {"blank", "newline"}

IsSign(piece, signs) == piece.u = "sign" /\ piece.s \in signs

\* Nothing but blanks stands from i to j - 1.
Blank(t, i, j) == i <= j /\ \A k \in i..j - 1 : t[k].u \in Blanks

\* A comment begun at i or later goes on at k: no line has ended since its "#".
Comment(t, i, k) == \E c \in i..k - 1 : IsSign(t[c], {"#"}) /\ \A l \in c..k - 1 : t[l].u # "newline"

\* Nothing but blanks and comments stands from i to j - 1.
Void(t, i, j) == i <= j /\ \A k \in i..j - 1 : t[k].u \in Blanks \/ IsSign(t[k], {"#"}) \/ Comment(t, i, k)

\* Such a gap, where something else may stand at j.
Gap(t, i, j) == Void(t, i, j) /\ ~Comment(t, i, j)

\* A part that is one piece.
IsPiece(t, part, piece) == part.to = part.from + 1 /\ t[part.from] = piece
IsKind(t, part, kind) == part.to = part.from + 1 /\ t[part.from].u = kind

\* The IRI of a prefixed name: an undeclared prefix stays.
Expanded(d, prefix, local) ==
  IF prefix \in DOMAIN d THEN <<d[prefix], local>> ELSE <<prefix, ":", local>>

IsLocal(piece) == piece.u \in {"word", "number"} \/ IsSign(piece, {"-", ".", "/", "#"})

\* The pieces from a to b - 1 are a name, and no longer one is there.
NameAt(t, a, b) ==
  /\ t[a].u = "word" /\ t[a + 1] = S!Sign(":") /\ a + 2 < b /\ ~IsSign(t[a + 2], {"#"})
  /\ \A k \in a + 2..b - 1 : IsLocal(t[k])
  /\ b \in DOMAIN t /\ ~IsLocal(t[b])

LiteralAt(t, d, a, b, x) ==
  /\ t[a].u = "string"
  /\ \/ b = a + 1 /\ x = Text(t[a].s, "xsd:string")
     \/ /\ b = a + 3 /\ t[a + 1] = S!Sign("@") /\ t[a + 2].u = "word"
        /\ x = [lit |-> t[a].s, dt |-> "rdf:langString", lang |-> t[a + 2].s]
     \/ /\ b = a + 3 /\ t[a + 1] = S!Sign("^^") /\ t[a + 2].u = "iri"
        /\ x = [lit |-> t[a].s, dt |-> <<t[a + 2].s>>]
     \/ /\ b = a + 5 /\ t[a + 1] = S!Sign("^^")
        /\ t[a + 2].u = "word" /\ t[a + 3] = S!Sign(":") /\ t[a + 4].u = "word"
        /\ x = [lit |-> t[a].s, dt |-> Expanded(d, t[a + 2].s, <<t[a + 4]>>)]

VariableAt(t, a, b) == b = a + 2 /\ t[a] = S!Sign("?") /\ t[a + 1].u = "word"

\* A part and the term it spells, where d has the IRIs of the prefixes.
Spells(t, d, part, x) ==
  LET a == part.from
      b == part.to
  IN \/ VariableAt(t, a, b) /\ x = Var(t[a + 1].s)
     \/ IsKind(t, part, "iri") /\ x = Iri(<<t[a].s>>)
     \/ IsKind(t, part, "number") /\ x = Num(t[a].n)
     \/ LiteralAt(t, d, a, b, x)
     \/ NameAt(t, a, b) /\ x = Iri(Expanded(d, t[a].s, SubSeq(t, a + 2, b - 1)))

-----------------------------------------------------------------------------
(* Units *)

\* The part of the text where units of a kind stand, and the one after them.
Place(kind) ==
  CASE kind \in {"prefix", "select"} -> "prologue"
    [] kind \in {"var", "where"} -> "variables"
    [] kind \in {"triple", "filter", "dot", "graph", "close", "end"} -> "block"
    [] kind \in {"limit", "offset"} -> "tail"
Leads(kind) ==
  CASE kind = "select" -> "variables" [] kind = "where" -> "block" [] kind = "end" -> "tail"
    [] OTHER -> Place(kind)

\* The kinds of units with nothing but blanks before them.
Bare == {"prefix", "select", "limit", "offset"}

IsUnit(t, u) ==
  LET p == u.parts
      d == u.declared
  IN \/ /\ u.kind = "prefix" /\ Len(p) = 3
        /\ IsPiece(t, p[1], S!AWord("PREFIX"))
        /\ p[2].to = p[2].from + 2 /\ t[p[2].from].u = "word" /\ t[p[2].from + 1] = S!Sign(":")
        /\ IsKind(t, p[3], "iri")
        /\ u.says = [name |-> t[p[2].from].s, iri |-> t[p[3].from].s]
     \/ u.kind = "select" /\ Len(p) = 1 /\ IsPiece(t, p[1], S!AWord("SELECT"))
     \/ u.kind = "var" /\ Len(p) = 1 /\ VariableAt(t, p[1].from, p[1].to) /\ u.says = t[p[1].from + 1].s
     \/ /\ u.kind = "where" /\ Len(p) = 2
        /\ IsPiece(t, p[1], S!AWord("WHERE")) /\ IsPiece(t, p[2], S!Sign("{"))
     \/ /\ u.kind = "where" /\ Len(p) = 3 /\ IsPiece(t, p[1], S!Sign("*"))
        /\ IsPiece(t, p[2], S!AWord("WHERE")) /\ IsPiece(t, p[3], S!Sign("{"))
     \/ /\ u.kind = "triple" /\ Len(p) = 3
        /\ u.says = Pattern(u.says.subject, u.says.predicate, u.says.object,
                            IF u.graphs = <<>> THEN None ELSE Last(u.graphs))
        /\ t[p[1].from].u = "word" => t[p[1].from].s \notin {"GRAPH", "FILTER"}
        /\ Spells(t, d, p[1], u.says.subject) /\ Spells(t, d, p[2], u.says.predicate)
        /\ Spells(t, d, p[3], u.says.object)
     \/ /\ u.kind = "filter" /\ Len(p) = 6
        /\ IsPiece(t, p[1], S!AWord("FILTER")) /\ IsPiece(t, p[2], S!Sign("(")) /\ IsPiece(t, p[6], S!Sign(")"))
        /\ u.says = Filter(u.says.op, u.says.lhs, u.says.rhs) /\ u.says.op \in {"=", "!=", "<", "<=", ">", ">="}
        /\ Spells(t, d, p[3], u.says.lhs) /\ IsPiece(t, p[4], S!Sign(u.says.op)) /\ Spells(t, d, p[5], u.says.rhs)
     \/ u.kind = "dot" /\ Len(p) = 1 /\ IsPiece(t, p[1], S!Sign("."))
     \/ /\ u.kind = "graph" /\ Len(p) = 3
        /\ IsPiece(t, p[1], S!AWord("GRAPH")) /\ Spells(t, d, p[2], u.says) /\ IsPiece(t, p[3], S!Sign("{"))
     \/ /\ u.kind = (IF u.graphs = <<>> THEN "end" ELSE "close") /\ Len(p) = 1
        /\ IsPiece(t, p[1], S!Sign("}"))
     \/ /\ u.kind \in {"limit", "offset"} /\ Len(p) = 2
        /\ IsPiece(t, p[1], S!AWord(IF u.kind = "limit" THEN "LIMIT" ELSE "OFFSET"))
        /\ IsKind(t, p[2], "number") /\ u.says = t[p[2].from].n

\* Where the n-th unit ends.
EndsAt(us, n) == IF n = 0 THEN 1 ELSE us[n].parts[Len(us[n].parts)].to

\* The GRAPH blocks around what follows the n-th unit, the innermost one last.
Around(us, n) ==
  IF n = 0 THEN <<>>
  ELSE CASE us[n].kind = "graph" -> Append(us[n].graphs, us[n].says)
         [] us[n].kind = "close" -> Front(us[n].graphs)
         [] OTHER -> us[n].graphs

\* The IRI of every prefix the first n units declare, by the last that does.
Declares(us, n, d) ==
  LET Of(p) == {m \in 1..n : us[m].kind = "prefix" /\ us[m].says.name = p}
  IN /\ d = [p \in DOMAIN d |-> d[p]]
     /\ \A m \in 1..n : us[m].kind = "prefix" => us[m].says.name \in DOMAIN d
     /\ \A p \in DOMAIN d : \E m \in Of(p) : d[p] = us[m].says.iri /\ \A l \in Of(p) : l <= m

ArePartsOf(t, parts) ==
  /\ IsList(parts) /\ parts # <<>>
  /\ \A m \in DOMAIN parts :
       /\ parts[m].from \in DOMAIN t /\ parts[m].to \in 1..Len(t) + 1 /\ parts[m].from < parts[m].to
       /\ m > 1 => IF t[parts[m - 1].from] = S!Sign("*") THEN Blank(t, parts[m - 1].to, parts[m].from)
                   ELSE Gap(t, parts[m - 1].to, parts[m].from)

IsCut(t, us) ==
  /\ IsList(t) /\ IsList(us) /\ us # <<>> /\ Leads(us[Len(us)].kind) = "tail"
  /\ \E j \in EndsAt(us, Len(us))..Len(t) + 1 :
       /\ Blank(t, EndsAt(us, Len(us)), j) /\ Void(t, j, Len(t) + 1)
       /\ j \in DOMAIN t => IsSign(t[j], {"#"})
  /\ \A n \in DOMAIN us :
       LET u == us[n]
       IN /\ ArePartsOf(t, u.parts)
          /\ IF u.kind \in Bare THEN Blank(t, EndsAt(us, n - 1), u.parts[1].from)
             ELSE Gap(t, EndsAt(us, n - 1), u.parts[1].from)
          /\ Place(u.kind) = IF n = 1 THEN "prologue" ELSE Leads(us[n - 1].kind)
          /\ u.graphs = Around(us, n - 1) /\ Declares(us, n - 1, u.declared)
          /\ IsUnit(t, u)

\* What the first n units say: the patterns, filters and variables in their
\* order, and the last limit and offset.
Mean(us, n, q) ==
  /\ q = [f \in DOMAIN DefaultQuery |-> q[f]]
  /\ q.patterns = Listed(us, "triple", n) /\ q.filters = Listed(us, "filter", n)
  /\ q.project = Listed(us, "var", n)
  /\ \A f \in {"limit", "offset"} :
       \/ q[f] = DefaultQuery[f] /\ \A m \in 1..n : us[m].kind # f
       \/ \E m \in 1..n : /\ us[m].kind = f /\ q[f] = us[m].says
                          /\ \A l \in m + 1..n : us[l].kind # f
  /\ \A f \in DOMAIN DefaultQuery \ {"patterns", "filters", "project", "limit", "offset"} : q[f] = DefaultQuery[f]

\* A text with the layout, which renders the query.
RendersSelect(t, us, q) == IsCut(t, us) /\ Mean(us, Len(us), q)
=============================================================================
