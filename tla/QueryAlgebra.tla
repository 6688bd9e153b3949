---------------------------- MODULE QueryAlgebra ----------------------------
(***************************************************************************)
(* The algebra both query languages compile to                             *)
(* (packages/donto-query/src/algebra.rs).  A term is a record whose one or *)
(* two fields tell its kind, so that terms of any kind can be compared.    *)
(***************************************************************************)
EXTENDS Integers, Sequences

CONSTANT None

Var(x) == [var |-> x]
Iri(i) == [iri |-> i]
Text(s, dt) == [lit |-> s, dt |-> dt]
Num(n) == [num |-> n, dt |-> "xsd:integer"]

\* The character that no text in the database holds.
Nul == "NUL"

IsVar(t) == "var" \in DOMAIN t
IsIri(t) == "iri" \in DOMAIN t
IsLiteral(t) == "dt" \in DOMAIN t
IsNumber(t) == "num" \in DOMAIN t

Pattern(s, p, o, g) == [subject |-> s, predicate |-> p, object |-> o, graph |-> g]
Filter(op, a, b) == [op |-> op, lhs |-> a, rhs |-> b]

\* ContextScope::anywhere and its default.
Anywhere == [include |-> <<>>, exclude |-> <<>>, descendants |-> TRUE, ancestors |-> FALSE]

\* ContextScope::any_of
AnyOf(cs) == [Anywhere EXCEPT !.include = cs]

Polarities == {"asserted", "negated", "absent", "unknown"}

DefaultQuery ==
  [scope |-> None, preset |-> None, patterns |-> <<>>, filters |-> <<>>,
   polarity |-> "asserted", maturity |-> 0, identity |-> "default",
   project |-> <<>>, limit |-> None, offset |-> None,
   expansion |-> [mode |-> "expand"], asOf |-> None, modality |-> None, level |-> None,
   policy |-> None, lens |-> None, expands |-> None, order |-> None, evidence |-> "none"]
=============================================================================
