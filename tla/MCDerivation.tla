---------------------------- MODULE MCDerivation ----------------------------
(* A transitive and a symmetric rule over one predicate, and two edges that *)
(* may form a cycle.                                                        *)
EXTENDS Derivation

CONSTANTS src, out, p, plus, a, b

E(x, y) == [ctx |-> src, pred |-> p, from |-> x, to |-> y]
MCElsewhere == {E(a, b), E(b, a)}
Transitive == [kind |-> "transitive", pred |-> p, out |-> plus, scope |-> {src}, into |-> out]
Symmetric == [kind |-> "inverse", pred |-> p, out |-> p, scope |-> {src, out}, into |-> out]
MCRequest == {Transitive, Symmetric}
=============================================================================
