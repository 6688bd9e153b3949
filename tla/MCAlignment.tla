---------------------------- MODULE MCAlignment ----------------------------
EXTENDS Alignment, TLC

CONSTANTS a, b, c, r1, r2

\* Two edges between the same predicates, which different statements select.
Edges ==
  {[src |-> a, tgt |-> b, rel |-> "exact_equivalent", conf |-> "low"],
   [src |-> b, tgt |-> a, rel |-> "close_match", conf |-> "low"],
   [src |-> c, tgt |-> a, rel |-> "sub_property_of", conf |-> "high"]}

\* a is an alias of b and, by mistake, its inverse: the alias wins.
Aliases == {<<a, b>>}
Inverses == {<<a, b>>}

Sessions == Permutations({r1, r2})
=============================================================================
