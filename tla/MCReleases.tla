----------------------------- MODULE MCReleases -----------------------------
(* One context below another, one capsule beside the default one, and one   *)
(* attestation for the anonymous holder.                                    *)
EXTENDS Releases, TLC

CONSTANTS root, child, open, default, b1, b2, i1, i2

MCUnder == (root :> {root, child}) @@ (child :> {child})
MCAction == {"read_metadata", "export_claims"}
MCAllows == (open :> MCAction) @@ (default :> {"read_metadata"})
MCGrant == {[holder |-> Anonymous, policy |-> open, actions |-> {All}]}
MCContent == {[ctx |-> root, polarity |-> "asserted"], [ctx |-> child, polarity |-> "negated"]}
PublicSpecs == [root : {root}, asOf : {0, Now}, minMat : {0}, public : {TRUE}, cldf : {FALSE}]
InternalSpecs == [root : {root}, asOf : {Now}, minMat : {1}, public : {FALSE}, cldf : {TRUE}]
MCSpecs == PublicSpecs \cup InternalSpecs
MCSymmetry == Permutations(Builder) \cup Permutations(Id)
=============================================================================
