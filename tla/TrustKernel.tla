---------------------------- MODULE TrustKernel ----------------------------
(***************************************************************************)
(* The trust kernel: policy capsules, their assignment to targets, and     *)
(* attestations (migrations 0111 and 0112).  donto_authorise and what it   *)
(* calls are STABLE functions, so a check reads one snapshot; every change *)
(* is one autocommit call.                                                 *)
(***************************************************************************)
EXTENDS Naturals

CONSTANTS
  Target,         \* what policies are assigned to (here: contexts)
  Policy,         \* policy IRIs
  Action,         \* the actions a capsule allows or forbids
  Allows,         \* allowed_actions of each capsule
  DefaultPolicy,  \* policy:default/restricted_pending_review
  Grant           \* the attestations issuers issue

All == "all"      \* in an attestation's list: every action

ASSUME CapsulesAllowActions == Allows \in [Policy -> SUBSET Action]
ASSUME DefaultIsAPolicy == DefaultPolicy \in Policy
ASSUME GrantsAreAttestations == \A g \in Grant : g.policy \in Policy /\ g.actions # {}

VARIABLES
  inForce,   \* capsules with revocation_status 'active' that have not expired
  assigned,  \* donto_access_assignment: <<target, policy>>
  attested   \* the attestations neither revoked nor expired

trust == <<inForce, assigned, attested>>

PoliciesOf(x) == {p \in Policy : <<x, p>> \in assigned}

\* donto_effective_actions: what every policy in force permits.
EffectiveActions(x) ==
  IF PoliciesOf(x) = {} THEN Allows[DefaultPolicy]
  ELSE {a \in Action : /\ PoliciesOf(x) \cap inForce # {}
                       /\ \A p \in PoliciesOf(x) \cap inForce : a \in Allows[p]}

\* donto_holder_can
HolderCan(h, p, a) ==
  \E g \in attested : g.holder = h /\ g.policy = p /\ {a, All} \cap g.actions # {}

\* donto_authorise
Authorise(h, x, a) == a \in EffectiveActions(x) \/ \E p \in PoliciesOf(x) : HolderCan(h, p, a)

-----------------------------------------------------------------------------
TrustInit ==
  /\ inForce = Policy
  /\ assigned = {}
  /\ attested = {}

\* donto_assign_policy
AssignPolicy(x, p) ==
  /\ assigned' = assigned \cup {<<x, p>>}
  /\ UNCHANGED <<inForce, attested>>

\* donto_issue_attestation
IssueAttestation(g) ==
  /\ attested' = attested \cup {g}
  /\ UNCHANGED <<inForce, assigned>>

\* donto_revoke_attestation, or expires_at passes.
EndAttestation(g) ==
  /\ g \in attested
  /\ attested' = attested \ {g}
  /\ UNCHANGED <<inForce, assigned>>

\* An operator revokes a capsule, or its expiry passes.
EndPolicy(p) ==
  /\ p \in inForce
  /\ inForce' = inForce \ {p}
  /\ UNCHANGED <<assigned, attested>>

TrustNext ==
  \/ \E x \in Target, p \in Policy : AssignPolicy(x, p)
  \/ \E g \in Grant : IssueAttestation(g) \/ EndAttestation(g)
  \/ \E p \in Policy : EndPolicy(p)

TrustTypeOK ==
  /\ inForce \subseteq Policy
  /\ assigned \subseteq Target \X Policy
  /\ attested \subseteq Grant
=============================================================================
