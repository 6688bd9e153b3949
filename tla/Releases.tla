------------------------------ MODULE Releases ------------------------------
(***************************************************************************)
(* Building a dataset release while the data and the policies change:      *)
(* donto_release::build_release and the rest of `donto release pipeline`.  *)
(*                                                                         *)
(* The ledger below it is what Ledger is shown to implement, the BeliefLog *)
(* whose publications appear at the time their transaction began.  A build *)
(* reads the statements of its scope, asks the trust kernel about one      *)
(* contributing context after the other, signs the manifest, and, for a    *)
(* CLDF release, reads the statements a second time and writes them out.   *)
(* Each of these is a round trip to the server with its own snapshot.      *)
(***************************************************************************)
EXTENDS TrustKernel

CONSTANTS
  Builder,      \* runs of the pipeline
  Id,           \* statement ids
  Content,      \* what is stated: records with ctx and polarity
  Under,        \* the contexts in the scope of each context, itself included
  ReleaseSpec,  \* what is asked for: [root, asOf, minMat, public, cldf]
  MaxTime,      \* bound on transaction times
  MaxChanges,   \* bound on changes to the data and to the policies
  Now,          \* a spec's asOf when it has none
  Open, Absent

Anonymous == "agent:anonymous"
Probe == "read"   \* the action the policy gate asks for

ASSUME BoundsAreNatural == MaxTime \in Nat /\ MaxChanges \in Nat
ASSUME ScopesAreContexts == Under \in [Target -> SUBSET Target]
ASSUME ContentIsInContexts == \A c \in Content : c.ctx \in Target
ASSUME AbsentName == Absent \notin [content : Content, lo : 0..MaxTime, hi : 0..MaxTime \cup {Open}]
ASSUME SpecsAreSpecs ==
  ReleaseSpec \subseteq [root : Target, asOf : 0..MaxTime \cup {Now}, minMat : 0..1,
                         public : BOOLEAN, cldf : BOOLEAN]

VARIABLES
  log,      \* donto_statement, as its readers see it
  mature,   \* statements of maturity 1; the others have 0
  clock,    \* the server's clock
  changes,  \* changes so far
  pc,       \* what each build does next
  spec,     \* its ReleaseSpec
  listed,   \* the manifest's statement_checksums: <<id, maturity>>
  probed,   \* the contexts the gate has asked about
  cleared,  \* those for which the answer was yes
  failed,   \* those for which the call failed, which counts as a no
  exported, \* the statements of its CLDF tables
  steady    \* history: whether what it reads has stayed the same since it began

data == <<log, mature, clock>>
build == <<pc, spec, listed, probed, cleared, failed, exported>>
vars == <<trust, data, changes, build, steady>>

Ledger == INSTANCE BeliefLog WITH Time <- 0..MaxTime

NoSpec == [root |-> "none"]

-----------------------------------------------------------------------------
(* donto_match over a scope *)

\* As if as_of were ignored.
InForceAt_now(i, u) == log[i] # Absent /\ log[i].hi = Open

\* Row i is in force at transaction time u (tx_time @> u), or now.
InForceAt(i, u) ==
  /\ log[i] # Absent
  /\ IF u = Now THEN log[i].hi = Open
     ELSE log[i].lo <= u /\ (log[i].hi = Open \/ u < log[i].hi)

Maturity(i) == IF i \in mature THEN 1 ELSE 0

Match(s) ==
  {i \in Id : /\ InForceAt(i, s.asOf)
              /\ log[i].content.ctx \in Under[s.root]
              /\ Maturity(i) >= s.minMat}

Listing(s) == {<<i, Maturity(i)>> : i \in Match(s)}
Contributing(ls) == {log[e[1]].content.ctx : e \in ls}
Asserted(ids) == {i \in ids : log[i].content.polarity = "asserted"}

-----------------------------------------------------------------------------
Init ==
  /\ TrustInit
  /\ Ledger!Init /\ mature = {} /\ clock = 0 /\ changes = 0
  /\ pc = [b \in Builder |-> "idle"]
  /\ spec = [b \in Builder |-> NoSpec]
  /\ listed = [b \in Builder |-> {}]
  /\ probed = [b \in Builder |-> {}]
  /\ cleared = [b \in Builder |-> {}]
  /\ failed = [b \in Builder |-> {}]
  /\ exported = [b \in Builder |-> {}]
  /\ steady = [b \in Builder |-> TRUE]

Tick ==
  /\ clock < MaxTime
  /\ clock' = clock + 1
  /\ UNCHANGED <<trust, log, mature, changes, build, steady>>

\* What the builds in touched read is no longer what it was.
Change(touched) ==
  /\ changes < MaxChanges
  /\ changes' = changes + 1
  /\ steady' = [b \in Builder |-> steady[b] /\ b \notin touched]
  /\ UNCHANGED build

\* Builds that see a change to the log at time u.
Seeing(u) == {b \in Builder : spec[b] # NoSpec /\ (spec[b].asOf = Now \/ u <= spec[b].asOf)}

\* A call that asserts, retracts or corrects commits; it began at u.
Write(u, new, f, gone) ==
  /\ new \cup gone # {}
  /\ \A i \in gone : log[i].lo < u
  /\ Ledger!Publish(u, new, f, gone)
  /\ Ledger!NoContentTwice'
  /\ Change(Seeing(u))
  /\ UNCHANGED <<trust, mature, clock>>

\* update donto_statement set flags: a statement's maturity is raised.
Promote(i) ==
  /\ log[i] # Absent /\ i \notin mature
  /\ mature' = mature \cup {i}
  /\ Change(Builder)
  /\ UNCHANGED <<trust, log, clock>>

\* A policy is assigned, an attestation issued, or either comes to an end.
Govern ==
  /\ TrustNext
  /\ trust' # trust
  /\ Change(Builder)
  /\ UNCHANGED data

\* build_release: match_pattern over the spec's contexts.
Read(b, s) ==
  /\ pc[b] = "idle"
  /\ spec' = [spec EXCEPT ![b] = s]
  /\ listed' = [listed EXCEPT ![b] = Listing(s)]
  /\ pc' = [pc EXCEPT ![b] = "probe"]
  /\ steady' = [steady EXCEPT ![b] = TRUE]
  /\ UNCHANGED <<trust, data, changes, probed, cleared, failed, exported>>

\* evaluate_policy: donto_authorise for the next contributing context.
AskPolicy(b, x) ==
  /\ pc[b] = "probe"
  /\ x \in Contributing(listed[b]) \ probed[b]
  /\ probed' = [probed EXCEPT ![b] = @ \cup {x}]
  /\ \/ /\ cleared' = [cleared EXCEPT ![b] =
                         IF Authorise(Anonymous, x, Probe) THEN @ \cup {x} ELSE @]
        /\ UNCHANGED failed
     \/ /\ failed' = [failed EXCEPT ![b] = @ \cup {x}]
        /\ UNCHANGED cleared
  /\ UNCHANGED <<trust, data, changes, pc, spec, listed, exported, steady>>

\* As if a failing call counted as a yes (unwrap_or(true)).
Releasable_failOpen(b) == spec[b].public => cleared[b] \cup failed[b] = probed[b]

Releasable(b) == spec[b].public => cleared[b] = probed[b]

\* The gate refuses, or the manifest is hashed, written and signed.
Sign(b) ==
  /\ pc[b] = "probe"
  /\ Contributing(listed[b]) \subseteq probed[b]
  /\ pc' = [pc EXCEPT ![b] = IF ~ Releasable(b) THEN "refused"
                             ELSE IF spec[b].cldf THEN "export" ELSE "done"]
  /\ UNCHANGED <<trust, data, changes, spec, listed, probed, cleared, failed, exported, steady>>

\* The statements are read again, asserted ones only, and written as CLDF.
Export(b) ==
  /\ pc[b] = "export"
  /\ exported' = [exported EXCEPT ![b] = Asserted(Match(spec[b]))]
  /\ pc' = [pc EXCEPT ![b] = "done"]
  /\ UNCHANGED <<trust, data, changes, spec, listed, probed, cleared, failed, steady>>

Writes ==
  \E u \in 0..clock, i, j \in Id, c \in Content :
    \/ log[i] = Absent /\ Write(u, {i}, [n \in {i} |-> c], {})
    \/ Ledger!Held(j) /\ Write(u, {}, <<>>, {j})
    \/ log[i] = Absent /\ Ledger!Held(j) /\ Write(u, {i}, [n \in {i} |-> c], {j})

Next ==
  \/ Tick \/ Writes \/ Govern
  \/ \E i \in Id : Promote(i)
  \/ \E b \in Builder :
       \/ \E s \in ReleaseSpec : Read(b, s)
       \/ \E x \in Target : AskPolicy(b, x)
       \/ Sign(b) \/ Export(b)

Spec == Init /\ [][Next]_vars

-----------------------------------------------------------------------------
(* Properties *)

\* The variables keep their types: the trust kernel's tables, the ledger as
\* BeliefLog describes it, and what the builds have collected.
TypeOK ==
  /\ TrustTypeOK
  /\ log \in [Id -> {Absent} \cup [content : Content, lo : 0..MaxTime, hi : 0..MaxTime \cup {Open}]]
  /\ mature \subseteq {i \in Id : log[i] # Absent}
  /\ clock \in 0..MaxTime /\ changes \in 0..MaxChanges
  /\ pc \in [Builder -> {"idle", "probe", "refused", "export", "done"}]
  /\ spec \in [Builder -> ReleaseSpec \cup {NoSpec}]
  /\ listed \in [Builder -> SUBSET ({i \in Id : log[i] # Absent} \X {0, 1})]
  /\ probed \in [Builder -> SUBSET Target]
  /\ cleared \in [Builder -> SUBSET Target]
  /\ failed \in [Builder -> SUBSET Target]
  /\ exported \in [Builder -> SUBSET {i \in Id : log[i] # Absent}]
  /\ steady \in [Builder -> BOOLEAN]

\* Every statement a public release lists is in a context for which the gate
\* was told yes, contexts below the one the spec names included, whatever
\* happens to data, policies and the gate's calls meanwhile
\* (builder.rs: "the policy gate must clear every contributing context").
PublicManifestIsCleared ==
  \A b \in Builder : pc[b] \in {"export", "done"} /\ spec[b].public =>
    \A e \in listed[b] : log[e[1]].content.ctx \in cleared[b]

\* Two builds of one spec list the same statements with the same maturities,
\* and end the same way, unless something either read has changed since, or a
\* call of a gate failed; a change later than the spec's as_of does not count
\* (builder.rs: "same data + same spec -> same checksums").
RebuildRepeats ==
  \A b, d \in Builder :
    /\ "idle" \notin {pc[b], pc[d]} /\ spec[b] = spec[d]
    /\ steady[b] /\ steady[d]
    => /\ listed[b] = listed[d]
       /\ /\ "probe" \notin {pc[b], pc[d]}
          /\ failed[b] \cup failed[d] = {}
          => cleared[b] = cleared[d] /\ (pc[b] = "refused" <=> pc[d] = "refused")
=============================================================================
