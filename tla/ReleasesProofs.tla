--------------------------- MODULE ReleasesProofs ---------------------------
(***************************************************************************)
(* What TLAPS proves of Releases: a public manifest lists only statements  *)
(* of contexts the gate cleared, whatever builders, statements, contexts,  *)
(* policies and release specs there are.                                   *)
(***************************************************************************)
EXTENDS Releases, TLAPS

Present == {i \in Id : log[i] # Absent}
Row == [content : Content, lo : 0..MaxTime, hi : 0..MaxTime \cup {Open}]

\* A change to the log keeps every row there is, and its content.
RowsStay ==
  /\ log' \in [Id -> {Absent} \cup Row]
  /\ \A i \in Present : log'[i] # Absent /\ log'[i].content = log[i].content

USE AbsentName DEF Row

\* What Writes may do to the log.
LEMMA WritesKeepRows ==
  ASSUME TypeOK, Writes
  PROVE  RowsStay
<1>. USE DEF TypeOK, Present, RowsStay
<1>1. PICK u \in 0..clock, i \in Id, j \in Id, c \in Content :
        \/ log[i] = Absent /\ Write(u, {i}, [n \in {i} |-> c], {})
        \/ Ledger!Held(j) /\ Write(u, {}, <<>>, {j})
        \/ log[i] = Absent /\ Ledger!Held(j) /\ Write(u, {i}, [n \in {i} |-> c], {j})
  BY DEF Writes
<1>2. u \in 0..MaxTime
  BY BoundsAreNatural
<1>. DEFINE After(new, gone) ==
              [k \in Id |-> IF k \in new THEN [content |-> c, lo |-> u, hi |-> Open]
                           ELSE IF k \in gone THEN [log[k] EXCEPT !.hi = u]
                           ELSE log[k]]
<1>3. ASSUME NEW new \in SUBSET {i}, NEW gone \in SUBSET {j},
             \A n \in new : log[n] = Absent,
             \A n \in gone : log[n] # Absent,
             log' = After(new, gone)
      PROVE  RowsStay
  <2>1. log' = [k \in Id |->
                  IF k \in new THEN [content |-> c, lo |-> u, hi |-> Open]
                  ELSE IF k \in gone THEN [log[k] EXCEPT !.hi = u]
                  ELSE log[k]]
    BY <1>3
  <2>2. ASSUME NEW k \in new
        PROVE  log'[k] \in Row /\ k \notin Present
    BY <1>2, <1>3, <2>1
  <2>3. ASSUME NEW k \in Present
        PROVE  log'[k] \in Row /\ log'[k].content = log[k].content
    <3>1. log[k] \in Row /\ k \notin new
      BY <1>3
    <3>2. log'[k] = log[k] \/ log'[k] = [log[k] EXCEPT !.hi = u]
      BY <2>1, <3>1
    <3>3. log[k] = [content |-> log[k].content, lo |-> log[k].lo, hi |-> log[k].hi]
      BY <3>1
    <3>4. [log[k] EXCEPT !.hi = u] = [content |-> log[k].content, lo |-> log[k].lo, hi |-> u]
      BY <3>3
    <3>. QED BY <1>2, <3>1, <3>2, <3>4
  <2>4. ASSUME NEW k \in Id \ (Present \cup new)
        PROVE  log'[k] = Absent
    BY <1>3, <2>1
  <2>5. \A k \in Id : log'[k] \in {Absent} \cup Row
    BY <2>2, <2>3, <2>4
  <2>6. log' = [k \in Id |-> log'[k]]
    BY <2>1
  <2>7. log' \in [Id -> {Absent} \cup Row]
    BY <2>5, <2>6
  <2>8. \A k \in Present : log'[k] # Absent /\ log'[k].content = log[k].content
    BY <2>3
  <2>. QED BY <2>7, <2>8
<1>. HIDE DEF After
<1>4. CASE log[i] = Absent /\ Write(u, {i}, [n \in {i} |-> c], {})
  <2>1. log' = After({i}, {})
    BY <1>4 DEF Write, Ledger!Publish, After
  <2>2. /\ {i} \in SUBSET {i} /\ {} \in SUBSET {j}
        /\ \A n \in {i} : log[n] = Absent
        /\ \A n \in {} : log[n] # Absent
    BY <1>4
  <2>. QED BY <2>1, <2>2, <1>3
<1>5. CASE Ledger!Held(j) /\ Write(u, {}, <<>>, {j})
  <2>1. log' = After({}, {j})
    BY <1>5 DEF Write, Ledger!Publish, After
  <2>2. /\ {} \in SUBSET {i} /\ {j} \in SUBSET {j}
        /\ \A n \in {} : log[n] = Absent
        /\ \A n \in {j} : log[n] # Absent
    BY <1>5 DEF Ledger!Held
  <2>. QED BY <2>1, <2>2, <1>3
<1>6. CASE log[i] = Absent /\ Ledger!Held(j) /\ Write(u, {i}, [n \in {i} |-> c], {j})
  <2>1. log' = After({i}, {j})
    BY <1>6 DEF Write, Ledger!Publish, After
  <2>2. /\ {i} \in SUBSET {i} /\ {j} \in SUBSET {j}
        /\ \A n \in {i} : log[n] = Absent
        /\ \A n \in {j} : log[n] # Absent
    BY <1>6 DEF Ledger!Held
  <2>. QED BY <2>1, <2>2, <1>3
<1>. QED BY <1>1, <1>4, <1>5, <1>6

\* What a build reads, is present.
LEMMA ListingType ==
  ASSUME NEW s
  PROVE  /\ Match(s) \subseteq Present
         /\ Listing(s) \subseteq Present \X {0, 1}
BY DEF Match, Listing, InForceAt, Present, Maturity

\* Contexts of listed statements are contexts.
LEMMA ContributingType ==
  ASSUME TypeOK, NEW b \in Builder
  PROVE  Contributing(listed[b]) \subseteq Target
<1>1. \A e \in listed[b] : log[e[1]] \in Row
  BY DEF TypeOK, Contributing
<1>. QED BY <1>1, ContentIsInContexts DEF Contributing

-----------------------------------------------------------------------------
(* Types *)

\* The tables of the trust kernel, the ledger and the builds keep their types.
THEOREM Typing == Spec => []TypeOK
<1>1. Init => TypeOK
  BY BoundsAreNatural DEF Init, TypeOK, TrustInit, TrustTypeOK, Ledger!Init
<1>2. TypeOK /\ [Next]_vars => TypeOK'
  <2> SUFFICES ASSUME TypeOK, [Next]_vars PROVE TypeOK'
    OBVIOUS
  <2>. USE BoundsAreNatural DEF TypeOK
  <2>1. CASE Tick
    BY <2>1 DEF Tick, data, build, trust, TrustTypeOK
  <2>2. ASSUME NEW touched, Change(touched)
        PROVE  /\ changes' \in 0..MaxChanges /\ steady' \in [Builder -> BOOLEAN]
               /\ UNCHANGED build
    BY <2>2 DEF Change
  <2>3. CASE Writes
    <3>1. UNCHANGED <<trust, mature, clock>> /\ \E touched : Change(touched)
      BY <2>3 DEF Writes, Write
    <3>. QED BY <2>2, <3>1, <2>3, WritesKeepRows DEF RowsStay, Present, Row, build, trust, TrustTypeOK
  <2>4. CASE Govern
    <3>1. UNCHANGED data /\ Change(Builder)
      BY <2>4 DEF Govern
    <3>2. TrustTypeOK'
      BY <2>4, GrantsAreAttestations DEF Govern, TrustNext, TrustTypeOK, AssignPolicy, IssueAttestation, EndAttestation, EndPolicy
    <3>. QED BY <2>2, <3>1, <3>2 DEF data, build
  <2>5. ASSUME NEW i \in Id, Promote(i) PROVE TypeOK'
    <3>1. UNCHANGED <<trust, log, clock>> /\ Change(Builder)
      BY <2>5 DEF Promote
    <3>. QED BY <2>2, <3>1, <2>5 DEF Promote, build, trust, TrustTypeOK
  <2>6. ASSUME NEW b \in Builder, NEW s \in ReleaseSpec, Read(b, s) PROVE TypeOK'
    BY <2>6, ListingType DEF Read, Present, data, trust, TrustTypeOK
  <2>7. ASSUME NEW b \in Builder, NEW x \in Target, AskPolicy(b, x) PROVE TypeOK'
    BY <2>7 DEF AskPolicy, data, trust, TrustTypeOK
  <2>8. ASSUME NEW b \in Builder, Sign(b) PROVE TypeOK'
    BY <2>8 DEF Sign, data, trust, TrustTypeOK
  <2>9. ASSUME NEW b \in Builder, Export(b) PROVE TypeOK'
    BY <2>9, ListingType DEF Export, Asserted, Present, data, trust, TrustTypeOK
  <2>10. CASE UNCHANGED vars
    BY <2>10 DEF vars, data, build, trust, TrustTypeOK
  <2>. QED BY <2>1, <2>3, <2>4, <2>5, <2>6, <2>7, <2>8, <2>9, <2>10 DEF Next
<1>. QED BY <1>1, <1>2, PTL DEF Spec

-----------------------------------------------------------------------------
(* The gate *)

\* A build that passed the gate asked about every context it lists, and a
\* public one heard only yes.
GatePassed ==
  \A b \in Builder : pc[b] \in {"export", "done"} =>
    Contributing(listed[b]) \subseteq probed[b] /\ Releasable(b)

\* The contexts of a listing are those it had when it was read.
LEMMA ContributingStays ==
  ASSUME TypeOK, RowsStay, NEW b \in Builder, UNCHANGED build
  PROVE  Contributing(listed[b])' = Contributing(listed[b])
<1>1. listed'[b] = listed[b]
  BY DEF build
<1>2. \A e \in listed[b] : log'[e[1]].content = log[e[1]].content
  BY DEF TypeOK, RowsStay, Present
<1>. QED BY <1>1, <1>2 DEF Contributing

\* Every statement a public release lists is in a context that was cleared.
THEOREM PublicIsCleared == Spec => []PublicManifestIsCleared
<1>1. Init => GatePassed
  BY DEF Init, GatePassed
<1>2. TypeOK /\ GatePassed /\ [Next]_vars => GatePassed'
  <2> SUFFICES ASSUME TypeOK, GatePassed, [Next]_vars PROVE GatePassed'
    OBVIOUS
  <2>. USE DEF GatePassed, Releasable
  <2>1. ASSUME UNCHANGED build, RowsStay PROVE GatePassed'
    BY <2>1, ContributingStays DEF build
  <2>2. log' = log => RowsStay
    BY DEF TypeOK, RowsStay, Present
  <2>3. CASE Writes
    BY <2>1, <2>3, WritesKeepRows DEF Writes, Write, Change
  <2>4. CASE Tick \/ Govern \/ (\E i \in Id : Promote(i)) \/ UNCHANGED vars
    BY <2>1, <2>2, <2>4 DEF Tick, Govern, Promote, Change, vars, data
  <2>5. ASSUME NEW b \in Builder, NEW s \in ReleaseSpec, Read(b, s) PROVE GatePassed'
    BY <2>5 DEF Read, TypeOK, data, Contributing
  <2>6. ASSUME NEW b \in Builder, NEW x \in Target, AskPolicy(b, x) PROVE GatePassed'
    BY <2>6 DEF AskPolicy, TypeOK, data, Contributing
  <2>7. ASSUME NEW b \in Builder, Sign(b) PROVE GatePassed'
    BY <2>7 DEF Sign, TypeOK, data, Contributing
  <2>8. ASSUME NEW b \in Builder, Export(b) PROVE GatePassed'
    BY <2>8 DEF Export, TypeOK, data, Contributing
  <2>. QED BY <2>3, <2>4, <2>5, <2>6, <2>7, <2>8 DEF Next
<1>3. GatePassed => PublicManifestIsCleared
  BY DEF GatePassed, Releasable, PublicManifestIsCleared, Contributing
<1>. QED BY <1>1, <1>2, <1>3, Typing, PTL DEF Spec

-----------------------------------------------------------------------------
(* Rebuilding *)

\* Nothing but idle and ended builds lie beside those that are under way, and
\* an ended one has asked about every context and ended as the answers say.
IdleIsEmpty(b) ==
  pc[b] = "idle" => spec[b] = NoSpec /\ probed[b] = {} /\ cleared[b] = {} /\ failed[b] = {}

Ended(b) ==
  /\ pc[b] \in {"export", "done", "refused"} => Contributing(listed[b]) \subseteq probed[b]
  /\ pc[b] = "refused" => ~ Releasable(b)
  /\ pc[b] \in {"export", "done"} => Releasable(b)

\* What a build has read is what it would read now, as long as nothing it reads
\* has changed: its listing, and the answers of the gate.
Current(b) ==
  pc[b] # "idle" /\ steady[b] =>
    /\ listed[b] = Listing(spec[b])
    /\ probed[b] \subseteq Contributing(listed[b])
    /\ failed[b] = {} => cleared[b] = {x \in probed[b] : Authorise(Anonymous, x, Probe)}

RepeatInv ==
  \A b \in Builder :
    /\ IdleIsEmpty(b) /\ Ended(b) /\ Current(b)
    /\ pc[b] # "idle" => spec[b] \in ReleaseSpec

\* What a publication at time u does to a row: nothing, open it, or close it.
WrittenAt(u, k) ==
  \/ log'[k] = log[k]
  \/ log[k] = Absent /\ log'[k].lo = u
  \/ /\ log[k] # Absent /\ log[k].hi = Open
     /\ log'[k] # Absent /\ log'[k].lo = log[k].lo /\ log'[k].hi = u

\* A write is a publication at one time, and touches the builds that see it.
LEMMA WritesAtOneTime ==
  ASSUME TypeOK, Writes
  PROVE  \E u \in 0..MaxTime :
           /\ \A k \in Id : WrittenAt(u, k)
           /\ Change(Seeing(u))
           /\ UNCHANGED <<trust, mature, clock>>
<1>. USE DEF TypeOK
<1>1. PICK u \in 0..clock, i \in Id, j \in Id, c \in Content :
        \/ log[i] = Absent /\ Write(u, {i}, [n \in {i} |-> c], {})
        \/ Ledger!Held(j) /\ Write(u, {}, <<>>, {j})
        \/ log[i] = Absent /\ Ledger!Held(j) /\ Write(u, {i}, [n \in {i} |-> c], {j})
  BY DEF Writes
<1>2. u \in 0..MaxTime
  BY BoundsAreNatural
<1>3. Change(Seeing(u)) /\ UNCHANGED <<trust, mature, clock>>
  BY <1>1 DEF Write
<1>4. ASSUME NEW k \in Id
      PROVE  WrittenAt(u, k)
  <2>1. \/ log'[k] = log[k]
        \/ log[k] = Absent /\ log'[k] = [content |-> c, lo |-> u, hi |-> Open]
        \/ Ledger!Held(k) /\ log'[k] = [log[k] EXCEPT !.hi = u]
    <3>1. CASE log[i] = Absent /\ Write(u, {i}, [n \in {i} |-> c], {})
      BY <3>1 DEF Write, Ledger!Publish
    <3>2. CASE Ledger!Held(j) /\ Write(u, {}, <<>>, {j})
      BY <3>2 DEF Write, Ledger!Publish
    <3>3. CASE log[i] = Absent /\ Ledger!Held(j) /\ Write(u, {i}, [n \in {i} |-> c], {j})
      BY <3>3 DEF Write, Ledger!Publish
    <3>. QED BY <1>1, <3>1, <3>2, <3>3
  <2>2. ASSUME Ledger!Held(k), log'[k] = [log[k] EXCEPT !.hi = u]
        PROVE  WrittenAt(u, k)
    <3>1. log[k] \in Row
      BY <2>2 DEF Ledger!Held
    <3>2. log'[k] = [content |-> log[k].content, lo |-> log[k].lo, hi |-> u]
      BY <2>2, <3>1
    <3>3. log'[k] \in Row
      BY <1>2, <3>1, <3>2
    <3>. QED BY <2>2, <3>2, <3>3 DEF WrittenAt, Ledger!Held
  <2>. QED BY <2>1, <2>2 DEF WrittenAt
<1>. QED BY <1>2, <1>3, <1>4

\* A listing as of a past time does not see what is published after that time.
LEMMA PastListingStays ==
  ASSUME TypeOK, RowsStay, mature' = mature,
         NEW s \in ReleaseSpec, NEW u \in 0..MaxTime,
         \A k \in Id : WrittenAt(u, k),
         s.asOf # Now, ~ (u <= s.asOf)
  PROVE  Listing(s)' = Listing(s)
<1>1. s.asOf \in 0..MaxTime
  BY SpecsAreSpecs
<1>2. ASSUME NEW k \in Id
      PROVE  InForceAt(k, s.asOf)' <=> InForceAt(k, s.asOf)
  <2>1. WrittenAt(u, k)
    OBVIOUS
  <2>2. log[k] \in {Absent} \cup Row /\ log'[k] \in {Absent} \cup Row
    BY DEF TypeOK, RowsStay
  <2>. QED BY <1>1, <2>1, <2>2, BoundsAreNatural DEF WrittenAt, InForceAt
<1>3. \A k \in Id : InForceAt(k, s.asOf) => log'[k].content = log[k].content
  BY DEF InForceAt, RowsStay, Present
<1>4. Match(s)' = Match(s)
  BY <1>2, <1>3 DEF Match, Maturity
<1>. QED BY <1>4 DEF Listing, Maturity

\* Where ledger and maturities stay, so do the listings.
LEMMA ListingStays ==
  ASSUME NEW s, UNCHANGED <<log, mature>>
  PROVE  Listing(s)' = Listing(s)
BY DEF Listing, Match, Maturity, InForceAt

\* Where the trust kernel's tables stay, so do its answers.
LEMMA AnswersStay ==
  ASSUME NEW x, UNCHANGED trust
  PROVE  Authorise(Anonymous, x, Probe)' <=> Authorise(Anonymous, x, Probe)
BY DEF Authorise, EffectiveActions, PoliciesOf, HolderCan, trust

\* A step beside the builds keeps the invariant of a build: what the build has
\* read stays, or the build is no longer steady.
LEMMA RepeatInvBeside ==
  ASSUME TypeOK, RepeatInv, RowsStay, UNCHANGED build, NEW b \in Builder,
         pc[b] # "idle" /\ steady'[b] =>
           steady[b] /\ UNCHANGED trust /\ Listing(spec[b])' = Listing(spec[b])
  PROVE  /\ IdleIsEmpty(b)' /\ Ended(b)' /\ Current(b)'
         /\ pc'[b] # "idle" => spec'[b] \in ReleaseSpec
<1>1. Contributing(listed[b])' = Contributing(listed[b])
  BY ContributingStays
<1>2. IdleIsEmpty(b) /\ Ended(b) /\ Current(b) /\ (pc[b] # "idle" => spec[b] \in ReleaseSpec)
  BY DEF RepeatInv
<1>3. UNCHANGED <<pc, spec, listed, probed, cleared, failed>>
  BY DEF build
<1>4. Current(b)'
  <2>. SUFFICES ASSUME pc[b] # "idle", steady'[b]
                PROVE  /\ listed[b] = Listing(spec[b])'
                       /\ probed[b] \subseteq Contributing(listed[b])'
                       /\ failed[b] = {} =>
                            cleared[b] = {x \in probed[b] : Authorise(Anonymous, x, Probe)'}
    BY <1>3 DEF Current
  <2>1. /\ listed[b] = Listing(spec[b])
        /\ probed[b] \subseteq Contributing(listed[b])
        /\ failed[b] = {} => cleared[b] = {x \in probed[b] : Authorise(Anonymous, x, Probe)}
    BY <1>2 DEF Current
  <2>2. \A x : Authorise(Anonymous, x, Probe)' <=> Authorise(Anonymous, x, Probe)
    BY AnswersStay
  <2>. QED BY <1>1, <2>1, <2>2
<1>5. IdleIsEmpty(b)' /\ (pc'[b] # "idle" => spec'[b] \in ReleaseSpec)
  BY <1>2, <1>3 DEF IdleIsEmpty
<1>6. Ended(b)'
  BY <1>1, <1>2, <1>3 DEF Ended, Releasable
<1>. QED BY <1>4, <1>5, <1>6

\* Two builds of one spec list the same statements and end the same way,
\* unless something either read has changed since, or a call of a gate failed,
\* for any builders, statements, contexts, policies and release specs
\* (builder.rs: build_release lists what donto_match returns at as_of).
THEOREM Repeats == Spec => []RebuildRepeats
<1>1. Init => RepeatInv
  BY DEF Init, RepeatInv, IdleIsEmpty, Ended, Current
<1>2. TypeOK /\ RepeatInv /\ [Next]_vars => RepeatInv'
  <2> SUFFICES ASSUME TypeOK, RepeatInv, [Next]_vars PROVE RepeatInv'
    OBVIOUS
  <2>1. ASSUME NEW b \in Builder
        PROVE  IdleIsEmpty(b) /\ Ended(b) /\ Current(b) /\ (pc[b] # "idle" => spec[b] \in ReleaseSpec)
    BY DEF RepeatInv
  <2>2. log' = log => RowsStay
    BY DEF TypeOK, RowsStay, Present
  <2>3. CASE Tick \/ UNCHANGED vars
    <3>1. UNCHANGED <<trust, log, mature, build, steady>>
      BY <2>3 DEF Tick, vars, data
    <3>2. ASSUME NEW b \in Builder
          PROVE  Listing(spec[b])' = Listing(spec[b])
      <4>1. PICK s : s = spec[b]
        OBVIOUS
      <4>. QED BY <3>1, <4>1, ListingStays DEF build
    <3>. QED BY <2>2, <3>1, <3>2, RepeatInvBeside DEF RepeatInv
  <2>4. CASE Govern \/ \E i \in Id : Promote(i)
    <3>1. log' = log /\ UNCHANGED build /\ \A b \in Builder : ~ steady'[b]
      BY <2>4 DEF Govern, Promote, Change, data
    <3>. QED BY <2>2, <3>1, RepeatInvBeside DEF RepeatInv
  <2>5. CASE Writes
    <3>1. PICK u \in 0..MaxTime : /\ \A k \in Id : WrittenAt(u, k)
                                  /\ Change(Seeing(u))
                                  /\ UNCHANGED <<trust, mature, clock>>
      BY <2>5, WritesAtOneTime
    <3>2. RowsStay
      BY <2>5, WritesKeepRows
    <3>3. UNCHANGED build
      BY <3>1 DEF Change
    <3>4. ASSUME NEW b \in Builder, pc[b] # "idle", steady'[b]
          PROVE  steady[b] /\ UNCHANGED trust /\ Listing(spec[b])' = Listing(spec[b])
      <4>1. steady[b] /\ b \notin Seeing(u)
        BY <3>1, <3>4 DEF Change
      <4>2. spec[b] \in ReleaseSpec
        BY <2>1, <3>4
      <4>3. spec[b] # NoSpec
        <5>1. spec[b] \in [root : Target, asOf : 0..MaxTime \cup {Now}, minMat : 0..1,
                           public : BOOLEAN, cldf : BOOLEAN]
          BY <4>2, SpecsAreSpecs
        <5>2. "asOf" \in DOMAIN spec[b] /\ "asOf" \notin DOMAIN NoSpec
          BY <5>1 DEF NoSpec
        <5>. QED BY <5>2
      <4>4. PICK s \in ReleaseSpec : s = spec[b]
        BY <4>2
      <4>5. s.asOf # Now /\ ~ (u <= s.asOf)
        BY <4>1, <4>3, <4>4 DEF Seeing
      <4>6. Listing(s)' = Listing(s)
        BY <3>1, <3>2, <4>5, PastListingStays
      <4>. QED BY <3>1, <3>3, <4>1, <4>4, <4>6 DEF build
    <3>. QED BY <3>2, <3>3, <3>4, RepeatInvBeside DEF RepeatInv
  <2>6. ASSUME NEW b \in Builder,
               (\E s \in ReleaseSpec : Read(b, s)) \/ (\E x \in Target : AskPolicy(b, x))
                 \/ Sign(b) \/ Export(b)
        PROVE  RepeatInv'
    <3>1. UNCHANGED <<trust, data>>
      BY <2>6 DEF Read, AskPolicy, Sign, Export
    <3>2. \A x : Authorise(Anonymous, x, Probe)' <=> Authorise(Anonymous, x, Probe)
      BY <3>1, AnswersStay
    <3>3. \A s : Listing(s)' = Listing(s)
      BY <3>1, ListingStays DEF data
    <3>4. log' = log
      BY <3>1 DEF data
    <3>5. ASSUME NEW d \in Builder \ {b}
          PROVE  IdleIsEmpty(d)' /\ Ended(d)' /\ Current(d)' /\ (pc'[d] # "idle" => spec'[d] \in ReleaseSpec)
      <4>1. /\ pc'[d] = pc[d] /\ spec'[d] = spec[d] /\ listed'[d] = listed[d] /\ probed'[d] = probed[d]
            /\ cleared'[d] = cleared[d] /\ failed'[d] = failed[d] /\ steady'[d] = steady[d]
        BY <2>6 DEF Read, AskPolicy, Sign, Export, TypeOK
      <4>2. Contributing(listed[d])' = Contributing(listed[d])
        BY <3>4, <4>1 DEF Contributing
      <4>3. Listing(spec[d])' = Listing(spec[d])
        BY <3>1, <4>1 DEF Listing, Match, Maturity, InForceAt, data
      <4>4. Releasable(d)' <=> Releasable(d)
        BY <4>1 DEF Releasable
      <4>. QED BY <2>1, <3>2, <4>1, <4>2, <4>3, <4>4 DEF IdleIsEmpty, Ended, Current
    <3>6. /\ IdleIsEmpty(b)' /\ Ended(b)' /\ Current(b)'
          /\ pc'[b] # "idle" => spec'[b] \in ReleaseSpec
      <4>1. ASSUME NEW s \in ReleaseSpec, Read(b, s)
            PROVE  IdleIsEmpty(b)' /\ Ended(b)' /\ Current(b)' /\ (pc'[b] # "idle" => spec'[b] \in ReleaseSpec)
        <5>1. /\ pc'[b] = "probe" /\ spec'[b] = s /\ listed'[b] = Listing(s)
              /\ probed'[b] = {} /\ cleared'[b] = {} /\ failed'[b] = {}
          BY <2>1, <4>1 DEF Read, TypeOK, IdleIsEmpty
        <5>2. Listing(spec[b])' = Listing(s)
          BY <3>1, <5>1 DEF Listing, Match, Maturity, InForceAt, data
        <5>. QED BY <5>1, <5>2 DEF IdleIsEmpty, Ended, Current
      <4>2. ASSUME NEW x \in Target, AskPolicy(b, x)
            PROVE  IdleIsEmpty(b)' /\ Ended(b)' /\ Current(b)' /\ (pc'[b] # "idle" => spec'[b] \in ReleaseSpec)
        <5>1. /\ pc[b] = "probe" /\ pc'[b] = "probe" /\ spec'[b] = spec[b] /\ listed'[b] = listed[b]
              /\ x \in Contributing(listed[b]) \ probed[b]
              /\ probed'[b] = probed[b] \cup {x} /\ steady'[b] = steady[b]
          BY <4>2 DEF AskPolicy, TypeOK
        <5>2. \/ /\ cleared'[b] = IF Authorise(Anonymous, x, Probe) THEN cleared[b] \cup {x} ELSE cleared[b]
                 /\ failed'[b] = failed[b]
              \/ x \in failed'[b]
          BY <4>2 DEF AskPolicy, TypeOK
        <5>3. Contributing(listed[b])' = Contributing(listed[b])
          BY <3>4, <5>1 DEF Contributing
        <5>4. Listing(spec[b])' = Listing(spec[b])
          BY <3>1, <5>1 DEF Listing, Match, Maturity, InForceAt, data
        <5>5. Current(b)'
          BY <2>1, <3>2, <5>1, <5>2, <5>3, <5>4 DEF Current
        <5>. QED BY <2>1, <5>1, <5>5 DEF IdleIsEmpty, Ended
      <4>3. CASE Sign(b)
        <5>1. /\ pc[b] = "probe" /\ pc'[b] \in {"refused", "export", "done"} /\ spec'[b] = spec[b]
              /\ listed'[b] = listed[b] /\ probed'[b] = probed[b] /\ cleared'[b] = cleared[b]
              /\ failed'[b] = failed[b] /\ steady'[b] = steady[b]
              /\ Contributing(listed[b]) \subseteq probed[b]
              /\ pc'[b] = "refused" <=> ~ Releasable(b)
          BY <4>3 DEF Sign, TypeOK
        <5>2. Contributing(listed[b])' = Contributing(listed[b])
          BY <3>4, <5>1 DEF Contributing
        <5>3. Listing(spec[b])' = Listing(spec[b])
          BY <3>1, <5>1 DEF Listing, Match, Maturity, InForceAt, data
        <5>4. Releasable(b)' <=> Releasable(b)
          BY <5>1 DEF Releasable
        <5>. QED BY <2>1, <3>2, <5>1, <5>2, <5>3, <5>4 DEF IdleIsEmpty, Ended, Current
      <4>4. CASE Export(b)
        <5>1. /\ pc[b] = "export" /\ pc'[b] = "done" /\ spec'[b] = spec[b]
              /\ listed'[b] = listed[b] /\ probed'[b] = probed[b] /\ cleared'[b] = cleared[b]
              /\ failed'[b] = failed[b] /\ steady'[b] = steady[b]
          BY <4>4 DEF Export, TypeOK
        <5>2. Contributing(listed[b])' = Contributing(listed[b])
          BY <3>4, <5>1 DEF Contributing
        <5>3. Listing(spec[b])' = Listing(spec[b])
          BY <3>1, <5>1 DEF Listing, Match, Maturity, InForceAt, data
        <5>4. Releasable(b)' <=> Releasable(b)
          BY <5>1 DEF Releasable
        <5>. QED BY <2>1, <3>2, <5>1, <5>2, <5>3, <5>4 DEF IdleIsEmpty, Ended, Current
      <4>. QED BY <2>6, <4>1, <4>2, <4>3, <4>4
    <3>. QED BY <3>5, <3>6 DEF RepeatInv
  <2>. QED BY <2>3, <2>4, <2>5, <2>6 DEF Next
<1>3. TypeOK /\ RepeatInv => RebuildRepeats
  <2>. SUFFICES ASSUME TypeOK, RepeatInv, NEW b \in Builder, NEW d \in Builder,
                       "idle" \notin {pc[b], pc[d]}, spec[b] = spec[d], steady[b], steady[d]
                PROVE  /\ listed[b] = listed[d]
                       /\ /\ "probe" \notin {pc[b], pc[d]}
                          /\ failed[b] \cup failed[d] = {}
                          => cleared[b] = cleared[d] /\ (pc[b] = "refused" <=> pc[d] = "refused")
    BY DEF RebuildRepeats
  <2>1. Current(b) /\ Current(d) /\ Ended(b) /\ Ended(d)
    BY DEF RepeatInv
  <2>2. listed[b] = listed[d]
    BY <2>1 DEF Current
  <2>3. ASSUME "probe" \notin {pc[b], pc[d]}, failed[b] \cup failed[d] = {}
        PROVE  cleared[b] = cleared[d] /\ (pc[b] = "refused" <=> pc[d] = "refused")
    <3>1. {pc[b], pc[d]} \subseteq {"refused", "export", "done"}
      BY <2>3 DEF TypeOK
    <3>2. probed[b] = probed[d]
      BY <2>1, <2>2, <3>1 DEF Current, Ended
    <3>3. cleared[b] = cleared[d]
      BY <2>1, <2>3, <3>2 DEF Current
    <3>4. Releasable(b) <=> Releasable(d)
      BY <3>2, <3>3 DEF Releasable
    <3>. QED BY <2>1, <3>1, <3>3, <3>4 DEF Ended
  <2>. QED BY <2>2, <2>3
<1>. QED BY <1>1, <1>2, <1>3, Typing, PTL DEF Spec
=============================================================================
