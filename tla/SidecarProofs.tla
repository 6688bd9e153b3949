--------------------------- MODULE SidecarProofs ---------------------------
(* Proofs about Sidecar: types, and that reports are matched to requests.  *)
EXTENDS Sidecar, TLAPS, FiniteSetTheorems

-----------------------------------------------------------------------------
(* Type correctness *)

USE DEF Engaged, Outcome, Answer, pipes

\* What every ending of a handler preserves.
LEMMA EndTyped ==
  ASSUME TypeOK, NEW r \in Request, NEW o \in Outcome, End(r, o)
  PROVE  /\ pc' \in [Request -> {"new", "conn", "scope", "queued", "write", "flush", "read", "ended"}]
         /\ out' \in [Request -> Outcome]
         /\ holding' \in SUBSET Request
         /\ Cardinality(holding') <= PoolSize
         /\ guard' \in Request \cup {Nobody}
<1>1. Cardinality(holding \ {r}) <= Cardinality(holding)
  <2>1. IsFiniteSet(holding)
    BY RequestsAreFinite, FS_Subset DEF TypeOK
  <2> QED BY <2>1, FS_Subset
<1>2. Cardinality(holding) \in Nat /\ Cardinality(holding \ {r}) \in Nat
  BY RequestsAreFinite, FS_Subset, FS_CardinalityType DEF TypeOK
<1> QED BY <1>1, <1>2, PoolHasConnections DEF TypeOK, End

\* The tables of handlers, the mutex, the pool and the pipes keep their types
\* under every step.
LEMMA TypeStep == TypeOK /\ [Next]_vars => TypeOK'
<1> SUFFICES ASSUME TypeOK, [Next]_vars PROVE TypeOK'
  OBVIOUS
<1>1. CASE Loop
  <2>1. Head(stdin) \in Seq(Request) /\ Tail(stdin) \in Seq(Seq(Request))
    BY <1>1 DEF Loop, TypeOK
  <2>2. Answered(Head(stdin)) \in Seq(Answer)
    <3>1. CASE Len(Head(stdin)) = 1
      BY <2>1, <3>1 DEF Answered
    <3>2. CASE Len(Head(stdin)) # 1
      BY <3>2 DEF Answered
    <3> QED BY <3>1, <3>2
  <2> QED BY <1>1, <2>1, <2>2 DEF Loop, TypeOK
<1>2. CASE Stops
  BY <1>2 DEF Stops, TypeOK
<1>3. ASSUME NEW r \in Request, Receive(r) PROVE TypeOK'
  BY <1>3 DEF Receive, TypeOK
<1>4. ASSUME NEW r \in Request, TakeConnection(r) PROVE TypeOK'
  <2>1. IsFiniteSet(holding)
    BY RequestsAreFinite, FS_Subset DEF TypeOK
  <2>2. Cardinality(holding) \in Nat /\ Cardinality(holding) < PoolSize
    BY <1>4, <2>1, FS_CardinalityType DEF TakeConnection
  <2>3. Cardinality(holding \cup {r}) <= Cardinality(holding) + 1
    <3>1. /\ r \in holding => holding \cup {r} = holding
          /\ r \notin holding => Cardinality(holding \cup {r}) = Cardinality(holding) + 1
      BY <2>1, FS_AddElement
    <3>2. CASE r \in holding
      <4>1. Cardinality(holding \cup {r}) = Cardinality(holding)
        BY <3>1, <3>2, Zenon
      <4> QED BY <4>1, <2>2
    <3>3. CASE r \notin holding
      <4>1. Cardinality(holding \cup {r}) = Cardinality(holding) + 1
        BY <3>1, <3>3
      <4> QED BY <4>1, <2>2
    <3> QED BY <3>2, <3>3
  <2>4. Cardinality(holding \cup {r}) \in Nat
    BY <2>1, FS_AddElement, FS_CardinalityType
  <2>5. Cardinality(holding \cup {r}) <= PoolSize
    BY <2>2, <2>3, <2>4, PoolHasConnections
  <2> QED BY <1>4, <2>5 DEF TakeConnection, TypeOK
<1>5. ASSUME NEW r \in Request, ReadScope(r) PROVE TypeOK'
  BY <1>5 DEF ReadScope, TypeOK
<1>6. ASSUME NEW r \in Request, ScopeIsEmpty(r) PROVE TypeOK'
  BY <1>6, EndTyped DEF ScopeIsEmpty, TypeOK
<1>7. ASSUME NEW r \in Request, Offline(r) PROVE TypeOK'
  BY <1>7, EndTyped DEF Offline, TypeOK
<1>8. ASSUME NEW r \in Request, Lock(r) PROVE TypeOK'
  BY <1>8 DEF Lock, TypeOK
<1>9. ASSUME NEW r \in Request, WritePart(r) PROVE TypeOK'
  BY <1>9 DEF WritePart, TypeOK
<1>10. ASSUME NEW r \in Request, WriteRest(r) PROVE TypeOK'
  BY <1>10 DEF WriteRest, TypeOK
<1>11. ASSUME NEW r \in Request, ReadLine(r) PROVE TypeOK'
  <2>1. /\ Head(stdout) \in Answer
        /\ Tail(stdout) \in Seq(Answer)
    <3> HIDE DEF Answer
    <3> QED BY <1>11 DEF ReadLine, TypeOK
  <2>2. Head(stdout).of \in Outcome
    BY <2>1
  <2> QED BY <1>11, <2>1, <2>2, EndTyped DEF ReadLine, TypeOK
<1>12. ASSUME NEW r \in Request, Fails(r) PROVE TypeOK'
  BY <1>12, EndTyped DEF Fails, TypeOK
<1>13. ASSUME NEW r \in Request, Timeout(r) PROVE TypeOK'
  BY <1>13, EndTyped DEF Timeout, TypeOK
<1>14. ASSUME NEW r \in Request, Disconnect(r) PROVE TypeOK'
  <2>1. stdout' \in Seq(Answer)
    <3>1. CASE UNCHANGED stdout
      BY <3>1 DEF TypeOK
    <3>2. CASE stdout # <<>> /\ stdout' = [stdout EXCEPT ![1].cut = TRUE]
      <4>1. 1 \in DOMAIN stdout /\ stdout[1] \in Answer
        <5> HIDE DEF Answer
        <5> QED BY <3>2 DEF TypeOK
      <4>2. [stdout[1] EXCEPT !.cut = TRUE] \in Answer
        BY <4>1
      <4>3. stdout' = [stdout EXCEPT ![1] = [stdout[1] EXCEPT !.cut = TRUE]]
        BY <3>2
      <4> HIDE DEF Answer
      <4> QED BY <4>1, <4>2, <4>3 DEF TypeOK
    <3> QED BY <1>14, <3>1, <3>2 DEF Disconnect
  <2>2. PICK o \in {"cut", "left"} : End(r, o)
    BY <1>14 DEF Disconnect
  <2> QED BY <1>14, <2>1, <2>2, EndTyped DEF Disconnect, TypeOK
<1>15. CASE UNCHANGED vars
  BY <1>15 DEF vars, TypeOK
<1> QED BY <1>1, <1>2, <1>3, <1>4, <1>5, <1>6, <1>7, <1>8, <1>9, <1>10, <1>11, <1>12,
           <1>13, <1>14, <1>15 DEF Next, Handle

\* The handlers, the pool, the mutex and the pipes keep their types, for any
\* finite set of requests and any pool.
THEOREM Typing == Spec => []TypeOK
<1>1. Init => TypeOK
  BY PoolHasConnections, FS_EmptySet DEF Init, TypeOK
<1> QED BY <1>1, TypeStep, PTL DEF Spec
-----------------------------------------------------------------------------
(* Reports are matched to requests *)

Uncut == \A r \in Request : out[r] # "cut"

\* Only one handler is in an exchange.
LEMMA OneEngaged ==
  ASSUME Exclusive, NEW r \in Request, Engaged(r), NEW q \in Request, Engaged(q) PROVE q = r
BY DEF Exclusive

\* A handler that ends changes nothing but its own place and outcome, and gives
\* up the child only if it is the one that uses it.
LEMMA EndExclusive ==
  ASSUME SidecarInv, NEW r \in Request, pc[r] # "ended", NEW o, End(r, o),
         child' = child \/ Engaged(r)
  PROVE  /\ Exclusive'
         /\ \A q \in Request \ {r} : pc'[q] = pc[q] /\ out'[q] = out[q]
         /\ pc'[r] = "ended" /\ out'[r] = o
         /\ Uncut' => Uncut
BY Words DEF SidecarInv, TypeOK, Exclusive, End, Uncut

\* The end of a handler that is not in an exchange and gets no report.
LEMMA EndOutside ==
  ASSUME SidecarInv, NEW r \in Request, pc[r] # "ended", ~ Engaged(r), UNCHANGED <<child, pipes>>,
         NEW o \in {"empty", "error", "offline", "left"}, End(r, o)
  PROVE  Exclusive' /\ Matched' /\ OwnUnlessCut'
<1>1. /\ Exclusive'
      /\ \A q \in Request \ {r} : pc'[q] = pc[q] /\ out'[q] = out[q]
      /\ pc'[r] = "ended" /\ out'[r] = o
      /\ Uncut' => Uncut
  BY EndExclusive
<1>2. Matched'
  BY <1>1 DEF SidecarInv, Matched, Clean, Uncut
<1>3. OwnUnlessCut'
  BY <1>1, Words DEF SidecarInv, OwnUnlessCut, Uncut
<1> QED BY <1>1, <1>2, <1>3

\* The end of an exchange that gives the child up.
LEMMA EndOffline ==
  ASSUME SidecarInv, NEW r \in Request, Engaged(r), child' = FALSE, End(r, "failed")
  PROVE  Exclusive' /\ Matched' /\ OwnUnlessCut'
<1>1. /\ Exclusive'
      /\ \A q \in Request \ {r} : pc'[q] = pc[q] /\ out'[q] = out[q]
      /\ out'[r] = "failed"
      /\ Uncut' => Uncut
  BY EndExclusive
<1>2. OwnUnlessCut'
  BY <1>1, Words DEF SidecarInv, OwnUnlessCut, Uncut
<1> QED BY <1>1, <1>2 DEF Matched

\* A step of a handler that neither enters nor leaves an exchange's flush and
\* read steps, and has no outcome.
LEMMA QuietStep ==
  ASSUME SidecarInv, UNCHANGED <<out, child, pipes>>,
         \A q \in Request : pc'[q] # pc[q] =>
           pc[q] \notin {"flush", "read", "ended"} /\ pc'[q] \notin {"flush", "read"}
  PROVE  Matched' /\ OwnUnlessCut'
BY DEF SidecarInv, Matched, Clean, OwnUnlessCut

\* Every step keeps the mutex exclusive, the pipes matched to the exchange
\* under way, and the reports matched to their requests.
LEMMA MatchStep == SidecarInv /\ [Next]_vars => SidecarInv'
<1> SUFFICES ASSUME SidecarInv, [Next]_vars PROVE Exclusive' /\ Matched' /\ OwnUnlessCut'
  BY TypeStep DEF SidecarInv
<1>1. CASE Loop
  <2>1. Exclusive' /\ OwnUnlessCut'
    BY <1>1 DEF Loop, SidecarInv, Exclusive, OwnUnlessCut
  <2>2. ASSUME child, Uncut
        PROVE  \E r \in Request : pc[r] = "read" /\ stdin = <<<<r>>>> /\ stdout = <<>>
    BY <1>1, <2>2 DEF Loop, SidecarInv, Matched, Clean, Uncut
  <2>3. ASSUME child', Uncut', NEW r \in Request, pc[r] = "read", stdin = <<<<r>>>>, stdout = <<>>
        PROVE  stdin' = <<>> /\ stdout' = <<[of |-> r, cut |-> FALSE]>>
    BY <1>1, <2>3 DEF Loop, Answered
  <2>4. ASSUME child', Uncut' PROVE Matched'
    <3>1. child /\ Uncut
      BY <1>1, <2>4 DEF Loop, Uncut
    <3>2. PICK r \in Request : pc[r] = "read" /\ stdin = <<<<r>>>> /\ stdout = <<>>
      BY <3>1, <2>2
    <3>3. stdin' = <<>> /\ stdout' = <<[of |-> r, cut |-> FALSE]>> /\ partial' = <<>>
      BY <1>1, <2>3, <2>4, <3>1, <3>2 DEF Loop, SidecarInv, Matched, Uncut
    <3>4. \A q \in Request : pc[q] \in {"flush", "read"} => q = r
      BY <3>2, OneEngaged DEF SidecarInv
    <3> QED BY <1>1, <3>2, <3>3, <3>4 DEF Loop, Matched
  <2> QED BY <2>1, <2>4 DEF Matched, Uncut
<1>2. CASE Stops
  BY <1>2 DEF Stops, SidecarInv, Exclusive, Matched, Clean, OwnUnlessCut
<1>3. ASSUME NEW r \in Request, Receive(r) \/ TakeConnection(r) \/ ReadScope(r) \/ Lock(r)
      PROVE  Exclusive' /\ Matched' /\ OwnUnlessCut'
  <2>1. /\ UNCHANGED <<out, child, pipes>>
        /\ \A q \in Request : pc'[q] # pc[q] =>
             pc[q] \notin {"flush", "read", "ended"} /\ pc'[q] \notin {"flush", "read"}
    BY <1>3 DEF SidecarInv, TypeOK, Receive, TakeConnection, ReadScope, Lock
  <2>2. Exclusive'
    BY <1>3, Words DEF SidecarInv, TypeOK, Exclusive, Receive, TakeConnection, ReadScope, Lock
  <2> QED BY <2>1, <2>2, QuietStep
<1>4. ASSUME NEW r \in Request, ScopeIsEmpty(r) PROVE Exclusive' /\ Matched' /\ OwnUnlessCut'
  BY <1>4, EndOutside DEF ScopeIsEmpty
<1>5. ASSUME NEW r \in Request, Offline(r) PROVE Exclusive' /\ Matched' /\ OwnUnlessCut'
  BY <1>5, EndOutside DEF Offline
<1>6. ASSUME NEW r \in Request, WritePart(r) PROVE Exclusive' /\ Matched' /\ OwnUnlessCut'
  <2>1. Engaged(r) /\ \A q \in Request : pc[q] \notin {"flush", "read"}
    BY <1>6, OneEngaged DEF WritePart, SidecarInv
  <2>2. Exclusive' /\ OwnUnlessCut'
    BY <1>6 DEF WritePart, SidecarInv, TypeOK, Exclusive, OwnUnlessCut
  <2>3. /\ \A q \in Request : pc'[q] \in {"flush", "read"} => q = r
        /\ pc'[r] = "flush"
    BY <1>6, <2>1 DEF WritePart, SidecarInv, TypeOK
  <2>4. Clean => partial' = <<r>> /\ stdin' = <<>> /\ stdout' = <<>>
    BY <1>6 DEF WritePart, Clean
  <2>5. child' /\ Uncut' => Clean
    BY <1>6, <2>1 DEF WritePart, SidecarInv, Matched, Uncut
  <2> QED BY <2>2, <2>3, <2>4, <2>5 DEF Matched, Uncut
<1>7. ASSUME NEW r \in Request, WriteRest(r) PROVE Exclusive' /\ Matched' /\ OwnUnlessCut'
  <2>1. \A q \in Request : pc[q] \in {"flush", "read"} => q = r
    BY <1>7, OneEngaged DEF WriteRest, SidecarInv
  <2>2. Exclusive' /\ OwnUnlessCut'
    BY <1>7 DEF WriteRest, SidecarInv, TypeOK, Exclusive, OwnUnlessCut
  <2>3. /\ \A q \in Request : pc'[q] \in {"flush", "read"} => q = r
        /\ pc'[r] = "read"
    BY <1>7, <2>1 DEF WriteRest, SidecarInv, TypeOK
  <2>4. child' /\ Uncut' => partial = <<r>> /\ stdin = <<>> /\ stdout = <<>>
    BY <1>7 DEF WriteRest, SidecarInv, Matched, Uncut
  <2>5. child' /\ Uncut' => partial' = <<>> /\ stdin' = <<<<r>>>> /\ stdout' = <<>>
    BY <1>7, <2>4 DEF WriteRest
  <2> QED BY <2>2, <2>3, <2>5 DEF Matched, Uncut
<1>8. ASSUME NEW r \in Request, ReadLine(r) PROVE Exclusive' /\ Matched' /\ OwnUnlessCut'
  <2> DEFINE o == Head(stdout).of
  <2>1. /\ Exclusive'
        /\ \A q \in Request \ {r} : pc'[q] = pc[q] /\ out'[q] = out[q]
        /\ pc'[r] = "ended" /\ out'[r] = o
        /\ Uncut' => Uncut
    BY <1>8, EndExclusive DEF ReadLine
  <2>2. \A q \in Request : pc[q] \in {"flush", "read"} => q = r
    BY <1>8, OneEngaged DEF ReadLine, SidecarInv
  <2>3. Uncut' => stdout = <<[of |-> r, cut |-> FALSE]>> /\ stdin = <<>> /\ partial = <<>>
    BY <1>8, <2>1 DEF ReadLine, SidecarInv, Exclusive, Matched, Uncut
  <2>4. ASSUME Uncut' PROVE o = r /\ Clean'
    <3> DEFINE a == [of |-> r, cut |-> FALSE]
    <3>1. Head(stdout) = a /\ Tail(stdout) = <<>>
      <4>1. stdout = <<a>>
        BY <2>3, <2>4
      <4> HIDE DEF a
      <4> QED BY <4>1
    <3>2. o = r
      BY <3>1
    <3>3. Clean'
      BY <1>8, <2>3, <2>4, <3>1 DEF ReadLine, Clean
    <3> QED BY <3>2, <3>3
  <2>5. Matched'
    BY <2>1, <2>2, <2>4 DEF Matched, Uncut
  <2>6. OwnUnlessCut'
    BY <2>1, <2>4 DEF SidecarInv, OwnUnlessCut, Uncut
  <2> QED BY <2>1, <2>5, <2>6
<1>9. ASSUME NEW r \in Request, Fails(r) \/ Timeout(r) PROVE Exclusive' /\ Matched' /\ OwnUnlessCut'
  BY <1>9, EndOffline DEF Fails, Timeout
<1>10. ASSUME NEW r \in Request, Disconnect(r) PROVE Exclusive' /\ Matched' /\ OwnUnlessCut'
  <2>1. CASE Engaged(r)
    <3>1. End(r, "cut") /\ pc[r] # "ended" /\ child' = child
      BY <1>10, <2>1 DEF Disconnect
    <3>2. Exclusive' /\ out'[r] = "cut"
      BY <3>1, EndExclusive
    <3> QED BY <3>2 DEF Matched, OwnUnlessCut
  <2>2. CASE ~ Engaged(r)
    BY <1>10, <2>2, EndOutside DEF Disconnect
  <2> QED BY <2>1, <2>2
<1>11. CASE UNCHANGED vars
  BY <1>11 DEF vars, SidecarInv, Exclusive, Matched, Clean, OwnUnlessCut
<1> QED BY <1>1, <1>2, <1>3, <1>4, <1>5, <1>6, <1>7, <1>8, <1>9, <1>10, <1>11 DEF Next, Handle

\* As long as nobody disconnects in the middle of an exchange, every report is
\* the engine's answer to the request it is returned for: for any number of
\* requests, whatever fails or times out.
THEOREM ReportsAreMatched == Spec => []OwnUnlessCut
<1>1. Init => SidecarInv
  BY Words, PoolHasConnections, FS_EmptySet
  DEF Init, SidecarInv, TypeOK, Exclusive, Matched, Clean, OwnUnlessCut
<1>2. SidecarInv => OwnUnlessCut
  BY DEF SidecarInv
<1> QED BY <1>1, <1>2, MatchStep, PTL DEF Spec
=============================================================================
