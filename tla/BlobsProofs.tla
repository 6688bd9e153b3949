----------------------------- MODULE BlobsProofs -----------------------------
(* Proofs about Blobs: addresses lead to blobs, undisturbed blobs are whole, *)
(* facts are linked to the revision of their text, revisions are numbered.   *)
EXTENDS Blobs, FunctionTheorems, FiniteSetTheorems, TLAPS

-----------------------------------------------------------------------------
(* Types.  A revision's number is what Max makes of the numbers there are;   *)
(* what kind of thing that is plays no part here, so N is any set of them.   *)

Place == {"idle", "put"} \cup Putting \cup Handling \cup Ended

JobState(N) ==
    [at : Place, hash : Blob \cup {None}, data : Blob \cup {None},
     file : Job \cup {None}, part : Nat, doc : Document \cup {None}, number : N,
     found : SUBSET Fact, todo : SUBSET Fact, fact : Fact \cup {None}]

Revision(N) ==
    [doc : Document, number : N, hash : Blob, body : Blob \cup {None},
     blob : Blob \cup {None}, located : BOOLEAN]

Typed(N) ==
    /\ 0 \in N /\ 1 \in N
    /\ source \in [Path -> Held]
    /\ temp \in [Blob -> Job \cup {None}] /\ stored \in [Blob -> Job \cup {None}]
    /\ bytes \in [Job -> [Part -> Blob \cup {None}]]
    /\ row \in [Blob -> {"absent", "inline", "located"}]
    /\ docs \subseteq Document /\ disturbed \subseteq Blob
    /\ revisions \subseteq Revision(N)
    /\ job \in [Job -> JobState(N)]

\* What a job has where it is.
Route(j) ==
    /\ job[j].at \notin {"idle", "hash"} \cup Ended => job[j].hash \in Blob
    /\ job[j].at \in {"write", "rename"} => job[j].file \in Job
    /\ job[j].at \in {"find", "number", "add"} => job[j].doc \in Document
    /\ Kind(j) = "revise" => job[j].at \in {"idle", "find", "number", "add"} \cup Ended
    /\ Kind(j) = "extract" =>
         job[j].at \notin {"hash", "look", "read", "count", "insert", "set"}
    /\ job[j].at \in {"stamp", "ask", "assert", "link"} => Kind(j) = "extract"

Routed == \A j \in Job : Route(j)

\* A job that handles a blob has seen it stored, unless it was a request,
\* which puts nothing and writes no address.
Seen ==
    \A j \in Job :
        job[j].at \in Handling \cup {"put"} /\ Kind(j) # "revise" => stored[job[j].hash] # None

LEMMA Places ==
    /\ "idle" \in Place /\ "hash" \in Place /\ "look" \in Place /\ "read" \in Place
    /\ "check" \in Place /\ "create" \in Place /\ "write" \in Place /\ "rename" \in Place
    /\ "copy" \in Place /\ "put" \in Place /\ "register" \in Place /\ "document" \in Place
    /\ "count" \in Place /\ "insert" \in Place /\ "find" \in Place /\ "number" \in Place
    /\ "add" \in Place /\ "stamp" \in Place /\ "ask" \in Place /\ "assert" \in Place
    /\ "link" \in Place /\ "set" \in Place /\ "off" \in Place /\ "done" \in Place
    /\ "failed" \in Place /\ "crashed" \in Place
BY DEF Place, Putting, Handling, Ended

LEMMA Constants ==
    /\ Text \subseteq Blob /\ Held \subseteq Blob
    /\ None \notin Blob /\ None \notin Job
    /\ Blob \subseteq Document /\ Archive \in Document
    /\ \A j \in Job :
         /\ Kind(j) \in {"upload", "sync", "extract", "backfill", "revise"}
         /\ PathOf(j) \in Path /\ Command[j].body \in Text
         /\ Command[j].registers \in BOOLEAN /\ Command[j].documents \in BOOLEAN
BY ConstantsAssumption DEF Kind, PathOf, Document

\* A job goes on to the document, or is done.
LEMMA Onward ==
    ASSUME NEW j \in Job
    PROVE  /\ AfterRegister(j) \in {"document", "done"}
           /\ AfterRevision(j) \in {"stamp", "done"}
           /\ AfterRevision(j) = "stamp" <=> Kind(j) = "extract"
           /\ AfterError(j) \in {"document", "done", "failed"}
           /\ AfterError(j) = "document" => Kind(j) = "sync" /\ job[j].at = "register"
           /\ AfterError(j) = "done" => Kind(j) \in {"sync", "backfill"}
<1>1. AfterRegister(j) \in {"document", "done"}
  BY DEF AfterRegister
<1> QED BY <1>1 DEF AfterRevision, AfterError, Handling

-----------------------------------------------------------------------------
(* Type correctness *)

LEMMA TypeInit == Init => Typed({0, 1}) /\ Routed
<1> SUFFICES ASSUME Init PROVE Typed({0, 1}) /\ Routed
  OBVIOUS
<1>1. revisions \subseteq Revision({0, 1})
  <2>1. PICK old \in SUBSET Blob : revisions = Legacy(old)
    BY Constants DEF Init
  <2>2. ASSUME NEW b \in Blob
        PROVE  [NewRevision(Archive, 1, b, b) EXCEPT !.blob = b] \in Revision({0, 1})
    BY Constants DEF NewRevision, Revision
  <2> QED BY <2>1, <2>2 DEF Legacy
<1>2. job \in [Job -> JobState({0, 1})]
  BY Places DEF Init, Fresh, JobState
<1>3. Routed
  BY DEF Init, Fresh, Route, Routed, Handling, Putting, Ended
<1> QED BY <1>1, <1>2, <1>3, Constants DEF Init, Typed

\* A job that changes stays a job.
LEMMA Went ==
    ASSUME NEW N, job \in [Job -> JobState(N)], NEW j \in Job, NEW p \in Place, Goto(j, p)
    PROVE  job' \in [Job -> JobState(N)]
BY DEF Goto, JobState

LEMMA Became ==
    ASSUME NEW N, job \in [Job -> JobState(N)], NEW j \in Job, NEW c \in JobState(N),
           job' = [job EXCEPT ![j] = c]
    PROVE  job' \in [Job -> JobState(N)]
OBVIOUS

LEMMA Records ==
    ASSUME NEW N, NEW c \in JobState(N), NEW p \in Place
    PROVE  /\ [c EXCEPT !.at = p] \in JobState(N)
           /\ \A b \in Blob \cup {None} :
                /\ [c EXCEPT !.hash = b, !.at = p] \in JobState(N)
                /\ [c EXCEPT !.data = b, !.at = p] \in JobState(N)
                /\ [c EXCEPT !.at = p, !.data = b] \in JobState(N)
           /\ \A f \in Job : [c EXCEPT !.file = f, !.part = 1, !.at = p] \in JobState(N)
           /\ [c EXCEPT !.part = @ + 1] \in JobState(N)
           /\ \A d \in Document : [c EXCEPT !.doc = d, !.at = p] \in JobState(N)
           /\ \A n \in N : [c EXCEPT !.number = n, !.at = p] \in JobState(N)
           /\ \A s \in SUBSET Fact :
                /\ [c EXCEPT !.found = s, !.todo = s, !.at = p] \in JobState(N)
                /\ [c EXCEPT !.todo = s, !.at = p] \in JobState(N)
           /\ \A f \in Fact : [c EXCEPT !.fact = f, !.at = p] \in JobState(N)
<1>1. [c EXCEPT !.at = p] \in JobState(N)
  BY DEF JobState
<1>2. ASSUME NEW b \in Blob \cup {None}
      PROVE  /\ [c EXCEPT !.hash = b, !.at = p] \in JobState(N)
             /\ [c EXCEPT !.data = b, !.at = p] \in JobState(N)
             /\ [c EXCEPT !.at = p, !.data = b] \in JobState(N)
  BY DEF JobState
<1>3. ASSUME NEW f \in Job PROVE [c EXCEPT !.file = f, !.part = 1, !.at = p] \in JobState(N)
  BY DEF JobState
<1>4. [c EXCEPT !.part = @ + 1] \in JobState(N)
  BY DEF JobState
<1>5. ASSUME NEW d \in Document PROVE [c EXCEPT !.doc = d, !.at = p] \in JobState(N)
  BY DEF JobState
<1>6. ASSUME NEW n \in N PROVE [c EXCEPT !.number = n, !.at = p] \in JobState(N)
  BY DEF JobState
<1>7. ASSUME NEW s \in SUBSET Fact
      PROVE  /\ [c EXCEPT !.found = s, !.todo = s, !.at = p] \in JobState(N)
             /\ [c EXCEPT !.todo = s, !.at = p] \in JobState(N)
  BY DEF JobState
<1>8. ASSUME NEW f \in Fact PROVE [c EXCEPT !.fact = f, !.at = p] \in JobState(N)
  BY DEF JobState
<1> QED BY <1>1, <1>2, <1>3, <1>4, <1>5, <1>6, <1>7, <1>8

\* A new job's record, of a request, a backfill or an extraction.
LEMMA Started ==
    ASSUME NEW N, 0 \in N, NEW p \in Place, NEW h \in Blob, NEW b \in Blob,
           NEW d \in Document \cup {None}
    PROVE  /\ [Fresh EXCEPT !.at = p, !.hash = h, !.data = b] \in JobState(N)
           /\ [Fresh EXCEPT !.at = p, !.hash = h, !.data = b, !.doc = d] \in JobState(N)
BY DEF Fresh, JobState

\* What a call changes in the state of its job.
LEMMA Moves ==
    ASSUME NEW N, Typed(N), Routed, NEW j \in Job,
           \/ Start(j) \/ Hash(j) \/ Look(j) \/ Read(j) \/ Check(j)
           \/ Create(j) \/ Write(j) \/ Rename(j) \/ Copy(j)
    PROVE  job' \in [Job -> JobState(N)]
<1>0. job \in [Job -> JobState(N)] /\ job[j] \in JobState(N) /\ 0 \in N
  BY DEF Typed
<1>a. source[PathOf(j)] \in Blob
  BY Constants DEF Typed
<1>1. CASE Start(j)
  <2>1. CASE Goto(j, "hash") \/ Goto(j, "failed") \/ Goto(j, "done")
    BY <1>0, <2>1, Went, Places
  <2>2. CASE Become(j, [Fresh EXCEPT !.at = "check", !.hash = source[PathOf(j)],
                                     !.data = source[PathOf(j)]])
    BY <1>0, <1>a, <2>2, Started, Became, Places DEF Become
  <2>3. ASSUME NEW r \in Unplaced,
               Become(j, [Fresh EXCEPT !.at = "check", !.hash = r.blob, !.data = r.body])
        PROVE  job' \in [Job -> JobState(N)]
    <3>1. r.blob \in Blob /\ r.body \in Blob
      BY DEF Unplaced, Typed, Revision
    <3> QED BY <1>0, <2>3, <3>1, Started, Became, Places DEF Become
  <2>4. ASSUME NEW d \in docs,
               Become(j, [Fresh EXCEPT !.at = "find", !.hash = Command[j].body,
                                       !.data = Command[j].body, !.doc = d])
        PROVE  job' \in [Job -> JobState(N)]
    <3>1. d \in Document /\ Command[j].body \in Blob
      BY Constants DEF Typed
    <3> QED BY <1>0, <2>4, <3>1, Started, Became, Places DEF Become
  <2> QED BY <1>1, <2>1, <2>2, <2>3, <2>4 DEF Start
<1>2. CASE Hash(j)
  <2>1. [job[j] EXCEPT !.hash = source[PathOf(j)], !.at = "look"] \in JobState(N)
    BY <1>0, <1>a, Records, Places
  <2> QED BY <1>0, <1>2, <2>1, Became DEF Hash
<1>3. CASE Look(j)
  BY <1>0, <1>3, Went, Places DEF Look
<1>4. CASE Read(j)
  <2>1. [job[j] EXCEPT !.data = source[PathOf(j)], !.at = "check"] \in JobState(N)
    BY <1>0, <1>a, Records, Places
  <2> QED BY <1>0, <1>4, <2>1, Became DEF Read
<1>5. CASE Check(j)
  BY <1>0, <1>5, Went, Places DEF Check
<1>6. CASE Create(j)
  <2>1. PICK f \in Job \cup {None} :
          f # None /\ job' = [job EXCEPT ![j].file = f, ![j].part = 1, ![j].at = "write"]
    BY <1>6, Constants DEF Create, At, Route, Routed, Typed, Handling, Putting, Ended
  <2>2. [job[j] EXCEPT !.file = f, !.part = 1, !.at = "write"] \in JobState(N)
    BY <1>0, <2>1, Records, Places
  <2> QED BY <1>0, <2>1, <2>2, Became
<1>7. CASE Write(j)
  <2>1. [job[j] EXCEPT !.part = @ + 1] \in JobState(N)
    BY <1>0, Records, Places
  <2>2. CASE job' = [job EXCEPT ![j].part = @ + 1]
    BY <1>0, <2>1, <2>2, Became
  <2>3. CASE Goto(j, "rename")
    BY <1>0, <2>3, Went, Places
  <2> QED BY <1>7, <2>2, <2>3 DEF Write, Goto
<1>8. CASE Rename(j)
  BY <1>0, <1>8, Went, Places DEF Rename
<1>9. CASE Copy(j)
  BY <1>0, <1>9, Went, Places DEF Copy
<1> QED BY <1>1, <1>2, <1>3, <1>4, <1>5, <1>6, <1>7, <1>8, <1>9

LEMMA MovesOn ==
    ASSUME NEW N, Typed(N), Routed, NEW j \in Job,
           \/ Take(j) \/ Register(j) \/ SetBucketUri(j) \/ EnsureDocument(j)
           \/ Count(j) \/ Insert(j) \/ FindRevision(j) \/ AddRevision(j)
           \/ Stamp(j) \/ Ask(j) \/ Assert(j) \/ LinkEvidence(j) \/ Fails(j)
    PROVE  job' \in [Job -> JobState(N)]
<1>0. job \in [Job -> JobState(N)] /\ job[j] \in JobState(N)
  BY DEF Typed
<1>a. /\ AfterRegister(j) \in Place /\ AfterRevision(j) \in Place /\ AfterError(j) \in Place
  BY Onward, Places
<1>b. ASSUME ReadBody(j) PROVE job' \in [Job -> JobState(N)]
  <2>1. PICK b \in Blob \cup {None} : job' = [job EXCEPT ![j].at = "insert", ![j].data = b]
    BY <1>b, Constants DEF ReadBody, Typed
  <2>2. [job[j] EXCEPT !.at = "insert", !.data = b] \in JobState(N)
    BY <1>0, Records, Places
  <2> QED BY <1>0, <2>1, <2>2, Became
<1>1. CASE Take(j)
  BY <1>0, <1>a, <1>1, Went, Places DEF Take
<1>2. CASE Register(j)
  BY <1>0, <1>a, <1>2, Went DEF Register
<1>3. CASE SetBucketUri(j)
  BY <1>0, <1>3, Went, Places DEF SetBucketUri
<1>4. CASE EnsureDocument(j)
  <2>1. job[j].hash \in Blob
    BY <1>4 DEF EnsureDocument, At, Route, Routed, Ended
  <2>2. PICK p \in Place : job' = [job EXCEPT ![j].doc = job[j].hash, ![j].at = p]
    BY <1>4, Places DEF EnsureDocument
  <2>3. [job[j] EXCEPT !.doc = job[j].hash, !.at = p] \in JobState(N)
    BY <1>0, <2>1, Records, Constants
  <2> QED BY <1>0, <2>2, <2>3, Became
<1>5. CASE Count(j)
  BY <1>0, <1>b, <1>5, Went, Places DEF Count
<1>6. CASE Insert(j)
  BY <1>0, <1>6, Went, Places DEF Insert
<1>7. CASE FindRevision(j)
  <2>1. ASSUME NEW r \in revisions, job' = [job EXCEPT ![j].number = r.number, ![j].at = AfterRevision(j)]
        PROVE  job' \in [Job -> JobState(N)]
    <3>1. r.number \in N
      BY DEF Typed, Revision
    <3>2. [job[j] EXCEPT !.number = r.number, !.at = AfterRevision(j)] \in JobState(N)
      BY <1>0, <1>a, <3>1, Records
    <3> QED BY <1>0, <2>1, <3>2, Became
  <2>2. CASE Goto(j, "number")
    BY <1>0, <2>2, Went, Places
  <2> QED BY <1>7, <2>1, <2>2 DEF FindRevision, RevisionsOf
<1>8. CASE AddRevision(j)
  BY <1>0, <1>a, <1>8, Went, Places DEF AddRevision
<1>9. CASE Stamp(j)
  BY <1>0, <1>9, Went, Places DEF Stamp
<1>10. CASE Ask(j)
  <2>1. PICK found \in SUBSET Fact, p \in Place :
           job' = [job EXCEPT ![j].found = found, ![j].todo = found, ![j].at = p]
    BY <1>10, Places DEF Ask
  <2>2. [job[j] EXCEPT !.found = found, !.todo = found, !.at = p] \in JobState(N)
    BY <1>0, Records
  <2> QED BY <1>0, <2>1, <2>2, Became
<1>11. CASE Assert(j)
  <2>1. PICK f \in job[j].todo : job' = [job EXCEPT ![j].fact = f, ![j].at = "link"]
    BY <1>11 DEF Assert
  <2>2. f \in Fact
    BY <1>0 DEF JobState
  <2>3. [job[j] EXCEPT !.fact = f, !.at = "link"] \in JobState(N)
    BY <1>0, <2>2, Records, Places
  <2> QED BY <1>0, <2>1, <2>3, Became
<1>12. CASE LinkEvidence(j)
  <2>1. PICK rest \in SUBSET job[j].todo, p \in Place :
           job' = [job EXCEPT ![j].todo = rest, ![j].at = p]
    BY <1>12, Places DEF LinkEvidence
  <2>2. rest \in SUBSET Fact
    BY <1>0 DEF JobState
  <2>3. [job[j] EXCEPT !.todo = rest, !.at = p] \in JobState(N)
    BY <1>0, <2>2, Records
  <2> QED BY <1>0, <2>1, <2>3, Became
<1>13. CASE Fails(j)
  BY <1>0, <1>a, <1>b, <1>13, Went DEF Fails
<1> QED BY <1>1, <1>2, <1>3, <1>4, <1>5, <1>6, <1>7, <1>8, <1>9, <1>10, <1>11, <1>12, <1>13

\* Blobs may only be written where a file of a job is.
LEMMA DiskTyped ==
    ASSUME NEW N, Typed(N), Routed, NEW j \in Job,
           \/ Read(j) \/ Create(j) \/ Write(j) \/ Rename(j) \/ Copy(j)
    PROVE  /\ temp' \in [Blob -> Job \cup {None}] /\ stored' \in [Blob -> Job \cup {None}]
           /\ bytes' \in [Job -> [Part -> Blob \cup {None}]]
           /\ disturbed' \subseteq Blob
<1>1. job[j].data \in Blob \cup {None}
  BY DEF Typed, JobState
<1>2. CASE Read(j)
  <2>1. job[j].hash \in Blob
    BY <1>2 DEF Read, At, Route, Routed, Ended
  <2> QED BY <1>2, <2>1 DEF Read, Typed
<1>3. CASE Create(j)
  <2>1. job[j].hash \in Blob
    BY <1>3 DEF Create, At, Route, Routed, Ended
  <2>2. PICK f \in Job :
          /\ temp' = [temp EXCEPT ![job[j].hash] = f]
          /\ bytes' = [bytes EXCEPT ![f] = [n \in Part |-> None]]
    BY <1>3, <2>1, Constants DEF Create, Typed
  <2> QED BY <1>3, <2>1, <2>2 DEF Create, Typed
<1>4. CASE Write(j)
  BY <1>1, <1>4 DEF Write, At, Route, Routed, Typed
<1>5. CASE Rename(j)
  BY <1>5 DEF Rename, Typed
<1>6. CASE Copy(j)
  <2>1. [n \in Part |-> job[j].data] \in [Part -> Blob \cup {None}]
    BY <1>1
  <2>2. CASE stored' = [stored EXCEPT ![job[j].hash] = j]
             /\ bytes' = [bytes EXCEPT ![j] = [n \in Part |-> job[j].data]]
    BY <1>6, <2>1, <2>2 DEF Copy, Typed
  <2> QED BY <1>6, <2>2 DEF Copy, Typed
<1> QED BY <1>2, <1>3, <1>4, <1>5, <1>6

LEMMA RevisionsTyped ==
    ASSUME NEW N, Typed(N), Routed, NEW j \in Job, Insert(j) \/ AddRevision(j) \/ Stamp(j)
    PROVE  revisions' \subseteq Revision(N)
<1>1. job[j].data \in Blob \cup {None} /\ job[j].number \in N /\ 1 \in N
  BY DEF Typed, JobState
<1>2. CASE Insert(j)
  <2>1. job[j].hash \in Blob
    BY <1>2 DEF Insert, At, Route, Routed, Ended
  <2>2. [NewRevision(job[j].hash, 1, job[j].hash, job[j].data)
           EXCEPT !.blob = job[j].hash, !.located = TRUE] \in Revision(N)
    BY <1>1, <2>1, Constants DEF NewRevision, Revision
  <2> QED BY <1>2, <2>2 DEF Insert, Typed
<1>3. CASE AddRevision(j)
  <2>1. job[j].hash \in Blob /\ job[j].doc \in Document
    BY <1>3 DEF AddRevision, At, Route, Routed, Ended
  <2>2. NewRevision(job[j].doc, job[j].number, job[j].hash, job[j].data) \in Revision(N)
    BY <1>1, <2>1 DEF NewRevision, Revision
  <2> QED BY <1>3, <2>2 DEF AddRevision, Typed
<1>4. CASE Stamp(j)
  <2>1. job[j].hash \in Blob
    BY <1>4 DEF Stamp, At, Route, Routed, Ended
  <2>2. ASSUME NEW r \in revisions
        PROVE  r \in Revision(N) /\ [r EXCEPT !.blob = job[j].hash, !.located = TRUE] \in Revision(N)
    BY <2>1 DEF Typed, Revision
  <2> QED BY <1>4, <2>2 DEF Stamp
<1> QED BY <1>2, <1>3, <1>4

\* Every step but the choice of a revision's number keeps the numbers there are.
LEMMA TypeStep ==
    ASSUME NEW N, Typed(N), Routed, Next
    PROVE  \E M : Typed(M)'
<1> USE DEF disk, tables
<1>1. ASSUME NEW j \in Job, Start(j) \/ Hash(j) \/ Look(j) \/ Check(j)
      PROVE  Typed(N)'
  BY <1>1, Moves DEF Typed, Start, Hash, Look, Check
<1>2. ASSUME NEW j \in Job, Read(j) \/ Create(j) \/ Write(j) \/ Rename(j) \/ Copy(j)
      PROVE  Typed(N)'
  <2>1. /\ UNCHANGED <<source, row, docs, revisions>>
        /\ \/ Read(j) \/ Create(j) \/ Write(j) \/ Rename(j) \/ Copy(j)
    BY <1>2 DEF Read, Create, Write, Rename, Copy
  <2>2. job' \in [Job -> JobState(N)]
    BY <2>1, Moves
  <2> QED BY <2>1, <2>2, DiskTyped DEF Typed
<1>3. ASSUME NEW j \in Job, \/ Take(j) \/ Register(j) \/ SetBucketUri(j) \/ EnsureDocument(j)
                            \/ Count(j) \/ FindRevision(j) \/ Ask(j) \/ Assert(j)
                            \/ LinkEvidence(j) \/ Fails(j)
      PROVE  Typed(N)'
  <2>1. job' \in [Job -> JobState(N)] /\ UNCHANGED <<source, disk, revisions>>
    BY <1>3, MovesOn DEF Take, Register, SetBucketUri, EnsureDocument, Count, FindRevision,
                         Ask, Assert, LinkEvidence, Fails
  <2>2. CASE UNCHANGED <<row, docs>>
    BY <2>1, <2>2 DEF Typed
  <2>3. CASE Register(j) \/ SetBucketUri(j)
    BY <2>1, <2>3 DEF Register, SetBucketUri, Typed
  <2>4. CASE EnsureDocument(j)
    <3>1. job[j].hash \in Document
      BY <2>4, Constants DEF EnsureDocument, At, Route, Routed, Ended
    <3> QED BY <2>1, <2>4, <3>1 DEF EnsureDocument, Typed
  <2> QED BY <1>3, <2>2, <2>3, <2>4 DEF Take, Count, FindRevision, Ask, Assert, LinkEvidence, Fails
<1>4. ASSUME NEW j \in Job, Insert(j) \/ AddRevision(j) \/ Stamp(j)
      PROVE  Typed(N)'
  <2>1. UNCHANGED <<source, disk, row, docs>>
    BY <1>4 DEF Insert, AddRevision, Stamp
  <2>2. job' \in [Job -> JobState(N)]
    BY <1>4, MovesOn
  <2>3. revisions' \subseteq Revision(N)
    BY <1>4, RevisionsTyped
  <2> QED BY <2>1, <2>2, <2>3 DEF Typed
<1>5. ASSUME NEW j \in Job, NumberRevision(j)
      PROVE  \E M : Typed(M)'
  <2>1. PICK n : n = NextNumber(job[j].doc)
    OBVIOUS
  <2> DEFINE M == N \cup {n}
  <2>2. job \in [Job -> JobState(M)] /\ job[j] \in JobState(M)
    BY DEF Typed, JobState
  <2>3. [job[j] EXCEPT !.number = n, !.at = "add"] \in JobState(M)
    BY <2>2, Records, Places
  <2>4. job' \in [Job -> JobState(M)]
    BY <1>5, <2>1, <2>2, <2>3, Became DEF NumberRevision
  <2>5. revisions \subseteq Revision(M)
    BY DEF Typed, Revision
  <2>6. UNCHANGED <<source, disk, tables>>
    BY <1>5 DEF NumberRevision
  <2>7. Typed(M)'
    BY <2>4, <2>5, <2>6 DEF Typed
  <2> QED BY <2>7
<1>6. ASSUME NEW p \in Path, NEW b \in Held, Edit(p, b) PROVE Typed(N)'
  BY <1>6 DEF Edit, Typed
<1>7. ASSUME NEW p \in Process, Crash(p) PROVE Typed(N)'
  <2>1. ASSUME NEW j \in Job PROVE [job[j] EXCEPT !.at = "crashed"] \in JobState(N) /\ job[j] \in JobState(N)
    BY Records, Places DEF Typed
  <2>2. job' \in [Job -> JobState(N)]
    BY <1>7, <2>1 DEF Crash
  <2> QED BY <1>7, <2>2 DEF Crash, Typed
<1> QED BY <1>1, <1>2, <1>3, <1>4, <1>5, <1>6, <1>7 DEF Next

-----------------------------------------------------------------------------
(* Where jobs go *)

Steps(j) ==
    \/ Start(j) \/ Hash(j) \/ Look(j) \/ Read(j) \/ Check(j)
    \/ Create(j) \/ Write(j) \/ Rename(j) \/ Copy(j)
    \/ Take(j) \/ Register(j) \/ SetBucketUri(j) \/ EnsureDocument(j)
    \/ Count(j) \/ Insert(j)
    \/ FindRevision(j) \/ NumberRevision(j) \/ AddRevision(j)
    \/ Stamp(j) \/ Ask(j) \/ Assert(j) \/ LinkEvidence(j)
    \/ Fails(j)

\* A job's step leaves the other jobs where they are.
LEMMA Others ==
    ASSUME NEW N, Typed(N), NEW j \in Job, Steps(j), NEW k \in Job \ {j}
    PROVE  job'[k] = job[k]
<1>0. job \in [Job -> JobState(N)]
  BY DEF Typed
<1>1. ASSUME NEW p, Goto(j, p) PROVE job'[k] = job[k]
  BY <1>0, <1>1 DEF Goto
<1>2. ASSUME NEW c, Become(j, c) PROVE job'[k] = job[k]
  BY <1>0, <1>2 DEF Become
<1>3. CASE Start(j)
  BY <1>1, <1>2, <1>3 DEF Start
<1>4. CASE Hash(j) \/ Read(j) \/ Create(j) \/ EnsureDocument(j) \/ NumberRevision(j) \/ LinkEvidence(j)
  BY <1>0, <1>4 DEF Hash, Read, Create, EnsureDocument, NumberRevision, LinkEvidence
<1>5. CASE Look(j) \/ Check(j) \/ Rename(j) \/ Copy(j)
  BY <1>1, <1>5 DEF Look, Check, Rename, Copy
<1>6. CASE Write(j)
  BY <1>0, <1>6 DEF Write
<1>7. CASE Take(j) \/ Register(j) \/ SetBucketUri(j) \/ Insert(j) \/ AddRevision(j) \/ Stamp(j)
  BY <1>1, <1>7 DEF Take, Register, SetBucketUri, Insert, AddRevision, Stamp
<1>8. CASE Count(j) \/ Fails(j)
  BY <1>0, <1>1, <1>8 DEF Count, Fails, ReadBody
<1>9. CASE FindRevision(j)
  BY <1>0, <1>1, <1>9 DEF FindRevision
<1>10. CASE Ask(j) \/ Assert(j)
  BY <1>0, <1>10 DEF Ask, Assert
<1> QED BY <1>3, <1>4, <1>5, <1>6, <1>7, <1>8, <1>9, <1>10 DEF Steps

\* A job that goes elsewhere takes everything with it.
LEMMA Gone ==
    ASSUME NEW N, Typed(N), NEW j \in Job, NEW p, Goto(j, p)
    PROVE  /\ job'[j].at = p
           /\ job'[j].hash = job[j].hash /\ job'[j].data = job[j].data
           /\ job'[j].file = job[j].file /\ job'[j].part = job[j].part
           /\ job'[j].doc = job[j].doc /\ job'[j].number = job[j].number
           /\ job'[j].found = job[j].found /\ job'[j].todo = job[j].todo
           /\ job'[j].fact = job[j].fact
<1>1. job \in [Job -> JobState(N)] /\ job[j] \in JobState(N)
  BY DEF Typed
<1>2. job'[j] = [job[j] EXCEPT !.at = p]
  BY <1>1 DEF Goto
<1> QED BY <1>1, <1>2 DEF JobState

\* What a call knows stays with its job.
LEMMA RouteStep ==
    ASSUME NEW N, Typed(N), Routed, NEW j \in Job, Steps(j)
    PROVE  Route(j)'
<1>0. /\ job \in [Job -> JobState(N)] /\ job[j] \in JobState(N) /\ Route(j)
  BY DEF Typed, Routed
<1>a. source[PathOf(j)] \in Blob /\ Command[j].body \in Blob /\ docs \subseteq Document
  BY Constants DEF Typed
<1> USE DEF Handling, Putting, Ended
<1>1. CASE Start(j)
  <2>1. CASE Goto(j, "hash") /\ Kind(j) \in {"upload", "sync"}
    BY <2>1, Gone DEF Route
  <2>2. CASE Goto(j, "failed") \/ Goto(j, "done")
    BY <2>2, Gone DEF Route
  <2>3. ASSUME NEW b \in Blob, Kind(j) \in {"extract", "backfill"}, NEW c,
               Become(j, [Fresh EXCEPT !.at = "check", !.hash = b, !.data = c])
        PROVE  Route(j)'
    BY <1>0, <2>3 DEF Become, Fresh, Route
  <2>4. ASSUME NEW b \in Blob, Kind(j) = "revise", NEW d \in Document,
               Become(j, [Fresh EXCEPT !.at = "find", !.hash = b, !.data = b, !.doc = d])
        PROVE  Route(j)'
    BY <1>0, <2>4 DEF Become, Fresh, Route
  <2>5. ASSUME NEW r \in Unplaced PROVE r.blob \in Blob
    BY DEF Unplaced, Typed, Revision
  <2> QED BY <1>1, <1>a, <2>1, <2>2, <2>3, <2>4, <2>5 DEF Start
<1>2. CASE Hash(j)
  BY <1>0, <1>a, <1>2 DEF Hash, At, Route, JobState
<1>3. CASE Look(j) \/ Check(j) \/ Rename(j) \/ Copy(j)
  BY <1>0, <1>3, Gone DEF Look, Check, Rename, Copy, At, Route
<1>4. CASE Read(j)
  BY <1>0, <1>4 DEF Read, At, Route, JobState
<1>5. CASE Create(j)
  <2>1. PICK f \in Job :
          job' = [job EXCEPT ![j].file = f, ![j].part = 1, ![j].at = "write"]
    BY <1>0, <1>5, Constants DEF Create, At, Route, Typed
  <2> QED BY <1>0, <1>5, <2>1 DEF Create, At, Route, JobState
<1>6. CASE Write(j)
  BY <1>0, <1>6 DEF Write, At, Route, JobState
<1>7. CASE Take(j) \/ Register(j) \/ SetBucketUri(j)
  BY <1>0, <1>7, Gone, Onward, Constants DEF Take, Register, SetBucketUri, At, Route
<1>8. CASE EnsureDocument(j)
  BY <1>0, <1>8, Constants DEF EnsureDocument, At, Route, JobState
<1>9. CASE Count(j) \/ Insert(j)
  BY <1>0, <1>9, Gone DEF Count, Insert, ReadBody, At, Route, JobState
<1>10. CASE FindRevision(j)
  <2>1. CASE Goto(j, "number")
    BY <1>0, <1>10, <2>1, Gone DEF FindRevision, At, Route
  <2>2. ASSUME NEW n, job' = [job EXCEPT ![j].number = n, ![j].at = AfterRevision(j)]
        PROVE  Route(j)'
    <3>1. job'[j].at = AfterRevision(j) /\ job'[j].hash = job[j].hash
      BY <1>0, <2>2 DEF JobState
    <3> QED BY <1>0, <1>10, <3>1, Onward DEF FindRevision, At, Route
  <2> QED BY <1>10, <2>1, <2>2 DEF FindRevision
<1>11. CASE NumberRevision(j)
  BY <1>0, <1>11 DEF NumberRevision, At, Route, JobState
<1>12. CASE AddRevision(j) \/ Stamp(j)
  <2>1. CASE Goto(j, "failed")
    BY <2>1, Gone DEF Route
  <2>2. CASE AddRevision(j) /\ Goto(j, AfterRevision(j))
    <3>1. job[j].at = "add" /\ job'[j].at = AfterRevision(j) /\ job'[j].hash = job[j].hash
      BY <2>2, Gone DEF AddRevision, At
    <3> QED BY <1>0, <3>1, Onward DEF Route
  <2>3. CASE Stamp(j)
    <3>1. job[j].at = "stamp" /\ job'[j].at = "ask" /\ job'[j].hash = job[j].hash
      BY <2>3, Gone DEF Stamp, At
    <3> QED BY <1>0, <3>1 DEF Route
  <2> QED BY <1>12, <2>1, <2>2, <2>3 DEF AddRevision
<1>13. CASE Ask(j) \/ Assert(j) \/ LinkEvidence(j)
  <2>1. job[j].at \in {"ask", "assert", "link"}
    BY <1>13 DEF Ask, Assert, LinkEvidence, At
  <2>2. CASE Ask(j)
    BY <1>0, <2>1, <2>2 DEF Ask, Route, JobState
  <2>3. CASE Assert(j)
    BY <1>0, <2>1, <2>3 DEF Assert, Route, JobState
  <2>4. CASE LinkEvidence(j)
    BY <1>0, <2>1, <2>4 DEF LinkEvidence, Route, JobState
  <2> QED BY <1>13, <2>2, <2>3, <2>4
<1>14. CASE Fails(j)
  BY <1>0, <1>14, Gone, Onward, Constants DEF Fails, ReadBody, At, Route, JobState
<1> QED BY <1>1, <1>2, <1>3, <1>4, <1>5, <1>6, <1>7, <1>8, <1>9, <1>10, <1>11, <1>12, <1>13, <1>14 DEF Steps

LEMMA RoutedStep ==
    ASSUME NEW N, Typed(N), Routed, Next PROVE Routed'
<1>1. ASSUME NEW j \in Job, Steps(j) PROVE Routed'
  <2>1. ASSUME NEW k \in Job \ {j} PROVE Route(k)'
    BY <1>1, <2>1, Others DEF Routed, Route
  <2> QED BY <1>1, <2>1, RouteStep DEF Routed
<1>2. ASSUME NEW p \in Path, NEW b \in Held, Edit(p, b) PROVE Routed'
  BY <1>2 DEF Edit, Routed, Route
<1>3. ASSUME NEW p \in Process, Crash(p) PROVE Routed'
  <2>1. ASSUME NEW j \in Job
        PROVE  \/ job'[j] = job[j]
               \/ job'[j].at = "crashed"
    <3>1. job[j] \in JobState(N)
      BY DEF Typed
    <3> QED BY <1>3, <3>1 DEF Crash, JobState
  <2> QED BY <2>1 DEF Routed, Route, Ended
<1> QED BY <1>1, <1>2, <1>3 DEF Next, Steps

\* Once its blob is put a job keeps its hash and puts nothing more; a job that
\* failed does not go on.
LEMMA Later ==
    ASSUME NEW N, Typed(N), Routed, NEW j \in Job,
           \/ Take(j) \/ Register(j) \/ SetBucketUri(j) \/ EnsureDocument(j) \/ Count(j) \/ Insert(j)
           \/ FindRevision(j) \/ NumberRevision(j) \/ AddRevision(j)
           \/ Stamp(j) \/ Ask(j) \/ Assert(j) \/ LinkEvidence(j) \/ Fails(j)
    PROVE  job'[j].hash = job[j].hash /\ job'[j].at \in Handling \cup Ended
<1>0. job \in [Job -> JobState(N)] /\ job[j] \in JobState(N)
  BY DEF Typed
<1> USE DEF Handling, Ended
<1>1. CASE Take(j) \/ Register(j) \/ SetBucketUri(j)
  <2>1. ASSUME NEW p \in {"set", "register", "document", "done"}, Goto(j, p)
        PROVE  job'[j].hash = job[j].hash /\ job'[j].at \in Handling \cup Ended
    BY <2>1, Gone
  <2>2. CASE Take(j)
    <3>1. CASE Kind(j) \in {"backfill", "extract"}
      BY <2>1, <2>2, <3>1 DEF Take
    <3>2. CASE Kind(j) \in {"upload", "sync"} /\ Command[j].registers
      BY <2>1, <2>2, <3>2 DEF Take
    <3>3. CASE Kind(j) \notin {"backfill", "extract"} /\ ~(Kind(j) \in {"upload", "sync"} /\ Command[j].registers)
      <4>1. Goto(j, AfterRegister(j))
        BY <2>2, <3>3 DEF Take
      <4>2. AfterRegister(j) \in {"document", "done"}
        BY Onward
      <4> QED BY <2>1, <4>1, <4>2
    <3> QED BY <3>1, <3>2, <3>3
  <2>3. CASE Register(j) \/ SetBucketUri(j)
    BY <2>1, <2>3, Onward DEF Register, SetBucketUri
  <2> QED BY <1>1, <2>2, <2>3
<1>2. CASE Insert(j) \/ Stamp(j)
  BY <1>2, Gone DEF Insert, Stamp
<1>3. CASE AddRevision(j)
  BY <1>3, Gone, Onward DEF AddRevision
<1>4. CASE EnsureDocument(j) \/ NumberRevision(j)
  BY <1>0, <1>4 DEF EnsureDocument, NumberRevision, JobState
<1>5. CASE Count(j)
  BY <1>0, <1>5, Gone DEF Count, ReadBody, JobState
<1>6. CASE FindRevision(j)
  <2>1. ASSUME NEW n, job' = [job EXCEPT ![j].number = n, ![j].at = AfterRevision(j)]
        PROVE  job'[j].hash = job[j].hash /\ job'[j].at = AfterRevision(j)
    BY <1>0, <2>1 DEF JobState
  <2> QED BY <1>6, <2>1, Gone, Onward DEF FindRevision
<1>7. CASE Ask(j) \/ Assert(j) \/ LinkEvidence(j)
  <2>1. CASE Ask(j)
    <3>1. ASSUME NEW s, NEW p \in {"done", "assert"},
                 job' = [job EXCEPT ![j].found = s, ![j].todo = s, ![j].at = p]
          PROVE  job'[j].hash = job[j].hash /\ job'[j].at = p
      BY <1>0, <3>1 DEF JobState
    <3> QED BY <2>1, <3>1 DEF Ask
  <2>2. CASE Assert(j)
    BY <1>0, <2>2 DEF Assert, JobState
  <2>3. CASE LinkEvidence(j)
    BY <1>0, <2>3 DEF LinkEvidence, JobState
  <2> QED BY <1>7, <2>1, <2>2, <2>3
<1>8. CASE Fails(j)
  <2>1. CASE ReadBody(j)
    BY <1>0, <2>1 DEF ReadBody, JobState
  <2> QED BY <1>8, <2>1, Gone, Onward DEF Fails
<1> QED BY <1>1, <1>2, <1>3, <1>4, <1>5, <1>6, <1>7, <1>8

-----------------------------------------------------------------------------
(* Addresses *)

\* Nothing that was stored goes away.
LEMMA StoredStays ==
    ASSUME NEW N, Typed(N), Routed, Next, NEW b \in Blob, stored[b] # None
    PROVE  stored'[b] # None
<1>1. CASE UNCHANGED stored
  BY <1>1
<1>2. ASSUME NEW j \in Job, Rename(j) PROVE stored'[b] # None
  BY <1>2 DEF Rename, Typed
<1>3. ASSUME NEW j \in Job, Copy(j) PROVE stored'[b] # None
  BY <1>3, Constants DEF Copy, Typed
<1> QED BY <1>1, <1>2, <1>3 DEF Next, Start, Hash, Look, Read, Check, Create, Write, Take, Register,
           SetBucketUri, EnsureDocument, Count, Insert, FindRevision, NumberRevision, AddRevision,
           Stamp, Ask, Assert, LinkEvidence, Fails, Edit, Crash, disk

\* A job goes on with a blob only once it has seen it stored.
LEMMA SeenStep ==
    ASSUME NEW N, Typed(N), Routed, Routed', Seen, Next
    PROVE  Seen'
<1> DEFINE Saw(j) == job[j].at \in Handling \cup {"put"} /\ Kind(j) # "revise"
                     => stored[job[j].hash] # None
<1>1. ASSUME NEW j \in Job, job'[j].hash = job[j].hash,
             job[j].at \in Handling \cup {"put"} \/ job'[j].at \notin Handling \cup {"put"}
      PROVE  Saw(j)'
  <2>1. CASE job[j].at \in Handling \cup {"put"} /\ Kind(j) # "revise"
    <3>1. stored[job[j].hash] # None /\ job[j].hash \in Blob
      BY <2>1 DEF Seen, Routed, Route, Handling, Ended
    <3> QED BY <1>1, <3>1, StoredStays
  <2> QED BY <1>1, <2>1
<1>2. ASSUME NEW j \in Job, Steps(j) PROVE Saw(j)'
  <2>0. job \in [Job -> JobState(N)] /\ job[j] \in JobState(N) /\ Route(j)
    BY DEF Typed, Routed
  <2> USE DEF Handling
  <2>1. CASE Start(j)
    <3>1. Kind(j) = "revise" \/ job'[j].at \notin Handling \cup {"put"}
      <4>1. ASSUME NEW c, Become(j, [Fresh EXCEPT !.at = "check", !.hash = c, !.data = c])
            PROVE  job'[j].at = "check"
        BY <2>0, <4>1 DEF Become, Fresh
      <4>2. ASSUME NEW r, Become(j, [Fresh EXCEPT !.at = "check", !.hash = r.blob, !.data = r.body])
            PROVE  job'[j].at = "check"
        BY <2>0, <4>2 DEF Become, Fresh
      <4>3. ASSUME NEW p \in {"hash", "failed", "done"}, Goto(j, p)
            PROVE  job'[j].at \in {"hash", "failed", "done"}
        BY <4>3, Gone
      <4>4. CASE Kind(j) = "extract"
        BY <2>1, <4>1, <4>3, <4>4 DEF Start
      <4>5. CASE Kind(j) \in {"upload", "sync"}
        BY <2>1, <4>3, <4>5 DEF Start
      <4>6. CASE Kind(j) = "backfill"
        BY <2>1, <4>2, <4>3, <4>6 DEF Start
      <4> QED BY <4>4, <4>5, <4>6, Constants
    <3> QED BY <3>1
  <2>2. CASE Hash(j) \/ Read(j) \/ Create(j) \/ Write(j)
    <3>1. job'[j].at \in {"look", "check", "write", "rename"}
      BY <2>0, <2>2 DEF Hash, Read, Create, Write, At, JobState
    <3> QED BY <3>1
  <2>3. CASE Look(j) \/ Check(j)
    BY <2>3, Gone DEF Look, Check, disk
  <2>4. CASE Rename(j)
    <3>1. job[j].hash \in Blob /\ job'[j].hash = job[j].hash
      BY <2>0, <2>4, Gone DEF Rename, At, Route, Ended
    <3> QED BY <2>4, <3>1, Gone DEF Rename, Typed
  <2>5. CASE Copy(j)
    <3>1. job[j].hash \in Blob /\ job'[j].hash = job[j].hash
      BY <2>0, <2>5, Gone DEF Copy, At, Route, Ended
    <3> QED BY <2>5, <3>1, Constants DEF Copy, Typed
  <2>6. CASE Take(j) \/ Register(j) \/ SetBucketUri(j) \/ EnsureDocument(j) \/ Count(j) \/ Insert(j)
             \/ FindRevision(j) \/ NumberRevision(j) \/ AddRevision(j)
             \/ Stamp(j) \/ Ask(j) \/ Assert(j) \/ LinkEvidence(j)
    <3>1. job[j].at \in Handling \cup {"put"}
      BY <2>6 DEF Take, Register, SetBucketUri, EnsureDocument, Count, Insert, FindRevision,
                  NumberRevision, AddRevision, Stamp, Ask, Assert, LinkEvidence, At
    <3>2. job'[j].hash = job[j].hash
      BY <2>6, Later
    <3> QED BY <1>1, <3>1, <3>2
  <2>7. CASE Fails(j)
    <3>1. CASE job[j].at \in Handling
      <4>1. job'[j].hash = job[j].hash
        BY <2>7, Later
      <4> QED BY <1>1, <3>1, <4>1
    <3>2. CASE job[j].at \notin Handling
      <4>1. job'[j].at \in {"done", "failed"}
        BY <2>7, <3>2, Gone, Onward DEF Fails
      <4> QED BY <4>1
    <3> QED BY <3>1, <3>2
  <2> QED BY <1>2, <2>1, <2>2, <2>3, <2>4, <2>5, <2>6, <2>7 DEF Steps
<1>3. ASSUME NEW j \in Job, Steps(j) PROVE Seen'
  <2>1. ASSUME NEW k \in Job \ {j} PROVE Saw(k)'
    BY <1>1, <1>3, Others
  <2> QED BY <1>2, <1>3, <2>1 DEF Seen
<1>4. ASSUME NEW p \in Path, NEW b \in Held, Edit(p, b) PROVE Seen'
  BY <1>4 DEF Edit, Seen, disk
<1>5. ASSUME NEW p \in Process, Crash(p) PROVE Seen'
  <2>1. ASSUME NEW j \in Job
        PROVE  job'[j] = job[j] \/ job'[j].at = "crashed"
    <3>1. job[j] \in JobState(N)
      BY DEF Typed
    <3> QED BY <1>5, <3>1 DEF Crash, JobState
  <2>2. UNCHANGED stored
    BY <1>5 DEF Crash, disk
  <2> QED BY <2>1, <2>2 DEF Seen, Handling
<1> QED BY <1>3, <1>4, <1>5 DEF Next, Steps

LEMMA AddressStep ==
    ASSUME NEW N, Typed(N), Routed, Seen, AddressesResolve, Next
    PROVE  AddressesResolve'
<1>1. ASSUME NEW b \in Blob, row'[b] = "located" PROVE stored'[b] # None
  <2>1. CASE row[b] = "located"
    BY <2>1, StoredStays DEF AddressesResolve
  <2>2. CASE row[b] # "located"
    <3>1. PICK j \in Job : Register(j) \/ SetBucketUri(j)
      BY <1>1, <2>2 DEF Next, Start, Hash, Look, Read, Check, Create, Write, Rename, Copy, Take,
           EnsureDocument, Count, Insert, FindRevision, NumberRevision, AddRevision,
           Stamp, Ask, Assert, LinkEvidence, Fails, Edit, Crash, tables
    <3>2. b = job[j].hash /\ job[j].at \in {"register", "set"}
      BY <1>1, <2>2, <3>1 DEF Register, SetBucketUri, At, Typed
    <3>3. Kind(j) # "revise"
      BY <3>2 DEF Routed, Route, Ended
    <3>4. stored[b] # None
      BY <3>2, <3>3 DEF Seen, Handling
    <3> QED BY <3>4, StoredStays
  <2> QED BY <2>1, <2>2
<1>2. ASSUME NEW r \in revisions', r.located
      PROVE  r.blob \in Blob /\ stored'[r.blob] # None
  <2>1. CASE r \in revisions
    BY <1>2, <2>1, StoredStays DEF AddressesResolve
  <2>2. CASE r \notin revisions
    <3>1. PICK j \in Job : Insert(j) \/ AddRevision(j) \/ Stamp(j)
      BY <1>2, <2>2 DEF Next, Start, Hash, Look, Read, Check, Create, Write, Rename, Copy, Take,
           Register, SetBucketUri, EnsureDocument, Count, FindRevision, NumberRevision,
           Ask, Assert, LinkEvidence, Fails, Edit, Crash, tables
    <3>2. Route(j) /\ job[j].at \in {"insert", "add", "stamp"}
      BY <3>1 DEF Insert, AddRevision, Stamp, At, Routed
    <3>3. CASE AddRevision(j)
      BY <1>2, <2>2, <3>3 DEF AddRevision, NewRevision
    <3>4. CASE Insert(j) \/ Stamp(j)
      <4>1. job[j].hash \in Blob /\ Kind(j) # "revise"
        BY <3>2, <3>4 DEF Route, Ended, Insert, Stamp, At
      <4>2. stored[job[j].hash] # None
        BY <3>2, <4>1 DEF Seen, Handling
      <4>3. r.blob = job[j].hash
        <5>1. CASE Insert(j)
          BY <2>2, <5>1 DEF Insert, NewRevision
        <5>2. CASE Stamp(j)
          <6>1. PICK q \in revisions : r = [q EXCEPT !.blob = job[j].hash, !.located = TRUE]
            BY <2>2, <5>2 DEF Stamp
          <6> QED BY <6>1 DEF Typed, Revision
        <5> QED BY <3>4, <5>1, <5>2
      <4> QED BY <4>1, <4>2, <4>3, StoredStays
    <3> QED BY <3>1, <3>3, <3>4
  <2> QED BY <2>1, <2>2
<1> QED BY <1>1, <1>2 DEF AddressesResolve

BlobsInv == (\E N : Typed(N)) /\ Routed /\ Seen

LEMMA InvInit == Init => BlobsInv
<1> SUFFICES ASSUME Init PROVE BlobsInv
  OBVIOUS
<1>1. Typed({0, 1}) /\ Routed
  BY TypeInit
<1>2. Seen
  BY DEF Init, Fresh, Seen, Handling
<1> QED BY <1>1, <1>2 DEF BlobsInv

LEMMA InvStep == BlobsInv /\ [Next]_vars => BlobsInv'
<1> SUFFICES ASSUME BlobsInv, [Next]_vars PROVE BlobsInv'
  OBVIOUS
<1>1. PICK N : Typed(N)
  BY DEF BlobsInv
<1>2. CASE Next
  <2>1. Routed'
    BY <1>1, <1>2, RoutedStep DEF BlobsInv
  <2>2. Seen'
    BY <1>1, <1>2, <2>1, SeenStep DEF BlobsInv
  <2>3. \E M : Typed(M)'
    BY <1>1, <1>2, TypeStep DEF BlobsInv
  <2> QED BY <2>1, <2>2, <2>3 DEF BlobsInv
<1>3. CASE UNCHANGED vars
  <2>1. Typed(N)'
    BY <1>1, <1>3 DEF vars, disk, tables, Typed
  <2> QED BY <1>3, <2>1 DEF BlobsInv, vars, disk, tables, Routed, Route, Seen
<1> QED BY <1>2, <1>3

LEMMA AddressesInit == Init => AddressesResolve
BY DEF Init, AddressesResolve, Legacy, NewRevision

LEMMA AddressesStep == BlobsInv /\ AddressesResolve /\ [Next]_vars => BlobsInv' /\ AddressesResolve'
<1> SUFFICES ASSUME BlobsInv, AddressesResolve, [Next]_vars PROVE AddressesResolve'
  BY InvStep
<1>1. PICK N : Typed(N)
  BY DEF BlobsInv
<1>2. CASE Next
  BY <1>1, <1>2, AddressStep DEF BlobsInv
<1>3. CASE UNCHANGED vars
  BY <1>3 DEF vars, disk, tables, AddressesResolve
<1> QED BY <1>2, <1>3

\* An address the database gives leads to a blob, whatever jobs there are, in
\* whatever order they run, fail and die.
THEOREM Addresses == Spec => []AddressesResolve
BY InvInit, AddressesInit, AddressesStep, PTL DEF Spec

-----------------------------------------------------------------------------
(* Whole blobs *)

\* Where a job has not yet made a file.
Before == {"idle", "hash", "look", "read", "check", "create", "copy"}
Writing(j) == job[j].at \in {"write", "rename"}

\* A file is one of the blob its maker puts.
MadeFor(f, b) == job[f].hash = b /\ job[f].at \notin Before

Owned ==
    /\ \A b \in Blob, f \in Job : temp[b] = f \/ stored[b] = f => MadeFor(f, b)
    /\ \A j \in Job : Writing(j) => MadeFor(job[j].file, job[j].hash)
    /\ \A b \in Blob : temp[b] # None => temp[b] # stored[b]

\* Nobody else writes an undisturbed blob.
Alone ==
    \A j, k \in Job : Writing(j) /\ Writing(k) /\ job[j].hash = job[k].hash
                      /\ job[j].hash \notin disturbed => j = k

\* The bytes about to be stored have the hash they are stored under.
Honest ==
    /\ \A j \in Job : job[j].hash \notin disturbed =>
         /\ job[j].at = "check" => job[j].data = job[j].hash \/ stored[job[j].hash] # None
         /\ job[j].at \in {"create", "write", "rename", "copy"} => job[j].data = job[j].hash
    /\ \A r \in revisions : r.blob # None /\ ~r.located => r.body = r.blob

\* What a job has written of its file so far is the blob, part by part.
Filled ==
    \A j \in Job : Writing(j) =>
        /\ job[j].at = "write" => job[j].part \in Part
        /\ job[j].hash \notin disturbed =>
             /\ temp[job[j].hash] = job[j].file
             /\ \A n \in Part : job[j].at = "rename" \/ n < job[j].part
                                => bytes[job[j].file][n] = job[j].hash

Written == Owned /\ Alone /\ Filled /\ UndisturbedIsWhole

\* A job that has made its file, or is past doing so, makes no other.
LEMMA Forward ==
    ASSUME NEW N, Typed(N), Routed, Next, NEW f \in Job, job[f].at \notin Before
    PROVE  job'[f].at \notin Before /\ job'[f].hash = job[f].hash
<1>0. job \in [Job -> JobState(N)] /\ job[f] \in JobState(N)
  BY DEF Typed
<1> USE DEF Before
<1>1. ASSUME NEW j \in Job, Steps(j), j # f PROVE job'[f] = job[f]
  BY <1>1, Others
<1>2. CASE Start(f) \/ Hash(f) \/ Look(f) \/ Read(f) \/ Check(f) \/ Create(f) \/ Copy(f)
  BY <1>2 DEF Start, Hash, Look, Read, Check, Create, Copy, At
<1>3. CASE Write(f)
  BY <1>0, <1>3 DEF Write, JobState
<1>4. CASE Rename(f)
  BY <1>4, Gone DEF Rename
<1>5. CASE \/ Take(f) \/ Register(f) \/ SetBucketUri(f) \/ EnsureDocument(f) \/ Count(f) \/ Insert(f)
           \/ FindRevision(f) \/ NumberRevision(f) \/ AddRevision(f)
           \/ Stamp(f) \/ Ask(f) \/ Assert(f) \/ LinkEvidence(f) \/ Fails(f)
  BY <1>5, Later DEF Handling, Ended
<1>6. ASSUME NEW p \in Path, NEW b \in Held, Edit(p, b) PROVE job'[f] = job[f]
  BY <1>6 DEF Edit
<1>7. ASSUME NEW p \in Process, Crash(p)
      PROVE  job'[f].hash = job[f].hash /\ job'[f].at \in {job[f].at, "crashed"}
  BY <1>0, <1>7 DEF Crash, JobState
<1>8. CASE Steps(f)
  BY <1>2, <1>3, <1>4, <1>5, <1>8 DEF Steps
<1> QED BY <1>1, <1>6, <1>7, <1>8 DEF Next, Steps

\* A step that leaves the disk alone leaves what was written alone.
LEMMA Quiet ==
    ASSUME NEW N, Typed(N), Routed, Next, Written, UNCHANGED <<temp, stored, bytes>>,
           disturbed \subseteq disturbed',
           \A j \in Job : Writing(j)' => job'[j] = job[j]
    PROVE  Written'
<1>1. ASSUME NEW f \in Job, NEW b, MadeFor(f, b) PROVE MadeFor(f, b)'
  BY <1>1, Forward DEF MadeFor
<1>2. ASSUME NEW j \in Job, Writing(j)' PROVE job'[j] = job[j] /\ Writing(j) /\ job[j].file \in Job
  BY <1>2 DEF Writing, Routed, Route
<1>3. Owned'
  BY <1>1, <1>2 DEF Written, Owned
<1>4. Alone'
  BY <1>2 DEF Written, Alone
<1>5. Filled'
  BY <1>2 DEF Written, Filled
<1>6. UndisturbedIsWhole'
  BY DEF Written, UndisturbedIsWhole, Whole
<1> QED BY <1>3, <1>4, <1>5, <1>6 DEF Written

\* Most steps are such.
LEMMA QuietSteps ==
    ASSUME NEW N, Typed(N), Routed, Next, Written,
           ~\E j \in Job : Create(j) \/ Write(j) \/ Rename(j) \/ Copy(j)
    PROVE  Written'
<1>0. job \in [Job -> JobState(N)]
  BY DEF Typed
<1>1. UNCHANGED <<temp, stored, bytes>> /\ disturbed \subseteq disturbed'
  BY DEF Next, Start, Hash, Look, Read, Check, Take, Register,
     SetBucketUri, EnsureDocument, Count, Insert, FindRevision, NumberRevision, AddRevision,
     Stamp, Ask, Assert, LinkEvidence, Fails, Edit, Crash, disk
<1>2. ASSUME NEW j \in Job, Writing(j)' PROVE job'[j] = job[j]
  <2>1. CASE \E k \in Job \ {j} : Steps(k)
    BY <2>1, Others
  <2>2. CASE Start(j)
    <3>1. job'[j].at \in {"hash", "check", "find", "done", "failed"}
      <4>1. ASSUME NEW p \in {"hash", "done", "failed"}, Goto(j, p) PROVE job'[j].at = p
        BY <4>1, Gone
      <4>2. ASSUME NEW c, NEW p \in {"check", "find"}, c.at = p, Become(j, c) PROVE job'[j].at = p
        BY <1>0, <4>2 DEF Become
      <4> QED BY <2>2, <4>1, <4>2 DEF Start, Fresh
    <3> QED BY <1>2, <3>1 DEF Writing
  <2>3. CASE Hash(j) \/ Read(j)
    BY <1>0, <1>2, <2>3 DEF Hash, Read, Writing, JobState
  <2>4. CASE Look(j) \/ Check(j)
    BY <1>2, <2>4, Gone DEF Look, Check, Writing
  <2>5. CASE \/ Take(j) \/ Register(j) \/ SetBucketUri(j) \/ EnsureDocument(j) \/ Count(j) \/ Insert(j)
             \/ FindRevision(j) \/ NumberRevision(j) \/ AddRevision(j)
             \/ Stamp(j) \/ Ask(j) \/ Assert(j) \/ LinkEvidence(j) \/ Fails(j)
    BY <1>2, <2>5, Later DEF Writing, Handling, Ended
  <2>6. CASE \E p \in Path, b \in Held : Edit(p, b)
    BY <2>6 DEF Edit
  <2>7. CASE \E p \in Process : Crash(p)
    BY <1>0, <1>2, <2>7 DEF Crash, Writing, JobState
  <2> QED BY <2>1, <2>2, <2>3, <2>4, <2>5, <2>6, <2>7 DEF Next, Steps
<1> QED BY <1>1, <1>2, Quiet

\* A step of one job leaves what the others have, and the makers of files.
LEMMA Stays ==
    ASSUME NEW N, Typed(N), Routed, Next, NEW j \in Job, Steps(j)
    PROVE  /\ \A k \in Job \ {j} : job'[k] = job[k]
           /\ \A f \in Job : \A b : MadeFor(f, b) => MadeFor(f, b)'
BY Others, Forward DEF MadeFor

LEMMA CreateStep ==
    ASSUME NEW N, Typed(N), Routed, Next, Written, NEW j \in Job, Create(j)
    PROVE  Written'
<1>a. /\ job \in [Job -> JobState(N)] /\ job[j] \in JobState(N)
      /\ job[j].at = "create" /\ job[j].hash \in Blob
  BY DEF Typed, Routed, Route, Create, At, Ended
<1>b. PICK b \in Blob : b = job[j].hash
  BY <1>a
<1>c. PICK f \in Job : f = IF temp[b] # None THEN temp[b] ELSE j
  BY DEF Typed
<1>1. /\ job \in [Job -> JobState(N)] /\ job[j] \in JobState(N)
      /\ job[j].at = "create" /\ b \in Blob /\ f \in Job
      /\ temp[b] # None => f = temp[b]
      /\ temp[b] = None => f = j
  BY <1>a, <1>c
<1>2. /\ temp' = [temp EXCEPT ![b] = f] /\ stored' = stored
      /\ bytes' = [bytes EXCEPT ![f] = [n \in Part |-> None]]
      /\ job' = [job EXCEPT ![j].file = f, ![j].part = 1, ![j].at = "write"]
      /\ disturbed' = IF Writers(b) = {} THEN disturbed ELSE disturbed \cup {b}
  BY <1>b, <1>c DEF Create
<1>3. /\ job'[j].at = "write" /\ job'[j].hash = b /\ job'[j].file = f /\ job'[j].part = 1
  BY <1>1, <1>2, <1>b DEF JobState
<1>4. Steps(j)
  BY DEF Steps
<1>5. /\ \A k \in Job \ {j} : job'[k] = job[k]
      /\ \A g \in Job : \A c : MadeFor(g, c) => MadeFor(g, c)'
  BY <1>4, Stays
<1>6. MadeFor(f, b)'
  <2>1. CASE temp[b] # None
    BY <1>1, <1>5, <2>1 DEF Written, Owned
  <2>2. CASE temp[b] = None
    BY <1>1, <1>3, <2>2 DEF MadeFor, Before
  <2> QED BY <2>1, <2>2
\* A new file is no one's yet.
<1>7. temp[b] = None =>
        /\ \A c \in Blob : temp[c] # j /\ stored[c] # j
        /\ \A k \in Job : Writing(k) => job[k].file # j
  BY <1>1 DEF Written, Owned, MadeFor, Before
<1>8. Owned'
  <2>1. ASSUME NEW c \in Blob, NEW g \in Job, temp'[c] = g \/ stored'[c] = g PROVE MadeFor(g, c)'
    BY <1>1, <1>2, <1>5, <1>6, <2>1 DEF Written, Owned, Typed
  <2>2. ASSUME NEW k \in Job, Writing(k)' PROVE MadeFor(job[k].file, job[k].hash)'
    <3>1. CASE k = j
      BY <1>3, <1>6, <3>1
    <3>2. CASE k # j
      <4>1. /\ job'[k] = job[k] /\ Writing(k) /\ job[k].file \in Job
        BY <1>5, <2>2, <3>2 DEF Writing, Routed, Route
      <4>2. MadeFor(job[k].file, job[k].hash)
        BY <4>1 DEF Written, Owned
      <4> QED BY <1>5, <4>1, <4>2 DEF MadeFor
    <3> QED BY <3>1, <3>2
  <2>3. ASSUME NEW c \in Blob, temp'[c] # None PROVE temp'[c] # stored'[c]
    BY <1>1, <1>2, <1>7, <2>3 DEF Written, Owned, Typed
  <2> QED BY <2>1, <2>2, <2>3 DEF Owned
<1>9. ASSUME NEW k \in Job \ {j}, Writing(k)', job'[k].hash \notin disturbed'
      PROVE  /\ Writing(k) /\ job'[k] = job[k] /\ job[k].hash # b /\ job[k].hash \in Blob
             /\ job[k].hash \notin disturbed
  <2>1. Writing(k) /\ job'[k] = job[k] /\ job[k].hash \in Blob
    BY <1>5, <1>9 DEF Writing, Routed, Route, Ended
  <2>2. job[k].hash # b
    BY <1>1, <1>2, <1>9, <2>1 DEF Writers, Writing, Typed
  <2> QED BY <1>2, <1>9, <2>1, <2>2
<1>10. Alone'
  BY <1>3, <1>9 DEF Written, Alone
<1>11. Filled'
  <2>1. ASSUME NEW k \in Job, Writing(k)'
        PROVE  /\ job'[k].at = "write" => job'[k].part \in Part
               /\ job'[k].hash \notin disturbed' =>
                    /\ temp'[job'[k].hash] = job'[k].file
                    /\ \A n \in Part : job'[k].at = "rename" \/ n < job'[k].part
                                       => bytes'[job'[k].file][n] = job'[k].hash
    <3>1. CASE k = j
      BY <1>1, <1>2, <1>3, <3>1, ConstantsAssumption DEF Part, Typed
    <3>2. CASE k # j
      <4>1. Writing(k) /\ job'[k] = job[k] /\ job[k].file \in Job
        BY <1>5, <2>1, <3>2 DEF Writing, Routed, Route
      <4>2. job[k].at = "write" => job[k].part \in Part
        BY <4>1 DEF Written, Filled
      <4>3. ASSUME job'[k].hash \notin disturbed'
            PROVE  /\ temp'[job[k].hash] = job[k].file
                   /\ \A n \in Part : job[k].at = "rename" \/ n < job[k].part
                                      => bytes'[job[k].file][n] = job[k].hash
        <5>1. job[k].hash # b /\ job[k].hash \in Blob /\ job[k].hash \notin disturbed
          BY <1>9, <2>1, <3>2, <4>3
        <5>2. job[k].file # f
          <6>1. CASE temp[b] # None
            <7>1. MadeFor(f, b) /\ MadeFor(job[k].file, job[k].hash)
              BY <1>1, <4>1, <6>1 DEF Written, Owned
            <7> QED BY <5>1, <7>1 DEF MadeFor
          <6>2. CASE temp[b] = None
            BY <1>1, <1>7, <4>1, <6>2
          <6> QED BY <6>1, <6>2
        <5>3. temp'[job[k].hash] = temp[job[k].hash] /\ bytes'[job[k].file] = bytes[job[k].file]
          BY <1>1, <1>2, <4>1, <5>1, <5>2 DEF Typed
        <5> QED BY <4>1, <5>1, <5>3 DEF Written, Filled
      <4> QED BY <4>1, <4>2, <4>3
    <3> QED BY <3>1, <3>2
  <2> QED BY <2>1 DEF Filled, Writing
<1>12. UndisturbedIsWhole'
  <2>1. ASSUME NEW c \in Blob, c \notin disturbed', stored'[c] # None PROVE Whole(c)'
    <3>1. stored[c] \in Job /\ c \notin disturbed /\ Whole(c)
      BY <1>2, <2>1 DEF Written, UndisturbedIsWhole, Typed
    <3>2. stored[c] # f
      <4>1. CASE temp[b] # None
        <5>1. MadeFor(f, b) /\ MadeFor(stored[c], c)
          BY <1>1, <3>1, <4>1 DEF Written, Owned
        <5>2. f # stored[b]
          BY <1>1, <4>1 DEF Written, Owned
        <5> QED BY <5>1, <5>2 DEF MadeFor
      <4>2. CASE temp[b] = None
        BY <1>1, <1>7, <3>1, <4>2
      <4> QED BY <4>1, <4>2
    <3> QED BY <1>1, <1>2, <3>1, <3>2 DEF Whole, Typed
  <2> QED BY <2>1 DEF UndisturbedIsWhole
<1> QED BY <1>8, <1>10, <1>11, <1>12 DEF Written

LEMMA WriteStep ==
    ASSUME NEW N, Typed(N), Routed, Next, Written, Honest, NEW j \in Job, Write(j)
    PROVE  Written'
<1>a. /\ job \in [Job -> JobState(N)] /\ job[j] \in JobState(N)
      /\ job[j].at = "write" /\ job[j].hash \in Blob /\ job[j].file \in Job
      /\ job[j].data \in Blob \cup {None}
  BY DEF Typed, Routed, Route, Write, At, Ended, JobState
<1>b. Writing(j) /\ MadeFor(job[j].file, job[j].hash) /\ job[j].part \in Part
  BY <1>a DEF Writing, Written, Owned, Filled
<1>c. PICK b \in Blob, f \in Job, i \in Part :
         b = job[j].hash /\ f = job[j].file /\ i = job[j].part
  BY <1>a, <1>b
<1>1. /\ UNCHANGED <<temp, stored, disturbed>>
      /\ bytes' = [bytes EXCEPT ![f][i] = job[j].data]
      /\ IF i + 1 \in Part THEN job' = [job EXCEPT ![j].part = @ + 1] ELSE Goto(j, "rename")
  BY <1>c DEF Write, Goto
<1>2. /\ job'[j].hash = b /\ job'[j].file = f
      /\ \/ job'[j].at = "write" /\ job'[j].part = i + 1 /\ i + 1 \in Part
         \/ job'[j].at = "rename" /\ i + 1 \notin Part
  <2>1. CASE i + 1 \in Part
    BY <1>a, <1>c, <1>1, <2>1 DEF JobState
  <2>2. CASE i + 1 \notin Part
    BY <1>c, <1>1, <2>2, Gone
  <2> QED BY <2>1, <2>2
<1>3. /\ \A k \in Job \ {j} : job'[k] = job[k]
      /\ \A g \in Job : \A c : MadeFor(g, c) => MadeFor(g, c)'
  BY Stays DEF Steps
<1>4. ASSUME NEW k \in Job, Writing(k)'
      PROVE  /\ Writing(k) /\ job'[k].hash = job[k].hash /\ job'[k].file = job[k].file
             /\ job[k].file \in Job /\ job[k].hash \in Blob
  BY <1>b, <1>c, <1>2, <1>3, <1>4 DEF Writing, Routed, Route, Ended
<1>5. Owned'
  <2>1. ASSUME NEW k \in Job, Writing(k)' PROVE MadeFor(job[k].file, job[k].hash)'
    <3>1. MadeFor(job[k].file, job[k].hash)
      BY <1>4, <2>1 DEF Written, Owned
    <3> QED BY <1>3, <1>4, <2>1, <3>1 DEF MadeFor
  <2> QED BY <1>1, <1>3, <2>1 DEF Written, Owned
<1>6. Alone'
  BY <1>1, <1>4 DEF Written, Alone
<1>7. b \notin disturbed => job[j].data = b
  BY <1>a, <1>c DEF Honest
<1>8. /\ bytes'[f] = [bytes[f] EXCEPT ![i] = job[j].data]
      /\ \A g \in Job \ {f} : bytes'[g] = bytes[g]
      /\ bytes[f] \in [Part -> Blob \cup {None}]
  BY <1>1 DEF Typed
<1>9. Filled'
  <2>1. ASSUME NEW k \in Job, Writing(k)'
        PROVE  /\ job'[k].at = "write" => job'[k].part \in Part
               /\ job'[k].hash \notin disturbed' =>
                    /\ temp'[job'[k].hash] = job'[k].file
                    /\ \A n \in Part : job'[k].at = "rename" \/ n < job'[k].part
                                       => bytes'[job'[k].file][n] = job'[k].hash
    <3>1. CASE k = j
      <4>1. job'[k].at = "write" => job'[k].part \in Part
        BY <1>2, <3>1
      <4>2. ASSUME b \notin disturbed
            PROVE  /\ temp[b] = f
                   /\ \A n \in Part : n < i => bytes[f][n] = b
        BY <1>a, <1>b, <1>c, <4>2 DEF Written, Filled
      <4>3. ASSUME NEW n \in Part, job'[k].at = "rename" \/ n < job'[k].part PROVE n < i \/ n = i
        BY <1>2, <3>1, <4>3, ConstantsAssumption DEF Part
      <4>4. ASSUME b \notin disturbed, NEW n \in Part, job'[k].at = "rename" \/ n < job'[k].part
            PROVE  bytes'[f][n] = b
        BY <1>7, <1>8, <4>2, <4>3, <4>4
      <4> QED BY <1>1, <1>2, <3>1, <4>1, <4>2, <4>4
    <3>2. CASE k # j
      <4>1. Writing(k) /\ job'[k] = job[k] /\ job[k].file \in Job
        BY <1>3, <1>4, <2>1, <3>2
      <4>2. ASSUME job[k].hash \notin disturbed PROVE job[k].file # f
        <5>1. MadeFor(job[k].file, job[k].hash)
          BY <4>1 DEF Written, Owned
        <5>2. job[k].hash # b
          BY <1>b, <1>c, <3>2, <4>1, <4>2 DEF Written, Alone
        <5> QED BY <1>b, <1>c, <5>1, <5>2 DEF MadeFor
      <4> QED BY <1>1, <1>8, <4>1, <4>2 DEF Written, Filled
    <3> QED BY <3>1, <3>2
  <2> QED BY <2>1 DEF Filled, Writing
<1>10. UndisturbedIsWhole'
  <2>1. ASSUME NEW c \in Blob, c \notin disturbed, stored[c] # None PROVE Whole(c)'
    <3>1. stored[c] \in Job /\ Whole(c) /\ MadeFor(stored[c], c)
      BY <2>1 DEF Written, Owned, UndisturbedIsWhole, Typed
    <3>2. stored[c] # f
      <4>1. CASE c = b
        <5>1. temp[b] = f
          BY <1>b, <1>c, <2>1, <4>1 DEF Written, Filled
        <5> QED BY <4>1, <5>1, Constants DEF Written, Owned
      <4>2. CASE c # b
        BY <1>b, <1>c, <3>1, <4>2 DEF MadeFor
      <4> QED BY <4>1, <4>2
    <3> QED BY <1>1, <1>8, <3>1, <3>2 DEF Whole
  <2> QED BY <1>1, <2>1 DEF UndisturbedIsWhole
<1> QED BY <1>5, <1>6, <1>9, <1>10 DEF Written

LEMMA RenameStep ==
    ASSUME NEW N, Typed(N), Routed, Next, Written, Honest, NEW j \in Job, Rename(j)
    PROVE  Written'
<1>a. /\ job[j].at = "rename" /\ Writing(j) /\ job[j].hash \in Blob
  BY DEF Rename, At, Routed, Route, Ended, Writing
<1>b. PICK b \in Blob : b = job[j].hash
  BY <1>a
<1>1. \A k \in Job : Writing(k)' => k # j /\ job'[k] = job[k] /\ Writing(k) /\ job[k].file \in Job
  <2>1. job'[j].at \in {"failed", "put"}
    BY Gone DEF Rename
  <2>2. \A k \in Job \ {j} : job'[k] = job[k]
    BY Stays DEF Steps
  <2> QED BY <2>1, <2>2 DEF Writing, Routed, Route
<1>2. CASE temp[b] = None
  <2>1. UNCHANGED <<temp, stored, bytes, disturbed>>
    BY <1>b, <1>2 DEF Rename
  <2> QED BY <1>1, <2>1, Quiet
<1>3. CASE temp[b] # None
  <2>1. /\ stored' = [stored EXCEPT ![b] = temp[b]] /\ temp' = [temp EXCEPT ![b] = None]
        /\ UNCHANGED <<bytes, disturbed>>
    BY <1>b, <1>3 DEF Rename
  <2>2. /\ stored'[b] = temp[b] /\ temp'[b] = None
        /\ \A c \in Blob \ {b} : stored'[c] = stored[c] /\ temp'[c] = temp[c]
    BY <2>1 DEF Typed
  <2>3. \A g \in Job : \A c : MadeFor(g, c) => MadeFor(g, c)'
    BY Stays DEF Steps
  <2>4. Owned'
    <3>1. ASSUME NEW c \in Blob, NEW g \in Job, temp'[c] = g \/ stored'[c] = g PROVE MadeFor(g, c)
      BY <2>2, <3>1, Constants DEF Written, Owned
    <3>2. ASSUME NEW c \in Blob, temp'[c] # None PROVE temp'[c] # stored'[c]
      BY <2>2, <3>2 DEF Written, Owned
    <3>3. ASSUME NEW k \in Job, Writing(k)' PROVE MadeFor(job[k].file, job[k].hash)'
      BY <1>1, <2>3, <3>3 DEF Written, Owned, MadeFor
    <3> QED BY <2>3, <3>1, <3>2, <3>3 DEF Owned
  <2>5. Alone'
    BY <1>1, <2>1 DEF Written, Alone
  <2>6. Filled'
    <3>1. ASSUME NEW k \in Job, Writing(k)'
          PROVE  /\ job'[k].at = "write" => job'[k].part \in Part
                 /\ job'[k].hash \notin disturbed' =>
                      /\ temp'[job'[k].hash] = job'[k].file
                      /\ \A n \in Part : job'[k].at = "rename" \/ n < job'[k].part
                                         => bytes'[job'[k].file][n] = job'[k].hash
      <4>1. k # j /\ job'[k] = job[k] /\ Writing(k) /\ job[k].hash \in Blob
        BY <1>1, <3>1 DEF Routed, Route, Writing, Ended
      <4>2. job[k].hash \notin disturbed => job[k].hash # b
        BY <1>a, <1>b, <4>1 DEF Written, Alone
      <4> QED BY <2>1, <2>2, <4>1, <4>2 DEF Written, Filled
    <3> QED BY <3>1 DEF Filled, Writing
  <2>7. UndisturbedIsWhole'
    <3>1. ASSUME NEW c \in Blob, c \notin disturbed, stored'[c] # None PROVE Whole(c)'
      <4>1. CASE c # b
        BY <2>1, <2>2, <3>1, <4>1 DEF Written, UndisturbedIsWhole, Whole
      <4>2. CASE c = b
        <5>1. /\ temp[b] = job[j].file /\ job[j].file \in Job
              /\ \A n \in Part : bytes[job[j].file][n] = b
          BY <1>a, <1>b, <3>1, <4>2 DEF Written, Filled, Routed, Route
        <5>2. bytes[temp[b]] = [n \in Part |-> b]
          BY <5>1 DEF Typed
        <5> QED BY <2>1, <2>2, <4>2, <5>2 DEF Whole
      <4> QED BY <4>1, <4>2
    <3> QED BY <2>1, <3>1 DEF UndisturbedIsWhole
  <2> QED BY <2>4, <2>5, <2>6, <2>7 DEF Written
<1> QED BY <1>2, <1>3

LEMMA CopyStep ==
    ASSUME NEW N, Typed(N), Routed, Next, Written, Honest, NEW j \in Job, Copy(j)
    PROVE  Written'
<1>a. job[j].at = "copy" /\ job[j].hash \in Blob
  BY DEF Copy, At, Routed, Route, Ended
<1>b. PICK b \in Blob : b = job[j].hash
  BY <1>a
<1>1. \A k \in Job : Writing(k)' => k # j /\ job'[k] = job[k] /\ Writing(k) /\ job[k].file \in Job
  <2>1. job'[j].at = "put"
    BY Gone DEF Copy
  <2>2. \A k \in Job \ {j} : job'[k] = job[k]
    BY Stays DEF Steps
  <2> QED BY <2>1, <2>2 DEF Writing, Routed, Route
<1>2. CASE stored[b] # None
  <2>1. UNCHANGED <<temp, stored, bytes, disturbed>>
    BY <1>b, <1>2 DEF Copy
  <2> QED BY <1>1, <2>1, Quiet
<1>3. CASE stored[b] = None
  <2>1. /\ stored' = [stored EXCEPT ![b] = j] /\ UNCHANGED <<temp, disturbed>>
        /\ bytes' = [bytes EXCEPT ![j] = [n \in Part |-> job[j].data]]
    BY <1>b, <1>3 DEF Copy
  <2>2. /\ stored'[b] = j /\ bytes'[j] = [n \in Part |-> job[j].data]
        /\ \A c \in Blob \ {b} : stored'[c] = stored[c]
        /\ \A g \in Job \ {j} : bytes'[g] = bytes[g]
    BY <2>1 DEF Typed
  <2>3. \A g \in Job : \A c : MadeFor(g, c) => MadeFor(g, c)'
    BY Stays DEF Steps
\* The object is no one's yet.
  <2>4. /\ \A c \in Blob : temp[c] # j /\ stored[c] # j
        /\ \A k \in Job : Writing(k) => job[k].file # j
    BY <1>a DEF Written, Owned, MadeFor, Before
  <2>5. MadeFor(j, b)'
    BY <1>b, Gone DEF Copy, MadeFor, Before
  <2>6. Owned'
    <3>1. ASSUME NEW c \in Blob, NEW g \in Job, temp'[c] = g \/ stored'[c] = g PROVE MadeFor(g, c)'
      BY <2>1, <2>2, <2>3, <2>5, <3>1 DEF Written, Owned
    <3>2. ASSUME NEW c \in Blob, temp'[c] # None PROVE temp'[c] # stored'[c]
      BY <2>1, <2>2, <2>4, <3>2 DEF Written, Owned
    <3>3. ASSUME NEW k \in Job, Writing(k)' PROVE MadeFor(job[k].file, job[k].hash)'
      BY <1>1, <2>3, <3>3 DEF Written, Owned, MadeFor
    <3> QED BY <3>1, <3>2, <3>3 DEF Owned
  <2>7. Alone'
    BY <1>1, <2>1 DEF Written, Alone
  <2>8. Filled'
    BY <1>1, <2>1, <2>2, <2>4 DEF Written, Filled
  <2>9. UndisturbedIsWhole'
    <3>1. ASSUME NEW c \in Blob, c \notin disturbed, stored'[c] # None PROVE Whole(c)'
      <4>1. CASE c # b
        <5>1. stored[c] \in Job \ {j} /\ Whole(c)
          BY <2>2, <2>4, <3>1, <4>1 DEF Written, UndisturbedIsWhole, Typed
        <5> QED BY <2>2, <4>1, <5>1 DEF Whole
      <4>2. CASE c = b
        <5>1. job[j].data = b
          BY <1>a, <1>b, <3>1, <4>2 DEF Honest
        <5> QED BY <2>2, <4>2, <5>1 DEF Whole
      <4> QED BY <4>1, <4>2
    <3> QED BY <2>1, <3>1 DEF UndisturbedIsWhole
  <2> QED BY <2>6, <2>7, <2>8, <2>9 DEF Written
<1> QED BY <1>2, <1>3

LEMMA HonestStep ==
    ASSUME NEW N, Typed(N), Routed, Next, AddressesResolve, Honest
    PROVE  Honest'
<1> DEFINE True(j) ==
        job[j].hash \notin disturbed =>
          /\ job[j].at = "check" => job[j].data = job[j].hash \/ stored[job[j].hash] # None
          /\ job[j].at \in {"create", "write", "rename", "copy"} => job[j].data = job[j].hash
           Puts == {"check", "create", "write", "rename", "copy"}
<1>0. job \in [Job -> JobState(N)]
  BY DEF Typed
<1>1. disturbed \subseteq disturbed'
  BY DEF Next, Start, Hash, Look, Read, Check, Create, Write, Rename, Copy, Take, Register,
     SetBucketUri, EnsureDocument, Count, Insert, FindRevision, NumberRevision, AddRevision,
     Stamp, Ask, Assert, LinkEvidence, Fails, Edit, Crash, disk
<1>a. \A r \in revisions : r.blob \in Blob \cup {None} /\ r.located \in BOOLEAN
  BY DEF Typed, Revision
<1>2. ASSUME NEW k \in Job, job'[k] = job[k] PROVE True(k)'
  <2>1. job[k].at \in Puts => job[k].hash \in Blob
    BY DEF Routed, Route, Ended
  <2> QED BY <1>1, <1>2, <2>1, StoredStays DEF Honest
<1>3. ASSUME NEW j \in Job, Steps(j) PROVE True(j)'
  <2>0. job[j] \in JobState(N)
    BY <1>0
  <2>1. CASE Start(j)
    <3>1. ASSUME NEW p \in {"hash", "failed", "done"}, Goto(j, p) PROVE True(j)'
      BY <3>1, Gone
    <3>2. ASSUME NEW c, c.at = "check" \/ c.at = "find", c.data = c.hash, Become(j, c) PROVE True(j)'
      BY <1>0, <3>2 DEF Become
    <3>3. ASSUME NEW r \in Unplaced,
                 Become(j, [Fresh EXCEPT !.at = "check", !.hash = r.blob, !.data = r.body])
          PROVE  True(j)'
      <4>1. job'[j].at = "check" /\ job'[j].hash = r.blob /\ job'[j].data = r.body
        BY <1>0, <3>3 DEF Become, Fresh
      <4>2. r \in revisions /\ r.blob # None /\ r.blob \in Blob
        BY <1>a DEF Unplaced
      <4>3. r.body = r.blob \/ stored[r.blob] # None
        <5>1. CASE r.located
          BY <4>2, <5>1 DEF AddressesResolve
        <5>2. CASE ~r.located
          BY <4>2, <5>2 DEF Honest
        <5> QED BY <5>1, <5>2
      <4> QED BY <4>1, <4>2, <4>3, StoredStays
    <3> QED BY <2>1, <3>1, <3>2, <3>3 DEF Start, Fresh
  <2>2. CASE Hash(j)
    BY <2>0, <1>0, <2>2 DEF Hash, JobState
  <2>3. CASE Look(j)
    BY <2>3, Gone DEF Look
  <2>4. CASE Read(j)
    <3>1. /\ job'[j].at = "check" /\ job'[j].hash = job[j].hash /\ job'[j].data = source[PathOf(j)]
      BY <1>0, <2>0, <2>4 DEF Read, JobState
    <3> QED BY <2>4, <3>1 DEF Read
  <2>5. CASE Check(j)
    <3>1. job[j].hash \notin disturbed => job[j].data = job[j].hash \/ stored[job[j].hash] # None
      BY <2>5 DEF Check, At, Honest
    <3> QED BY <1>1, <2>5, <3>1, Gone DEF Check
  <2>6. CASE Create(j) \/ Write(j)
    <3>1. /\ job[j].at \in {"create", "write"} /\ job'[j].at \in {"write", "rename"}
          /\ job'[j].hash = job[j].hash /\ job'[j].data = job[j].data
      BY <1>0, <2>0, <2>6 DEF Create, Write, At, JobState
    <3> QED BY <1>1, <3>1 DEF Honest
  <2>7. CASE Rename(j) \/ Copy(j)
    BY <2>7, Gone DEF Rename, Copy
  <2>8. CASE \/ Take(j) \/ Register(j) \/ SetBucketUri(j) \/ EnsureDocument(j) \/ Count(j) \/ Insert(j)
             \/ FindRevision(j) \/ NumberRevision(j) \/ AddRevision(j)
             \/ Stamp(j) \/ Ask(j) \/ Assert(j) \/ LinkEvidence(j) \/ Fails(j)
    BY <2>8, Later DEF Handling, Ended
  <2> QED BY <1>3, <2>1, <2>2, <2>3, <2>4, <2>5, <2>6, <2>7, <2>8 DEF Steps
<1>4. \A j \in Job : True(j)'
  <2>1. ASSUME NEW j \in Job, Steps(j) PROVE \A k \in Job : True(k)'
    BY <1>2, <1>3, <2>1, Others
  <2>2. ASSUME NEW p \in Path, NEW b \in Held, Edit(p, b) PROVE \A k \in Job : True(k)'
    BY <1>2, <2>2 DEF Edit
  <2>3. ASSUME NEW p \in Process, Crash(p) PROVE \A k \in Job : True(k)'
    <3>1. ASSUME NEW k \in Job PROVE job'[k] = job[k] \/ job'[k].at = "crashed"
      BY <1>0, <2>3 DEF Crash, JobState
    <3> QED BY <1>2, <3>1
  <2> QED BY <2>1, <2>2, <2>3 DEF Next, Steps
<1>5. ASSUME NEW r \in revisions', r.blob # None, ~r.located PROVE r.body = r.blob
  <2>1. CASE r \in revisions
    BY <1>5, <2>1 DEF Honest
  <2>2. CASE r \notin revisions
    <3>1. PICK j \in Job : Insert(j) \/ AddRevision(j) \/ Stamp(j)
      BY <1>5, <2>2 DEF Next, Start, Hash, Look, Read, Check, Create, Write, Rename, Copy, Take,
           Register, SetBucketUri, EnsureDocument, Count, FindRevision, NumberRevision,
           Ask, Assert, LinkEvidence, Fails, Edit, Crash, tables
    <3>2. CASE Insert(j)
      <4>1. r = [NewRevision(job[j].hash, 1, job[j].hash, job[j].data)
                   EXCEPT !.blob = job[j].hash, !.located = TRUE]
        BY <2>2, <3>2 DEF Insert
      <4> QED BY <1>5, <4>1 DEF NewRevision
    <3>3. CASE AddRevision(j)
      <4>1. r = NewRevision(job[j].doc, job[j].number, job[j].hash, job[j].data)
        BY <2>2, <3>3 DEF AddRevision
      <4> QED BY <1>5, <4>1 DEF NewRevision
    <3>4. CASE Stamp(j)
      <4>1. PICK q \in revisions : r = [q EXCEPT !.blob = job[j].hash, !.located = TRUE]
        BY <2>2, <3>4 DEF Stamp
      <4> QED BY <1>5, <4>1 DEF Typed, Revision
    <3> QED BY <3>1, <3>2, <3>3, <3>4
  <2> QED BY <2>1, <2>2
<1> QED BY <1>4, <1>5 DEF Honest

\* A blob nobody disturbed is stored whole or not at all, for any number of
\* jobs, processes, parts and blobs.
THEOREM Wholeness == Spec => []UndisturbedIsWhole
<1>1. Init => Written /\ Honest
  <2> SUFFICES ASSUME Init PROVE Written /\ Honest
    OBVIOUS
  <2>1. /\ \A b \in Blob : temp[b] = None /\ stored[b] = None
        /\ \A j \in Job : job[j].at \in {"idle", "off"}
    BY DEF Init, Fresh
  <2>2. \A r \in revisions : r.blob # None => r.body = r.blob
    <3>1. PICK old : revisions = Legacy(old)
      BY DEF Init
    <3>2. ASSUME NEW r \in revisions PROVE r.body = r.blob
      <4>1. PICK b \in old : r = [NewRevision(Archive, 1, b, b) EXCEPT !.blob = b]
        BY <3>1 DEF Legacy
      <4> QED BY <4>1 DEF NewRevision
    <3> QED BY <3>2
  <2> QED BY <2>1, <2>2, Constants DEF Written, Owned, Alone, Filled, Honest, UndisturbedIsWhole, Writing
<1>2. BlobsInv /\ AddressesResolve /\ Written /\ Honest /\ [Next]_vars => Written' /\ Honest'
  <2> SUFFICES ASSUME BlobsInv, AddressesResolve, Written, Honest, [Next]_vars PROVE Written' /\ Honest'
    OBVIOUS
  <2>1. PICK N : Typed(N)
    BY DEF BlobsInv
  <2>2. CASE Next
    <3>1. Written'
      <4>1. CASE \E j \in Job : Create(j) \/ Write(j) \/ Rename(j) \/ Copy(j)
        BY <2>1, <2>2, <4>1, CreateStep, WriteStep, RenameStep, CopyStep DEF BlobsInv
      <4> QED BY <2>1, <2>2, <4>1, QuietSteps DEF BlobsInv
    <3> QED BY <2>1, <2>2, <3>1, HonestStep DEF BlobsInv
  <2>3. CASE UNCHANGED vars
    BY <2>3 DEF vars, disk, tables, Written, Owned, MadeFor, Alone, Filled, Honest,
                UndisturbedIsWhole, Whole, Writing
  <2> QED BY <2>2, <2>3
<1>3. Written => UndisturbedIsWhole
  BY DEF Written
<1> QED BY <1>1, <1>2, <1>3, InvInit, AddressesInit, AddressesStep, PTL DEF Spec

-----------------------------------------------------------------------------
(* Links *)

Revised(d, n, h) == \E r \in revisions : r.doc = d /\ r.number = n /\ r.hash = h
Located(d, n, h) ==
    \E r \in revisions : r.doc = d /\ r.number = n /\ r.hash = h /\ r.blob = h /\ r.located
LinkOf(j, f) == [fact |-> f, doc |-> job[j].doc, number |-> job[j].number, text |-> job[j].data]

\* A document has one revision of a number.
Keyed == \A q, r \in revisions : q.doc = r.doc /\ q.number = r.number => q = r

\* What an extraction knows of its text, its revision and its facts.
Knows(j) ==
    Kind(j) = "extract" =>
      /\ job[j].at \notin {"idle"} \cup Ended => job[j].data = job[j].hash
      /\ job[j].at = "stamp" => Revised(job[j].doc, job[j].number, job[j].hash)
      /\ job[j].at \in {"ask", "assert", "link"} => Located(job[j].doc, job[j].number, job[j].hash)
      /\ job[j].at \in {"assert", "link"} => \A f \in job[j].found \ job[j].todo : LinkOf(j, f) \in links
      /\ job[j].at = "done" => \A f \in job[j].found : LinkOf(j, f) \in links

LinksInv == Keyed /\ LinksTellTheText /\ \A j \in Job : Knows(j)

LEMMA LinksInit == Init => LinksInv
<1> SUFFICES ASSUME Init PROVE LinksInv
  OBVIOUS
<1>1. Keyed
  <2>1. PICK old \in {{}} \cup {{b} : b \in Text} : revisions = Legacy(old)
    BY DEF Init
  <2>2. \A q, r \in revisions : q = r
    BY <2>1 DEF Legacy
  <2> QED BY <2>2 DEF Keyed
<1>2. links = {} /\ \A j \in Job : job[j].at \in {"idle", "off"}
  BY DEF Init, Fresh
<1> QED BY <1>1, <1>2 DEF LinksInv, LinksTellTheText, Knows, Ended

\* A revision stays one of its number and text; stamped with its own text it
\* stays located.
LEMMA RevisionsStay ==
    ASSUME NEW N, Typed(N), Routed, Next, Keyed, \A j \in Job : Knows(j)
    PROVE  /\ Keyed'
           /\ \A d, n, h : Revised(d, n, h) => Revised(d, n, h)'
           /\ \A d, n, h : Located(d, n, h) => Located(d, n, h)'
<1>1. CASE UNCHANGED revisions
  BY <1>1 DEF Keyed, Revised, Located
<1>2. ASSUME NEW d, NEW n, NEW r, r.doc = d, r.number = n,
             \A q \in revisions : q.doc = d => q.number # n, revisions' = revisions \cup {r}
      PROVE  /\ Keyed'
             /\ \A e, m, h : Revised(e, m, h) => Revised(e, m, h)'
             /\ \A e, m, h : Located(e, m, h) => Located(e, m, h)'
  BY <1>2 DEF Keyed, Revised, Located
<1>3. ASSUME NEW j \in Job, Insert(j), revisions' # revisions
      PROVE  \E d, n, r : /\ r.doc = d /\ r.number = n /\ revisions' = revisions \cup {r}
                          /\ \A q \in revisions : q.doc = d => q.number # n
  <2>1. PICK h : h = job[j].hash
    OBVIOUS
  <2>2. PICK r : r = [NewRevision(h, 1, h, job[j].data) EXCEPT !.blob = h, !.located = TRUE]
    OBVIOUS
  <2>3. revisions' = revisions \cup {r} /\ \A q \in RevisionsOf(h) : q.number # 1
    BY <1>3, <2>1, <2>2 DEF Insert
  <2>4. r.doc = h /\ r.number = 1
    BY <2>2 DEF NewRevision
  <2> QED BY <2>3, <2>4 DEF RevisionsOf
<1>4. ASSUME NEW j \in Job, AddRevision(j), revisions' # revisions
      PROVE  \E d, n, r : /\ r.doc = d /\ r.number = n /\ revisions' = revisions \cup {r}
                          /\ \A q \in revisions : q.doc = d => q.number # n
  <2>1. PICK d, n : d = job[j].doc /\ n = job[j].number
    OBVIOUS
  <2>2. PICK r : r = NewRevision(d, n, job[j].hash, job[j].data)
    OBVIOUS
  <2>3. revisions' = revisions \cup {r} /\ \A q \in RevisionsOf(d) : q.number # n
    BY <1>4, <2>1, <2>2 DEF AddRevision
  <2>4. r.doc = d /\ r.number = n
    BY <2>2 DEF NewRevision
  <2> QED BY <2>3, <2>4 DEF RevisionsOf
<1>5. ASSUME NEW j \in Job, Stamp(j)
      PROVE  /\ Keyed'
             /\ \A d, n, h : Revised(d, n, h) => Revised(d, n, h)'
             /\ \A d, n, h : Located(d, n, h) => Located(d, n, h)'
  <2>1. PICK d, n, h : d = job[j].doc /\ n = job[j].number /\ h = job[j].hash
    OBVIOUS
  <2> DEFINE Stamped(r) == IF r.doc = d /\ r.number = n
                           THEN [r EXCEPT !.blob = h, !.located = TRUE] ELSE r
  <2>2. revisions' = {Stamped(r) : r \in revisions}
    BY <1>5, <2>1 DEF Stamp
  <2>3. ASSUME NEW r \in revisions
        PROVE  /\ Stamped(r).doc = r.doc /\ Stamped(r).number = r.number /\ Stamped(r).hash = r.hash
               /\ r.doc = d /\ r.number = n => Stamped(r).blob = h /\ Stamped(r).located
               /\ ~(r.doc = d /\ r.number = n) => Stamped(r) = r
    BY DEF Typed, Revision
  <2>4. \A r \in revisions : r.doc = d /\ r.number = n => r.hash = h
    <3>1. Revised(d, n, h)
      BY <1>5, <2>1 DEF Stamp, At, Knows, Routed, Route
    <3> QED BY <3>1 DEF Revised, Keyed
  <2> HIDE DEF Stamped
  <2>5. Keyed'
    BY <2>2, <2>3 DEF Keyed
  <2>6. \A e, m, g : Revised(e, m, g) => Revised(e, m, g)'
    BY <2>2, <2>3 DEF Revised
  <2>7. ASSUME NEW e, NEW m, NEW g, Located(e, m, g) PROVE Located(e, m, g)'
    <3>1. PICK r \in revisions : r.doc = e /\ r.number = m /\ r.hash = g /\ r.blob = g /\ r.located
      BY <2>7 DEF Located
    <3>2. Stamped(r).blob = g /\ Stamped(r).located
      BY <2>3, <2>4, <3>1
    <3>3. Stamped(r) \in revisions'
      BY <2>2
    <3> QED BY <2>3, <3>1, <3>2, <3>3 DEF Located
  <2> QED BY <2>5, <2>6, <2>7
<1>6. UNCHANGED revisions \/ \E j \in Job : Insert(j) \/ AddRevision(j) \/ Stamp(j)
  BY DEF Next, Start, Hash, Look, Read, Check, Create, Write, Rename, Copy, Take, Register,
     SetBucketUri, EnsureDocument, Count, FindRevision, NumberRevision, Ask, Assert, LinkEvidence,
     Fails, Edit, Crash, tables
<1> QED BY <1>1, <1>2, <1>3, <1>4, <1>5, <1>6

\* No link is taken back, and a new one is of the fact that was asserted.
LEMMA LinksStay ==
    ASSUME NEW N, Typed(N), Next, LinksTellTheText, \A j \in Job : Knows(j), Routed,
           \A d, n, h : Located(d, n, h) => Located(d, n, h)'
    PROVE  links \subseteq links' /\ LinksTellTheText'
<1>1. CASE UNCHANGED links
  BY <1>1 DEF LinksTellTheText, Located, RevisionsOf
<1>2. ASSUME NEW j \in Job, LinkEvidence(j) PROVE links \subseteq links' /\ LinksTellTheText'
  <2>1. PICK l : l = LinkOf(j, job[j].fact)
    OBVIOUS
  <2>2. links' = links \cup {l}
    BY <1>2, <2>1 DEF LinkEvidence, LinkOf
  <2>3. l.doc = job[j].doc /\ l.number = job[j].number /\ l.text = job[j].data
    BY <2>1 DEF LinkOf
  <2>4. job[j].data = job[j].hash /\ Located(job[j].doc, job[j].number, job[j].hash)
    BY <1>2 DEF LinkEvidence, At, Knows, Routed, Route, Ended
  <2>5. Located(l.doc, l.number, l.text)'
    BY <2>3, <2>4
  <2> QED BY <2>2, <2>5 DEF LinksTellTheText, Located, RevisionsOf
<1>3. UNCHANGED links \/ \E j \in Job : LinkEvidence(j)
  BY DEF Next, Start, Hash, Look, Read, Check, Create, Write, Rename, Copy, Take, Register,
     SetBucketUri, EnsureDocument, Count, Insert, FindRevision, NumberRevision, AddRevision, Stamp,
     Ask, Assert, Fails, Edit, Crash, tables
<1> QED BY <1>1, <1>2, <1>3

\* An extraction on the way to its revision.
LEMMA Carries ==
    ASSUME NEW j \in Job, Knows(j), job[j].at \notin {"idle"} \cup Ended,
           job'[j].hash = job[j].hash, job'[j].data = job[j].data,
           job'[j].at \notin {"stamp", "ask", "assert", "link", "done"}
    PROVE  Knows(j)'
BY DEF Knows

LEMMA KnowsStep ==
    ASSUME NEW N, Typed(N), Routed, NEW j \in Job, Steps(j), Knows(j),
           \A d, n, h : Located(d, n, h) => Located(d, n, h)', links \subseteq links'
    PROVE  Knows(j)'
<1> SUFFICES ASSUME Kind(j) = "extract" PROVE Knows(j)'
  BY DEF Knows
<1>0. job \in [Job -> JobState(N)] /\ job[j] \in JobState(N)
  BY DEF Typed
<1>a. job[j].at \notin {"hash", "look", "read", "count", "insert", "set"}
  BY DEF Routed, Route
<1>b. AfterRegister(j) = "document" /\ AfterRevision(j) = "stamp" /\ AfterError(j) = "failed"
  BY Onward DEF AfterRegister
<1>1. CASE Start(j)
  <2>1. ASSUME NEW b, Become(j, [Fresh EXCEPT !.at = "check", !.hash = b, !.data = b])
        PROVE  Knows(j)'
    BY <1>0, <2>1 DEF Become, Fresh, Knows
  <2>2. CASE Goto(j, "failed")
    BY <2>2, Gone DEF Knows, Ended
  <2> QED BY <1>1, <2>1, <2>2 DEF Start
<1>2. CASE Hash(j) \/ Look(j) \/ Read(j) \/ Count(j) \/ Insert(j) \/ SetBucketUri(j)
  BY <1>2, <1>a DEF Hash, Look, Read, Count, Insert, SetBucketUri, At
<1>3. ASSUME NEW p \in {"put", "create", "copy", "failed", "register", "document", "number"},
             Goto(j, p), job[j].at \notin {"idle"} \cup Ended
      PROVE  Knows(j)'
  BY <1>3, Gone, Carries
<1>4. CASE Check(j) \/ Rename(j) \/ Copy(j) \/ Take(j) \/ Register(j)
  BY <1>4, <1>3, <1>b DEF Check, Rename, Copy, Take, Register, At, Ended
<1>5. CASE Create(j)
  <2>1. job[j].at = "create" /\ job'[j].at = "write" /\ job'[j].hash = job[j].hash /\ job'[j].data = job[j].data
    BY <1>0, <1>5 DEF Create, At, JobState
  <2> QED BY <2>1, Carries DEF Ended
<1>6. CASE Write(j)
  <2>1. /\ job[j].at = "write" /\ job'[j].at \in {"write", "rename"}
        /\ job'[j].hash = job[j].hash /\ job'[j].data = job[j].data
    BY <1>0, <1>6 DEF Write, At, JobState
  <2> QED BY <2>1, Carries DEF Ended
<1>7. CASE EnsureDocument(j) \/ NumberRevision(j)
  <2>1. /\ job[j].at \in {"document", "number"} /\ job'[j].at \in {"find", "count", "add"}
        /\ job'[j].hash = job[j].hash /\ job'[j].data = job[j].data
    BY <1>0, <1>7 DEF EnsureDocument, NumberRevision, At, JobState
  <2> QED BY <2>1, Carries DEF Ended
<1>8. CASE FindRevision(j)
  <2>1. CASE Goto(j, "number")
    BY <1>3, <1>8, <2>1 DEF FindRevision, At, Ended
  <2>2. ASSUME NEW r \in revisions, r.doc = job[j].doc, r.hash = job[j].hash,
               job' = [job EXCEPT ![j].number = r.number, ![j].at = "stamp"]
        PROVE  Knows(j)'
    <3>1. /\ job'[j].at = "stamp" /\ job'[j].number = r.number /\ job'[j].doc = job[j].doc
          /\ job'[j].hash = job[j].hash /\ job'[j].data = job[j].data
      BY <1>0, <2>2 DEF JobState
    <3>2. job[j].data = job[j].hash /\ revisions' = revisions
      BY <1>8 DEF FindRevision, At, Knows, Ended, tables
    <3> QED BY <2>2, <3>1, <3>2 DEF Knows, Revised, Ended
  <2> QED BY <1>8, <1>b, <2>1, <2>2 DEF FindRevision, RevisionsOf
<1>9. CASE AddRevision(j)
  <2>1. CASE Goto(j, "failed")
    BY <1>3, <1>9, <2>1 DEF AddRevision, At, Ended
  <2>2. CASE Goto(j, "stamp") /\ NewRevision(job[j].doc, job[j].number, job[j].hash, job[j].data) \in revisions'
    <3>1. /\ job'[j].at = "stamp" /\ job'[j].number = job[j].number /\ job'[j].doc = job[j].doc
          /\ job'[j].hash = job[j].hash /\ job'[j].data = job[j].data
      BY <2>2, Gone
    <3>2. job[j].data = job[j].hash
      BY <1>9 DEF AddRevision, At, Knows, Ended
    <3>3. PICK r \in revisions' : r = NewRevision(job[j].doc, job[j].number, job[j].hash, job[j].data)
      BY <2>2
    <3>4. r.doc = job[j].doc /\ r.number = job[j].number /\ r.hash = job[j].hash
      BY <3>3 DEF NewRevision
    <3> QED BY <3>1, <3>2, <3>3, <3>4 DEF Knows, Revised, Ended
  <2> QED BY <1>9, <1>b, <2>1, <2>2 DEF AddRevision
<1>10. CASE Stamp(j)
  <2>1. PICK d, n, h : d = job[j].doc /\ n = job[j].number /\ h = job[j].hash
    OBVIOUS
  <2>2. /\ job'[j].at = "ask" /\ job'[j].number = n /\ job'[j].doc = d
        /\ job'[j].hash = h /\ job'[j].data = job[j].data
    BY <1>10, <2>1, Gone DEF Stamp
  <2>3. job[j].data = h
    BY <1>10, <2>1 DEF Stamp, At, Knows, Ended
  <2>4. PICK r \in revisions : r.doc = d /\ r.number = n /\ r.hash = h
    BY <1>10, <2>1 DEF Stamp, At, Knows, Revised
  <2>5. [r EXCEPT !.blob = h, !.located = TRUE] \in revisions'
    BY <1>10, <2>1, <2>4 DEF Stamp
  <2>6. PICK q \in revisions' : q.doc = d /\ q.number = n /\ q.hash = h /\ q.blob = h /\ q.located
    BY <2>4, <2>5 DEF Typed, Revision
  <2> QED BY <2>2, <2>3, <2>6 DEF Knows, Located, Ended
<1>11. CASE Ask(j) \/ Assert(j) \/ LinkEvidence(j)
  <2> DEFINE Holds(d, n, h) == job[j].doc = d /\ job[j].number = n /\ job[j].hash = h
  <2>a. PICK d, n, h : Holds(d, n, h)
    OBVIOUS
  <2>b. job[j].at \in {"ask", "assert", "link"} /\ job[j].data = job[j].hash /\ Located(d, n, h)
    BY <1>11, <2>a DEF Ask, Assert, LinkEvidence, At, Knows, Ended
  <2>1. job[j].data = job[j].hash /\ Located(d, n, h)'
    BY <2>b
  <2>2. CASE Ask(j)
    <3>1. PICK found : /\ job' = [job EXCEPT ![j].found = found, ![j].todo = found,
                                             ![j].at = IF found = {} THEN "done" ELSE "assert"]
      BY <2>2 DEF Ask
    <3>2. /\ job'[j].hash = job[j].hash /\ job'[j].data = job[j].data
          /\ job'[j].doc = job[j].doc /\ job'[j].number = job[j].number
          /\ job'[j].found = found /\ job'[j].todo = found
          /\ job'[j].at = IF found = {} THEN "done" ELSE "assert"
      BY <1>0, <3>1 DEF JobState
    <3> QED BY <2>a, <2>1, <3>2 DEF Knows, Ended
  <2>3. CASE Assert(j)
    <3>1. PICK g : job' = [job EXCEPT ![j].fact = g, ![j].at = "link"]
      BY <2>3 DEF Assert
    <3>2. /\ job'[j].hash = job[j].hash /\ job'[j].data = job[j].data
          /\ job'[j].doc = job[j].doc /\ job'[j].number = job[j].number
          /\ job'[j].found = job[j].found /\ job'[j].todo = job[j].todo /\ job'[j].at = "link"
      BY <1>0, <3>1 DEF JobState
    <3>3. \A f \in job[j].found \ job[j].todo : LinkOf(j, f) \in links
      BY <2>3 DEF Assert, At, Knows
    <3> QED BY <2>a, <2>1, <3>2, <3>3 DEF Knows, LinkOf, Ended
  <2>4. CASE LinkEvidence(j)
    <3>1. PICK rest : rest = job[j].todo \ {job[j].fact}
      OBVIOUS
    <3>2. /\ job'[j].hash = job[j].hash /\ job'[j].data = job[j].data
          /\ job'[j].doc = job[j].doc /\ job'[j].number = job[j].number
          /\ job'[j].found = job[j].found /\ job'[j].todo = rest
          /\ job'[j].at = IF rest = {} THEN "done" ELSE "assert"
      BY <1>0, <2>4, <3>1 DEF LinkEvidence, JobState
    <3>3. \A f \in job[j].found \ job[j].todo : LinkOf(j, f) \in links
      BY <2>4 DEF LinkEvidence, At, Knows
    <3>4. LinkOf(j, job[j].fact) \in links'
      BY <2>4 DEF LinkEvidence, LinkOf
    <3>5. \A f \in job[j].found \ rest : LinkOf(j, f) \in links'
      BY <3>1, <3>3, <3>4
    <3> QED BY <2>a, <2>1, <3>2, <3>5 DEF Knows, LinkOf, Ended
  <2> QED BY <1>11, <2>2, <2>3, <2>4
<1>12. CASE Fails(j)
  <2>1. job[j].at \in Putting \cup Handling
    BY <1>12 DEF Fails
  <2>2. Goto(j, "failed")
    BY <1>12, <1>a, <1>b DEF Fails
  <2> QED BY <1>3, <2>1, <2>2 DEF Putting, Handling, Ended
<1> QED BY <1>1, <1>2, <1>4, <1>5, <1>6, <1>7, <1>8, <1>9, <1>10, <1>11, <1>12 DEF Steps

LEMMA LinksStep == BlobsInv /\ LinksInv /\ [Next]_vars => BlobsInv' /\ LinksInv'
<1>1. BlobsInv /\ [Next]_vars => BlobsInv'
  BY InvStep
<1>2. ASSUME BlobsInv, LinksInv, Next PROVE LinksInv'
  <2>0. PICK N : Typed(N)
    BY <1>2 DEF BlobsInv
  <2>1. /\ Keyed'
        /\ \A d, n, h : Revised(d, n, h) => Revised(d, n, h)'
        /\ \A d, n, h : Located(d, n, h) => Located(d, n, h)'
    BY <1>2, <2>0, RevisionsStay DEF BlobsInv, LinksInv
  <2>2. links \subseteq links' /\ LinksTellTheText'
    BY <1>2, <2>0, <2>1, LinksStay DEF BlobsInv, LinksInv
  <2>3. ASSUME NEW k \in Job, job'[k] = job[k] PROVE Knows(k)'
    BY <1>2, <2>1, <2>2, <2>3 DEF LinksInv, Knows, LinkOf
  <2>4. ASSUME NEW j \in Job, Steps(j) PROVE \A k \in Job : Knows(k)'
    <3>1. Knows(j)'
      BY <1>2, <2>0, <2>1, <2>2, <2>4, KnowsStep DEF BlobsInv, LinksInv
    <3> QED BY <2>0, <2>3, <2>4, <3>1, Others
  <2>5. ASSUME NEW p \in Path, NEW b \in Held, Edit(p, b) PROVE \A k \in Job : Knows(k)'
    BY <2>3, <2>5 DEF Edit
  <2>6. ASSUME NEW p \in Process, Crash(p) PROVE \A k \in Job : Knows(k)'
    <3>1. ASSUME NEW k \in Job PROVE job'[k] = job[k] \/ job'[k].at = "crashed"
      BY <2>0, <2>6 DEF Crash, JobState, Typed
    <3>2. ASSUME NEW k \in Job, job'[k].at = "crashed" PROVE Knows(k)'
      BY <3>2 DEF Knows, Ended
    <3> QED BY <2>3, <3>1, <3>2
  <2>7. \A k \in Job : Knows(k)'
    BY <1>2, <2>4, <2>5, <2>6 DEF Next, Steps
  <2> QED BY <2>1, <2>2, <2>7 DEF LinksInv
<1>3. LinksInv /\ UNCHANGED vars => LinksInv'
  BY DEF LinksInv, vars, tables, Keyed, LinksTellTheText, RevisionsOf, Knows, Revised, Located, LinkOf
<1> QED BY <1>1, <1>2, <1>3

LEMMA LinksAlways == Spec => []LinksInv
<1>1. BlobsInv /\ LinksInv /\ [Next]_vars => (BlobsInv /\ LinksInv)'
  BY LinksStep
<1> QED BY InvInit, LinksInit, <1>1, PTL DEF Spec

\* A fact is linked to the revision of the text it was extracted from, and that
\* revision says where the text is, however many commands number, stamp and
\* extract at the same time.
THEOREM Links == Spec => []LinksTellTheText
<1>1. LinksInv => LinksTellTheText
  BY DEF LinksInv
<1> QED BY LinksAlways, <1>1, PTL

\* An extraction that ends well has linked each of its facts, for any answer of
\* the model.
THEOREM DoneIsLinked == Spec => []DoneMeansLinked
<1>1. LinksInv => DoneMeansLinked
  BY DEF LinksInv, DoneMeansLinked, Knows, LinkOf
<1> QED BY LinksAlways, <1>1, PTL

-----------------------------------------------------------------------------
(* Numbers *)

Numbers(d) == {r.number : r \in RevisionsOf(d)}
Numbered(d) == \E n \in Nat : Numbers(d) = 1..n

\* The number a job has taken was the next one when it took it.
Taken(j) ==
    job[j].at = "add" =>
      job[j].number \in Nat \ {0} /\ 1..(job[j].number - 1) \subseteq Numbers(job[j].doc)

NumbersInv == (\A d \in Document : Numbered(d)) /\ \A j \in Job : Taken(j)

\* A document with revisions 1 to n, one of each, has n of them.
LEMMA Counting ==
    ASSUME Keyed, NEW d, NEW n \in Nat, Numbers(d) = 1..n
    PROVE  Cardinality(RevisionsOf(d)) = n
<1> DEFINE S == RevisionsOf(d)
           f == [m \in 1..n |-> CHOOSE r \in S : r.number = m]
<1>1. \A r \in S : r.doc = d
  BY DEF RevisionsOf
<1>2. \A q, r \in S : q.number = r.number => q = r
  BY <1>1 DEF Keyed, RevisionsOf
<1>3. \A m \in 1..n : f[m] \in S /\ f[m].number = m
  BY DEF Numbers
<1>4. \A r \in S : r.number \in 1..n /\ f[r.number] = r
  BY <1>2, <1>3 DEF Numbers
<1>5. f \in Bijection(1..n, S)
  <2>1. f \in [1..n -> S]
    BY <1>3
  <2>2. f \in Injection(1..n, S)
    BY <1>3, <2>1 DEF Injection, IsInjective
  <2>3. f \in Surjection(1..n, S)
    BY <1>4, <2>1 DEF Surjection
  <2> QED BY <2>2, <2>3 DEF Bijection
<1> HIDE DEF f, S
<1>6. ExistsBijection(1..n, S)
  BY <1>5 DEF ExistsBijection
<1>7. Cardinality(S) = n
  BY <1>6, FS_CountingElements
<1> QED BY <1>7 DEF S

LEMMA NumbersInit == Init => NumbersInv
<1> SUFFICES ASSUME Init PROVE NumbersInv
  OBVIOUS
<1>1. \A j \in Job : Taken(j)
  BY DEF Init, Fresh, Taken
<1>2. PICK old : revisions = Legacy(old)
  BY DEF Init
<1>3. \A r \in revisions : r.number = 1
  <2>1. ASSUME NEW r \in revisions PROVE r.number = 1
    <3>1. PICK b \in old : r = [NewRevision(Archive, 1, b, b) EXCEPT !.blob = b]
      BY <1>2, <2>1 DEF Legacy
    <3> QED BY <3>1 DEF NewRevision
  <2> QED BY <2>1
<1>4. ASSUME NEW d PROVE Numbers(d) = 1..0 \/ Numbers(d) = 1..1
  <2>1. 1..0 = {} /\ 1..1 = {1}
    OBVIOUS
  <2>2. Numbers(d) \subseteq {1}
    BY <1>3 DEF Numbers, RevisionsOf
  <2> QED BY <2>1, <2>2
<1> QED BY <1>1, <1>4 DEF NumbersInv, Numbered

\* A revision that is added has the number after the last one.
LEMMA NumbersGrow ==
    ASSUME NEW N, Typed(N), Routed, Next, NumbersInv
    PROVE  /\ \A d \in Document : Numbered(d)'
           /\ \A d : Numbers(d) \subseteq Numbers(d)'
<1>1. CASE UNCHANGED revisions
  BY <1>1 DEF NumbersInv, Numbered, Numbers, RevisionsOf
<1>2. ASSUME NEW d, NEW n, NEW r, r.doc = d, r.number = n, revisions' = revisions \cup {r}
      PROVE  /\ Numbers(d)' = Numbers(d) \cup {n}
             /\ \A e : e # d => Numbers(e)' = Numbers(e)
  BY <1>2 DEF Numbers, RevisionsOf
<1>3. ASSUME NEW d \in Document, NEW n \in Nat, NEW r, r.doc = d, r.number = n + 1,
             Numbers(d) = 1..n, revisions' = revisions \cup {r}
      PROVE  /\ \A e \in Document : Numbered(e)'
             /\ \A e : Numbers(e) \subseteq Numbers(e)'
  <2>1. /\ Numbers(d)' = Numbers(d) \cup {n + 1}
        /\ \A e : e # d => Numbers(e)' = Numbers(e)
    BY <1>2, <1>3
  <2>2. Numbers(d)' = 1..(n + 1)
    BY <1>3, <2>1
  <2> QED BY <1>3, <2>1, <2>2 DEF NumbersInv, Numbered
<1>4. ASSUME NEW j \in Job, Insert(j), revisions' # revisions
      PROVE  /\ \A e \in Document : Numbered(e)'
             /\ \A e : Numbers(e) \subseteq Numbers(e)'
  <2>1. PICK h : h = job[j].hash
    OBVIOUS
  <2>2. PICK r : r = [NewRevision(h, 1, h, job[j].data) EXCEPT !.blob = h, !.located = TRUE]
    OBVIOUS
  <2>3. revisions' = revisions \cup {r} /\ \A q \in RevisionsOf(h) : q.number # 1
    BY <1>4, <2>1, <2>2 DEF Insert
  <2>4. r.doc = h /\ r.number = 0 + 1
    BY <2>2 DEF NewRevision
  <2>5. h \in Document
    BY <1>4, <2>1, Constants DEF Insert, At, Routed, Route, Ended
  <2>6. PICK n \in Nat : Numbers(h) = 1..n
    BY <2>5 DEF NumbersInv, Numbered
  <2>7. 1 \notin Numbers(h)
    BY <2>3 DEF Numbers
  <2>8. Numbers(h) = 1..0
    BY <2>6, <2>7
  <2> QED BY <1>3, <2>3, <2>4, <2>5, <2>8
<1>5. ASSUME NEW j \in Job, AddRevision(j), revisions' # revisions
      PROVE  /\ \A e \in Document : Numbered(e)'
             /\ \A e : Numbers(e) \subseteq Numbers(e)'
  <2>1. PICK d, m : d = job[j].doc /\ m = job[j].number
    OBVIOUS
  <2>2. PICK r : r = NewRevision(d, m, job[j].hash, job[j].data)
    OBVIOUS
  <2>3. revisions' = revisions \cup {r} /\ \A q \in RevisionsOf(d) : q.number # m
    BY <1>5, <2>1, <2>2 DEF AddRevision
  <2>4. r.doc = d /\ r.number = m
    BY <2>2 DEF NewRevision
  <2>5. d \in Document /\ m \in Nat \ {0} /\ 1..(m - 1) \subseteq Numbers(d)
    BY <1>5, <2>1 DEF AddRevision, At, Routed, Route, NumbersInv, Taken
  <2>6. PICK n \in Nat : Numbers(d) = 1..n
    BY <2>5 DEF NumbersInv, Numbered
  <2>7. m \notin 1..n
    BY <2>3, <2>6 DEF Numbers
  <2>8. m = n + 1
    <3>1. m > n
      BY <2>5, <2>7
    <3>2. m # 1 => m - 1 \in 1..n
      BY <2>5, <2>6
    <3> QED BY <2>5, <3>1, <3>2
  <2> QED BY <1>3, <2>3, <2>4, <2>5, <2>6, <2>8
<1>6. ASSUME NEW j \in Job, Stamp(j)
      PROVE  /\ \A e \in Document : Numbered(e)'
             /\ \A e : Numbers(e) \subseteq Numbers(e)'
  <2>1. PICK d, n, h : d = job[j].doc /\ n = job[j].number /\ h = job[j].hash
    OBVIOUS
  <2> DEFINE Stamped(r) == IF r.doc = d /\ r.number = n
                           THEN [r EXCEPT !.blob = h, !.located = TRUE] ELSE r
  <2>2. revisions' = {Stamped(r) : r \in revisions}
    BY <1>6, <2>1 DEF Stamp
  <2>3. \A r \in revisions : Stamped(r).doc = r.doc /\ Stamped(r).number = r.number
    BY DEF Typed, Revision
  <2> HIDE DEF Stamped
  <2>4. \A e : Numbers(e)' = Numbers(e)
    BY <2>2, <2>3 DEF Numbers, RevisionsOf
  <2> QED BY <2>4 DEF NumbersInv, Numbered
<1>7. UNCHANGED revisions \/ \E j \in Job : Insert(j) \/ AddRevision(j) \/ Stamp(j)
  BY DEF Next, Start, Hash, Look, Read, Check, Create, Write, Rename, Copy, Take, Register,
     SetBucketUri, EnsureDocument, Count, FindRevision, NumberRevision, Ask, Assert, LinkEvidence,
     Fails, Edit, Crash, tables
<1> QED BY <1>1, <1>4, <1>5, <1>6, <1>7

\* A job comes to add a revision by taking a number.
LEMMA TakesNumber ==
    ASSUME NEW N, Typed(N), Routed, NEW j \in Job, Steps(j), job'[j].at = "add"
    PROVE  NumberRevision(j)
<1>0. job \in [Job -> JobState(N)] /\ job[j] \in JobState(N)
  BY DEF Typed
<1>1. ASSUME NEW p, p # "add", Goto(j, p) PROVE FALSE
  BY <1>1, Gone
<1>2. CASE Start(j)
  <2>1. ASSUME NEW c, c.at # "add", Become(j, c) PROVE FALSE
    BY <1>0, <2>1 DEF Become
  <2> QED BY <1>1, <1>2, <2>1 DEF Start, Fresh
<1>3. CASE Hash(j) \/ Read(j) \/ Create(j) \/ EnsureDocument(j) \/ LinkEvidence(j) \/ Assert(j) \/ Ask(j)
  <2>1. CASE Hash(j)
    BY <1>0, <2>1 DEF Hash, JobState
  <2>2. CASE Read(j)
    BY <1>0, <2>2 DEF Read, JobState
  <2>3. CASE Create(j)
    BY <1>0, <2>3 DEF Create, JobState
  <2>4. CASE EnsureDocument(j)
    BY <1>0, <2>4 DEF EnsureDocument, JobState
  <2>5. CASE LinkEvidence(j)
    BY <1>0, <2>5 DEF LinkEvidence, JobState
  <2>6. CASE Assert(j)
    BY <1>0, <2>6 DEF Assert, JobState
  <2>7. CASE Ask(j)
    BY <1>0, <2>7 DEF Ask, JobState
  <2> QED BY <1>3, <2>1, <2>2, <2>3, <2>4, <2>5, <2>6, <2>7
<1>4. CASE Write(j)
  BY <1>0, <1>4 DEF Write, At, JobState
<1>5. CASE Look(j) \/ Check(j) \/ Rename(j) \/ Copy(j) \/ Insert(j) \/ SetBucketUri(j) \/ Stamp(j)
  BY <1>1, <1>5 DEF Look, Check, Rename, Copy, Insert, SetBucketUri, Stamp
<1>6. CASE Take(j) \/ Register(j) \/ AddRevision(j)
  BY <1>1, <1>6, Onward DEF Take, Register, AddRevision
<1>7. CASE FindRevision(j)
  <2>1. ASSUME NEW n, job' = [job EXCEPT ![j].number = n, ![j].at = AfterRevision(j)] PROVE FALSE
    BY <1>0, <2>1, Onward DEF JobState
  <2> QED BY <1>1, <1>7, <2>1 DEF FindRevision
<1>8. CASE Count(j) \/ Fails(j)
  <2>1. CASE ReadBody(j)
    BY <1>0, <2>1 DEF ReadBody, JobState
  <2> QED BY <1>1, <1>8, <2>1, Onward DEF Count, Fails
<1> QED BY <1>2, <1>3, <1>4, <1>5, <1>6, <1>7, <1>8 DEF Steps

LEMMA NumbersStep == BlobsInv /\ NumbersInv /\ [Next]_vars => BlobsInv' /\ NumbersInv'
<1>1. BlobsInv /\ [Next]_vars => BlobsInv'
  BY InvStep
<1>2. ASSUME BlobsInv, NumbersInv, Next PROVE NumbersInv'
  <2>0. PICK N : Typed(N)
    BY <1>2 DEF BlobsInv
  <2>1. /\ \A d \in Document : Numbered(d)'
        /\ \A d : Numbers(d) \subseteq Numbers(d)'
    BY <1>2, <2>0, NumbersGrow DEF BlobsInv
  <2>2. ASSUME NEW k \in Job, job'[k] = job[k] PROVE Taken(k)'
    <3>1. PICK d : d = job[k].doc
      OBVIOUS
    <3>2. Numbers(d) \subseteq Numbers(d)'
      BY <2>1
    <3> QED BY <1>2, <2>2, <3>1, <3>2 DEF NumbersInv, Taken
  <2>3. ASSUME NEW j \in Job, NumberRevision(j) PROVE Taken(j)'
    <3>1. PICK d : d = job[j].doc
      OBVIOUS
    <3>2. d \in Document
      BY <1>2, <2>3, <3>1 DEF NumberRevision, At, BlobsInv, Routed, Route
    <3>3. PICK n \in Nat : Numbers(d) = 1..n
      BY <1>2, <3>2 DEF NumbersInv, Numbered
    <3>4. NextNumber(d) = n + 1
      <4> DEFINE S == (1..n) \cup {0}
      <4>1. n \in S /\ \A y \in S : n >= y
        OBVIOUS
      <4>2. Max(S) \in S /\ \A y \in S : Max(S) >= y
        BY <4>1 DEF Max
      <4>3. Max(S) = n
        BY <4>1, <4>2
      <4> QED BY <3>3, <4>3 DEF NextNumber, Numbers
    <3>5. job'[j].number = n + 1 /\ job'[j].doc = d /\ revisions' = revisions
      BY <2>0, <2>3, <3>1, <3>4 DEF NumberRevision, Typed, JobState, tables
    <3>6. Numbers(d)' = 1..n
      BY <3>3, <3>5 DEF Numbers, RevisionsOf
    <3> QED BY <3>5, <3>6 DEF Taken
  <2>4. ASSUME NEW j \in Job, Steps(j) PROVE \A k \in Job : Taken(k)'
    <3>1. Taken(j)'
      BY <1>2, <2>0, <2>3, <2>4, TakesNumber DEF Taken, BlobsInv
    <3> QED BY <2>0, <2>2, <2>4, <3>1, Others
  <2>5. ASSUME NEW p \in Path, NEW b \in Held, Edit(p, b) PROVE \A k \in Job : Taken(k)'
    BY <2>2, <2>5 DEF Edit
  <2>6. ASSUME NEW p \in Process, Crash(p) PROVE \A k \in Job : Taken(k)'
    <3>1. ASSUME NEW k \in Job PROVE job'[k] = job[k] \/ job'[k].at = "crashed"
      BY <2>0, <2>6 DEF Crash, JobState, Typed
    <3> QED BY <2>2, <3>1 DEF Taken
  <2>7. \A k \in Job : Taken(k)'
    BY <1>2, <2>4, <2>5, <2>6 DEF Next, Steps
  <2> QED BY <2>1, <2>7 DEF NumbersInv
<1>3. NumbersInv /\ UNCHANGED vars => NumbersInv'
  BY DEF NumbersInv, vars, tables, Numbered, Numbers, RevisionsOf, Taken
<1> QED BY <1>1, <1>2, <1>3

\* The revisions of a document are numbered one to as many as there are, for
\* any number of calls that read the last number and add the next.
THEOREM Numbering == Spec => []RevisionsAreNumbered
<1>1. Keyed /\ NumbersInv => RevisionsAreNumbered
  BY Counting DEF NumbersInv, Numbered, Numbers, RevisionsAreNumbered
<1>2. LinksInv => Keyed
  BY DEF LinksInv
<1>3. BlobsInv /\ NumbersInv /\ [Next]_vars => (BlobsInv /\ NumbersInv)'
  BY NumbersStep
<1> QED BY InvInit, NumbersInit, LinksAlways, <1>1, <1>2, <1>3, PTL DEF Spec
=============================================================================
