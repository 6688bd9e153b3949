------------------------------- MODULE Blobs -------------------------------
(***************************************************************************)
(* The content-addressed blob store and the records kept of what is in it: *)
(* the commands blob upload, blob sync, blob backfill-revisions and        *)
(* extract of donto-cli, and dontosrv's requests to add a revision to a    *)
(* document.                                                               *)
(*                                                                         *)
(* A job is one file, body or request on its way through one of these; the *)
(* jobs of one sync belong to one process, which runs them in one task.  A *)
(* job goes from place to place (its `at`), one call at a time, and other  *)
(* jobs, an edit of its file, an error or the death of its process may     *)
(* come between any two of its steps.                                      *)
(*                                                                         *)
(* A blob stands for its bytes and for their SHA-256.  What a file on disk *)
(* holds is, part by part, the blob that part was written from.            *)
(***************************************************************************)
EXTENDS Naturals, FiniteSets, FiniteSetsExt

CONSTANTS
    Blob,        \* byte strings
    Text,        \* those that are text
    Path,        \* source files
    Held,        \* what they may hold
    Parts,       \* how many parts a file is written in
    Fact,        \* what an extraction may find
    Job, Process,
    Command,     \* of a job: [kind, process, path, body, registers, documents]
    Plan,        \* the sets of jobs that are run together
    MaxFaults,   \* how many files change, processes die and calls fail
    Archive, None

Part == 1..Parts
Kind(j) == Command[j].kind
Of(j) == Command[j].process
PathOf(j) == Command[j].path

\* The IRI of a document made of a blob is the blob's hash; Archive is one of
\* the days before the store, when revisions had their body in the database.
Document == Blob \cup {Archive}

ASSUME ConstantsAssumption ==
    /\ Text \subseteq Blob /\ Held \subseteq Blob
    /\ Parts \in Nat \ {0}
    /\ Command \in [Job -> [kind : {"upload", "sync", "extract", "backfill", "revise"},
                            process : Process, path : Path, body : Text,
                            registers : BOOLEAN, documents : BOOLEAN]]
    /\ Plan \subseteq SUBSET Job
    /\ MaxFaults \in Nat
    /\ Archive \notin Blob /\ None \notin Blob \cup Job

VARIABLES
    backend,     \* where the bytes land: "local" or "gcs"
    source,      \* what each source file holds
    temp,        \* of a blob, the file at <hex>.tmp, named by the job that made it
    stored,      \* the file or object at <hex>
    bytes,       \* what the file a job has made holds
    row,         \* its row in donto_blob: "absent", "inline" (no bucket_uri), "located"
    docs,        \* donto_document
    revisions,   \* donto_document_revision
    links,       \* donto_evidence_link
    job,         \* where each job is and what it remembers
    disturbed,   \* blobs two jobs wrote at a time, or whose file changed as it was put
    faults       \* what has gone wrong so far

disk == <<temp, stored, bytes, disturbed>>
tables == <<row, docs, revisions, links>>
vars == <<backend, source, disk, tables, job, faults>>

Putting == {"hash", "look", "read", "check", "create", "write", "rename", "copy"}
Handling == {"register", "document", "count", "insert", "find", "number", "add",
             "stamp", "ask", "assert", "link", "set"}
Ended == {"off", "done", "failed", "crashed"}

Fresh == [at |-> "idle", hash |-> None, data |-> None, file |-> None, part |-> 1,
          doc |-> None, number |-> 0, found |-> {}, todo |-> {}, fact |-> None]

RevisionsOf(d) == {r \in revisions : r.doc = d}
NewRevision(d, n, hash, body) ==
    [doc |-> d, number |-> n, hash |-> hash, body |-> body, blob |-> None, located |-> FALSE]

\* A legacy revision has been given a blob row without an address.
Legacy(old) == {[NewRevision(Archive, 1, b, b) EXCEPT !.blob = b] : b \in old}

Init ==
    /\ backend \in {"local", "gcs"}
    /\ source \in [Path -> Held]
    /\ temp = [b \in Blob |-> None] /\ stored = [b \in Blob |-> None]
    /\ bytes = [j \in Job |-> [n \in Part |-> None]]
    /\ disturbed = {}
    /\ \E old \in {{}} \cup {{b} : b \in Text} :
         /\ row = [b \in Blob |-> IF b \in old THEN "inline" ELSE "absent"]
         /\ revisions = Legacy(old)
    /\ docs = {Archive} /\ links = {}
    /\ \E plan \in Plan :
         job = [j \in Job |-> [Fresh EXCEPT !.at = IF j \in plan THEN "idle" ELSE "off"]]
    /\ faults = 0

\* While a sync handles one result it does not go on with its other files.
At(j, place) ==
    /\ job[j].at = place
    /\ place \in Putting \cup {"put"} =>
         \A k \in Job \ {j} : Of(k) = Of(j) => job[k].at \notin Handling

Goto(j, place) == job' = [job EXCEPT ![j].at = place]
Become(j, changed) == job' = [job EXCEPT ![j] = changed]

\* The revisions that still have the only copy of a blob; a backfill takes one
\* for each blob and puts its body under the blob's hash.
Unplaced == {r \in revisions : r.blob # None /\ r.body # None /\ row[r.blob] = "inline"}

Start(j) ==
    /\ At(j, "idle")
    /\ \/ /\ Kind(j) \in {"upload", "sync"}
          /\ Goto(j, "hash")
       \/ /\ Kind(j) = "extract"
          /\ LET text == source[PathOf(j)] IN
               IF text \in Text
               THEN Become(j, [Fresh EXCEPT !.at = "check", !.hash = text, !.data = text])
               ELSE Goto(j, "failed")
       \/ /\ Kind(j) = "backfill"
          /\ \/ \E r \in Unplaced :
                  Become(j, [Fresh EXCEPT !.at = "check", !.hash = r.blob, !.data = r.body])
             \/ /\ \A b \in Blob : row[b] # "inline"
                /\ Goto(j, "done")
       \/ /\ Kind(j) = "revise"
          /\ \E d \in docs :
               Become(j, [Fresh EXCEPT !.at = "find", !.hash = Command[j].body,
                                       !.data = Command[j].body, !.doc = d])
    /\ UNCHANGED <<backend, source, disk, tables, faults>>

-----------------------------------------------------------------------------
(* Putting a file: put_file reads it twice, put_bytes_at_hash writes it.    *)

Hash(j) ==
    /\ At(j, "hash")
    /\ job' = [job EXCEPT ![j].hash = source[PathOf(j)], ![j].at = "look"]
    /\ UNCHANGED <<backend, source, disk, tables, faults>>

Look(j) ==
    /\ At(j, "look")
    /\ Goto(j, IF stored[job[j].hash] # None THEN "put" ELSE "read")
    /\ UNCHANGED <<backend, source, disk, tables, faults>>

Read(j) ==
    /\ At(j, "read")
    /\ job' = [job EXCEPT ![j].data = source[PathOf(j)], ![j].at = "check"]
    /\ disturbed' = IF source[PathOf(j)] = job[j].hash THEN disturbed
                    ELSE disturbed \cup {job[j].hash}
    /\ UNCHANGED <<backend, source, temp, stored, bytes, tables, faults>>

Check(j) ==
    /\ At(j, "check")
    /\ Goto(j, IF stored[job[j].hash] # None THEN "put"
               ELSE IF backend = "local" THEN "create" ELSE "copy")
    /\ UNCHANGED <<backend, source, disk, tables, faults>>

Writers(b) == {k \in Job : job[k].hash = b /\ job[k].at \in {"write", "rename"}}

\* As if the bytes were written to <hex> itself.
Create_final(j) ==
    /\ At(j, "create")
    /\ stored' = [stored EXCEPT ![job[j].hash] = j]
    /\ job' = [job EXCEPT ![j].file = j, ![j].part = 1, ![j].at = "write"]
    /\ UNCHANGED <<backend, source, temp, bytes, disturbed, tables, faults>>

\* File::create truncates what is there, whoever is writing it.
Create(j) ==
    /\ At(j, "create")
    /\ LET b == job[j].hash
           f == IF temp[b] # None THEN temp[b] ELSE j IN
       /\ temp' = [temp EXCEPT ![b] = f]
       /\ bytes' = [bytes EXCEPT ![f] = [n \in Part |-> None]]
       /\ job' = [job EXCEPT ![j].file = f, ![j].part = 1, ![j].at = "write"]
       /\ disturbed' = IF Writers(b) = {} THEN disturbed ELSE disturbed \cup {b}
    /\ UNCHANGED <<backend, source, stored, tables, faults>>

Write(j) ==
    /\ At(j, "write")
    /\ bytes' = [bytes EXCEPT ![job[j].file][job[j].part] = job[j].data]
    /\ job' = IF job[j].part + 1 \in Part
              THEN [job EXCEPT ![j].part = @ + 1]
              ELSE [job EXCEPT ![j].at = "rename"]
    /\ UNCHANGED <<backend, source, temp, stored, disturbed, tables, faults>>

\* What is moved is the file that has the name now; it may be gone.
Rename(j) ==
    /\ At(j, "rename")
    /\ LET b == job[j].hash IN
       IF temp[b] = None
       THEN /\ Goto(j, "failed")
            /\ UNCHANGED <<temp, stored>>
       ELSE /\ stored' = [stored EXCEPT ![b] = temp[b]]
            /\ temp' = [temp EXCEPT ![b] = None]
            /\ Goto(j, "put")
    /\ UNCHANGED <<backend, source, bytes, disturbed, tables, faults>>

\* gcloud storage cp --no-clobber: an object appears whole, or was there.
Copy(j) ==
    /\ At(j, "copy")
    /\ LET b == job[j].hash IN
       IF stored[b] # None THEN UNCHANGED <<stored, bytes>>
       ELSE /\ stored' = [stored EXCEPT ![b] = j]
            /\ bytes' = [bytes EXCEPT ![j] = [n \in Part |-> job[j].data]]
    /\ Goto(j, "put")
    /\ UNCHANGED <<backend, source, temp, disturbed, tables, faults>>

-----------------------------------------------------------------------------
(* What is recorded of a blob that was put.                                 *)

AfterRegister(j) ==
    CASE Kind(j) = "extract" -> "document"
      [] Kind(j) = "sync" /\ Command[j].documents -> "document"
      [] OTHER -> "done"

Take(j) ==
    /\ At(j, "put")
    /\ Goto(j, CASE Kind(j) = "backfill" -> "set"
                 [] Kind(j) = "extract" -> "register"
                 [] Kind(j) \in {"upload", "sync"} /\ Command[j].registers -> "register"
                 [] OTHER -> AfterRegister(j))
    /\ UNCHANGED <<backend, source, disk, tables, faults>>

Register(j) ==
    /\ At(j, "register")
    /\ row' = [row EXCEPT ![job[j].hash] = "located"]
    /\ Goto(j, AfterRegister(j))
    /\ UNCHANGED <<backend, source, disk, docs, revisions, links, faults>>

SetBucketUri(j) ==
    /\ At(j, "set")
    /\ row' = [row EXCEPT ![job[j].hash] = IF @ = "absent" THEN @ ELSE "located"]
    /\ Goto(j, "done")
    /\ UNCHANGED <<backend, source, disk, docs, revisions, links, faults>>

EnsureDocument(j) ==
    /\ At(j, "document")
    /\ docs' = docs \cup {job[j].hash}
    /\ job' = [job EXCEPT ![j].doc = job[j].hash,
                          ![j].at = IF Kind(j) = "sync" THEN "count" ELSE "find"]
    /\ UNCHANGED <<backend, source, disk, row, revisions, links, faults>>

\* A sync reads a text file once more, for the body.
ReadBody(j) ==
    job' = [job EXCEPT ![j].at = "insert",
                       ![j].data = IF source[PathOf(j)] \in Text THEN source[PathOf(j)] ELSE None]

Count(j) ==
    /\ At(j, "count")
    /\ IF RevisionsOf(job[j].doc) # {} THEN Goto(j, "done") ELSE ReadBody(j)
    /\ UNCHANGED <<backend, source, disk, tables, faults>>

\* donto_revision_has_content refuses a revision without a body, the foreign
\* key one of a blob without a row; neither is reported.
Insert(j) ==
    /\ At(j, "insert")
    /\ LET h == job[j].hash
           r == [NewRevision(h, 1, h, job[j].data) EXCEPT !.blob = h, !.located = TRUE] IN
       revisions' =
         IF job[j].data # None /\ row[h] # "absent" /\ \A q \in RevisionsOf(h) : q.number # 1
         THEN revisions \cup {r} ELSE revisions
    /\ Goto(j, "done")
    /\ UNCHANGED <<backend, source, disk, row, docs, links, faults>>

-----------------------------------------------------------------------------
(* donto_add_revision, whose statements each see what others have committed *)

AfterRevision(j) == IF Kind(j) = "extract" THEN "stamp" ELSE "done"

\* As if any revision of the document would do.
FindRevision_any(j) ==
    /\ At(j, "find")
    /\ \/ \E r \in RevisionsOf(job[j].doc) :
            job' = [job EXCEPT ![j].number = r.number, ![j].at = AfterRevision(j)]
       \/ RevisionsOf(job[j].doc) = {} /\ Goto(j, "number")
    /\ UNCHANGED <<backend, source, disk, tables, faults>>

FindRevision(j) ==
    /\ At(j, "find")
    /\ LET same == {r \in RevisionsOf(job[j].doc) : r.hash = job[j].hash} IN
       \/ \E r \in same :
            job' = [job EXCEPT ![j].number = r.number, ![j].at = AfterRevision(j)]
       \/ same = {} /\ Goto(j, "number")
    /\ UNCHANGED <<backend, source, disk, tables, faults>>

NextNumber(d) == Max({r.number : r \in RevisionsOf(d)} \cup {0}) + 1

NumberRevision(j) ==
    /\ At(j, "number")
    /\ job' = [job EXCEPT ![j].number = NextNumber(job[j].doc), ![j].at = "add"]
    /\ UNCHANGED <<backend, source, disk, tables, faults>>

\* As if document and number were not unique together.
AddRevision_again(j) ==
    /\ At(j, "add")
    /\ revisions' = revisions \cup
         {NewRevision(job[j].doc, job[j].number, job[j].hash, job[j].data)}
    /\ Goto(j, AfterRevision(j))
    /\ UNCHANGED <<backend, source, disk, row, docs, links, faults>>

AddRevision(j) ==
    /\ At(j, "add")
    /\ IF \E r \in RevisionsOf(job[j].doc) : r.number = job[j].number
       THEN Goto(j, "failed") /\ UNCHANGED revisions
       ELSE /\ revisions' = revisions \cup
                 {NewRevision(job[j].doc, job[j].number, job[j].hash, job[j].data)}
            /\ Goto(j, AfterRevision(j))
    /\ UNCHANGED <<backend, source, disk, row, docs, links, faults>>

-----------------------------------------------------------------------------
(* The rest of an extraction.                                               *)

Stamp(j) ==
    /\ At(j, "stamp")
    /\ revisions' = {IF r.doc = job[j].doc /\ r.number = job[j].number
                     THEN [r EXCEPT !.blob = job[j].hash, !.located = TRUE] ELSE r : r \in revisions}
    /\ Goto(j, "ask")
    /\ UNCHANGED <<backend, source, disk, row, docs, links, faults>>

\* The model answers what it likes, and may say the same thing differently
\* the next time.
Ask(j) ==
    /\ At(j, "ask")
    /\ \E found \in SUBSET Fact :
         job' = [job EXCEPT ![j].found = found, ![j].todo = found,
                            ![j].at = IF found = {} THEN "done" ELSE "assert"]
    /\ UNCHANGED <<backend, source, disk, tables, faults>>

Assert(j) ==
    /\ At(j, "assert")
    /\ \E f \in job[j].todo : job' = [job EXCEPT ![j].fact = f, ![j].at = "link"]
    /\ UNCHANGED <<backend, source, disk, tables, faults>>

LinkEvidence(j) ==
    /\ At(j, "link")
    /\ LET rest == job[j].todo \ {job[j].fact} IN
       job' = [job EXCEPT ![j].todo = rest, ![j].at = IF rest = {} THEN "done" ELSE "assert"]
    /\ links' = links \cup {[fact |-> job[j].fact, doc |-> job[j].doc,
                             number |-> job[j].number, text |-> job[j].data]}
    /\ UNCHANGED <<backend, source, disk, row, docs, revisions, faults>>

-----------------------------------------------------------------------------
(* What goes wrong.                                                         *)

Misfortune == faults < MaxFaults /\ faults' = faults + 1

\* As if a file that could not be written were recorded all the same.
AfterError_unput(j) ==
    CASE Kind(j) = "sync" /\ job[j].at \in {"create", "write", "rename"} -> "put"
      [] Kind(j) = "sync" /\ job[j].at \in Handling -> "done"
      [] OTHER -> "failed"

\* As if the next fact followed one that could not be linked.
AfterError_unlinked(j) ==
    CASE job[j].at = "link" -> IF job[j].todo = {job[j].fact} THEN "done" ELSE "assert"
      [] OTHER -> "failed"

\* A sync reports an error of the database and goes on.
AfterError(j) ==
    CASE Kind(j) = "sync" /\ job[j].at = "register" -> AfterRegister(j)
      [] Kind(j) = "sync" /\ job[j].at \in Handling \ {"register"} -> "done"
      [] Kind(j) = "backfill" /\ job[j].at = "set" -> "done"
      [] OTHER -> "failed"

Fails(j) ==
    /\ Misfortune
    /\ At(j, job[j].at)
    /\ job[j].at \in Putting \cup Handling
    /\ \/ Goto(j, AfterError(j))
       \/ /\ job[j].at = "count"        \* the answer is taken to be none
          /\ ReadBody(j)
    /\ UNCHANGED <<backend, source, disk, tables>>

Edit(p, b) ==
    /\ Misfortune
    /\ source' = [source EXCEPT ![p] = b]
    /\ UNCHANGED <<backend, disk, tables, job>>

\* What a process was writing stays on the disk as it is.
Crash(p) ==
    /\ Misfortune
    /\ \E j \in Job : Of(j) = p /\ job[j].at \notin Ended \cup {"idle"}
    /\ job' = [j \in Job |-> IF Of(j) = p /\ job[j].at \notin Ended
                             THEN [job[j] EXCEPT !.at = "crashed"] ELSE job[j]]
    /\ UNCHANGED <<backend, source, disk, tables>>

Next ==
    \/ \E j \in Job :
         \/ Start(j) \/ Hash(j) \/ Look(j) \/ Read(j) \/ Check(j)
         \/ Create(j) \/ Write(j) \/ Rename(j) \/ Copy(j)
         \/ Take(j) \/ Register(j) \/ SetBucketUri(j) \/ EnsureDocument(j)
         \/ Count(j) \/ Insert(j)
         \/ FindRevision(j) \/ NumberRevision(j) \/ AddRevision(j)
         \/ Stamp(j) \/ Ask(j) \/ Assert(j) \/ LinkEvidence(j)
         \/ Fails(j)
    \/ \E p \in Path, b \in Held : Edit(p, b)
    \/ \E p \in Process : Crash(p)

Spec == Init /\ [][Next]_vars

-----------------------------------------------------------------------------

(* An address the database gives for a blob, in donto_blob or on a         *)
(* revision, leads to something: no order of crashes, errors and other     *)
(* commands leaves a bucket_uri or body_uri whose blob was not stored.     *)
AddressesResolve ==
    /\ \A b \in Blob : row[b] = "located" => stored[b] # None
    /\ \A r \in revisions : r.located => r.blob \in Blob /\ stored[r.blob] # None

Whole(b) == bytes[stored[b]] = [n \in Part |-> b]

(* A blob that no two jobs have written at a time, and whose file did not  *)
(* change while it was put, is stored whole or not at all, whatever died   *)
(* in the middle of writing it and whoever put it again afterwards.        *)
UndisturbedIsWhole ==
    \A b \in Blob \ disturbed : stored[b] # None => Whole(b)

(* The revision a fact is linked to is one of the text it was extracted    *)
(* from: its content hash and its blob are that text's, and it is located. *)
LinksTellTheText ==
    \A l \in links : \E r \in RevisionsOf(l.doc) :
        r.number = l.number /\ r.hash = l.text /\ r.blob = l.text /\ r.located

(* An extraction that ends well has linked every fact it was given to the  *)
(* revision of its text, whatever other extractions of the file did.       *)
DoneMeansLinked ==
    \A j \in Job : Kind(j) = "extract" /\ job[j].at = "done" =>
        \A f \in job[j].found :
            [fact |-> f, doc |-> job[j].doc, number |-> job[j].number,
             text |-> job[j].data] \in links

(* The revisions of a document are numbered from one, without a gap or a   *)
(* repetition, however the calls that number them overlap.                 *)
RevisionsAreNumbered ==
    \A d \in Document :
        /\ {r.number : r \in RevisionsOf(d)} = 1..Cardinality(RevisionsOf(d))

(* What the comment on the local store says: blobs are written atomically. *)
BlobIsWhole == \A b \in Blob : stored[b] # None => Whole(b)
=============================================================================
