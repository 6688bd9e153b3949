------------------------------ MODULE MCBlobs ------------------------------
(* Instances of Blobs for TLC: two files, of which one may be a copy of the *)
(* other, and the commands that are run on them at the same time.           *)
EXTENDS Blobs

CONSTANTS t, u, w, p1, p2, s1, s2, n1, u1, e1, e2, b1, v1, f1

Do(kind, process, path, registers, documents) ==
    [kind |-> kind, process |-> process, path |-> path, body |-> w,
     registers |-> registers, documents |-> documents]

MCCommand ==
    [j \in {s1, s2, n1, u1, e1, e2, b1, v1} |->
       CASE j = s1 -> Do("sync", s1, p1, TRUE, TRUE)
         [] j = s2 -> Do("sync", s1, p2, TRUE, TRUE)
         [] j = n1 -> Do("sync", n1, p1, FALSE, TRUE)
         [] j = u1 -> Do("upload", u1, p1, FALSE, FALSE)
         [] j = e1 -> Do("extract", e1, p1, TRUE, TRUE)
         [] j = e2 -> Do("extract", e2, p2, TRUE, TRUE)
         [] j = b1 -> Do("backfill", b1, p1, TRUE, TRUE)
         [] j = v1 -> Do("revise", v1, p1, TRUE, TRUE)]
MCJob == {s1, s2, n1, u1, e1, e2, b1, v1}

\* A sync of two files beside a backfill; two extractions and a request; a
\* sync and an extraction of one file; commands that register nothing.
PlanAll == {{s1, s2, b1}, {e1, e2, v1}, {s1, e1}, {n1, b1, u1}}
=============================================================================
