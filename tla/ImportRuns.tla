----------------------------- MODULE ImportRuns -----------------------------
(***************************************************************************)
(* The calls an import makes of the database and what becomes of them:     *)
(* each call is a transaction of its own, it can be refused or fail, its   *)
(* answer can be lost, and whoever asked for the import starts it again,   *)
(* perhaps while another one runs.  What a reader makes of a file is in    *)
(* Import; here it is the calls that Reads names.                          *)
(***************************************************************************)
EXTENDS QueryAlgebra, FiniteSets, Functions

CONSTANTS
  Run,        \* the imports that are started
  File,       \* the files, and what they mean
  MaxTries,   \* how often an import is started
  Registered, \* the predicates a curated context takes
  Reads(_, _), \* [calls, losses, fails]: what a file is read as, by which try of which run
  Disputed(_), \* the files of which the repository says two things
  Homeless(_)  \* of a migration: the contexts of sources that have no row of their own

VARIABLES
  file,      \* what is imported
  contexts,  \* the table donto_context
  store,     \* the open statements, a bag
  documents, \* the registered documents
  runs       \* of every import: [pc, calls, losses, fails, inserted, tries]

importVars == <<file, contexts, store, documents, runs>>

-----------------------------------------------------------------------------
(* The database.                                                            *)

\* As if a context that is made again were made anew.
Ensured_anew(cs, added, kind, parent) ==
  [x \in DOMAIN cs \cup added |-> IF x \in added THEN [kind |-> kind, mode |-> "permissive", parent |-> parent] ELSE cs[x]]

Ensured(cs, added, kind, parent) ==
  [x \in DOMAIN cs \cup added |->
     IF x \in DOMAIN cs THEN cs[x] ELSE [kind |-> kind, mode |-> "permissive", parent |-> parent]]

\* The content hash leaves the maturity out.
Content(x) == [x EXCEPT !.maturity = 0]

\* Three bits of the maturity are kept.
Kept(x) == [x EXCEPT !.maturity = @ % 8]

\* One more of each.
Inserted(st, new) ==
  [x \in DOMAIN st \cup new |-> (IF x \in DOMAIN st THEN st[x] ELSE 0) + IF x \in new THEN 1 ELSE 0]

\* The statements whose content is neither there nor earlier in the list.
News(st, stmts) ==
  LET there == {Content(y) : y \in DOMAIN st}
  IN {i \in DOMAIN stmts : /\ Content(stmts[i]) \notin there
                          /\ \A j \in 1..i - 1 : Content(stmts[j]) # Content(stmts[i])}

\* As if a content that is there already were stored again.
Added_again(st, stmts) == Inserted(st, {Kept(x) : x \in Range(stmts)})

\* As if the maturity were not stored.
Added_bare(st, stmts) == Inserted(st, {Content(stmts[i]) : i \in News(st, stmts)})

\* A content is kept once, with the maturity it first came with.
Added(st, stmts) == Inserted(st, {Kept(stmts[i]) : i \in News(st, stmts)})

\* Validity that ends before it begins, a day before the first year, a
\* character a jsonb text cannot hold, a predicate that a curated context
\* does not know: the batch is refused.
Unfit(cs, x) ==
  LET days == Range(x.valid) \ {None}
  IN \/ \E d \in days : d < 10
     \/ Cardinality(days) = 2 /\ x.valid[1] > x.valid[2]
     \/ "lit" \in DOMAIN x.o /\ Nul \in Range(x.o.lit)
     \/ x.ctx \in DOMAIN cs /\ cs[x.ctx].mode = "curated" /\ x.p \notin Registered

Sends(call) == "stmts" \in DOMAIN call
Unfitting(cs, call) == Sends(call) /\ \E x \in Range(call.stmts) : Unfit(cs, x)

Effect(call) ==
  /\ IF Sends(call)
     THEN /\ store' = Added(store, call.stmts)
          /\ contexts' = Ensured(contexts, {x.ctx : x \in Range(call.stmts)}, "custom", None)
     ELSE /\ UNCHANGED store
          /\ contexts' = IF "ensure" \in DOMAIN call THEN Ensured(contexts, {call.ensure}, call.kind, call.parent) ELSE contexts
  /\ documents' = IF "document" \in DOMAIN call THEN documents \cup {call.document} ELSE documents

-----------------------------------------------------------------------------
(* An import.                                                               *)

InitImports ==
  /\ file \in File
  /\ contexts = file.contexts
  /\ store = <<>> /\ documents = {}
  /\ runs = [r \in Run |-> [pc |-> "asked", calls |-> <<>>, losses |-> <<>>, fails |-> FALSE, inserted |-> 0, tries |-> 0]]

\* An import is started, and again when it failed.
Start(r) ==
  /\ runs[r].pc \in {"asked", "failed"}
  /\ runs[r].tries < MaxTries
  /\ \E p \in {Reads(file, <<r, runs[r].tries>>)} :
       runs' = [runs EXCEPT ![r] = [pc |-> "running", calls |-> p.calls, losses |-> p.losses, fails |-> p.fails,
                                    inserted |-> 0, tries |-> @.tries + 1]]
  /\ UNCHANGED <<file, contexts, store, documents>>

Calls(r) == runs[r].pc = "running" /\ runs[r].calls # <<>>

\* What the report counts is how many were sent.
Call(r) ==
  /\ Calls(r)
  /\ LET call == Head(runs[r].calls)
     IN /\ ~Unfitting(contexts, call)
        /\ Effect(call)
        /\ runs' = [runs EXCEPT ![r].calls = Tail(@),
                                ![r].inserted = @ + IF Sends(call) THEN Len(call.stmts) ELSE 0]
  /\ UNCHANGED file

Fails(r) == runs' = [runs EXCEPT ![r].pc = "failed", ![r].calls = <<>>]

CallIsRefused(r) ==
  /\ Calls(r) /\ Unfitting(contexts, Head(runs[r].calls))
  /\ Fails(r)
  /\ UNCHANGED <<file, contexts, store, documents>>

\* The connection breaks, or the importer is stopped, before the call or after.
CallBreaks(r) ==
  /\ Calls(r)
  /\ Fails(r)
  /\ UNCHANGED <<file, contexts, store, documents>>
AnswerIsLost(r) ==
  /\ Calls(r) /\ ~Unfitting(contexts, Head(runs[r].calls))
  /\ Effect(Head(runs[r].calls))
  /\ Fails(r)
  /\ UNCHANGED file

Strict == "strict" \in DOMAIN file /\ file.strict

\* The file is refused, or its report is made; a strict import is refused then.
End(r) ==
  /\ runs[r].pc = "running" /\ runs[r].calls = <<>>
  /\ runs' = [runs EXCEPT ![r].pc =
       IF @ = "running" /\ runs[r].fails THEN "refused"
       ELSE IF Strict /\ runs[r].losses # <<>> THEN "strict" ELSE "reported"]
  /\ UNCHANGED <<file, contexts, store, documents>>

NextImports == \E r \in Run : Start(r) \/ Call(r) \/ CallIsRefused(r) \/ End(r) \/ CallBreaks(r) \/ AnswerIsLost(r)

ImportSpec == InitImports /\ [][NextImports]_importVars

-----------------------------------------------------------------------------
(* What is taken of the readers: TLC finds it so of every file it is given. *)

\* A node without a name has another one in every run.
Unnamed(i) == IF Len(i) > 3 /\ i[1] = "_" /\ i[2] = ":" THEN <<"_", ":">> \o SubSeq(i, 4, Len(i)) ELSE i
Means(x) == [x EXCEPT !.s = Unnamed(@), !.o = IF IsIri(@) THEN Iri(Unnamed(@.iri)) ELSE @]

\* The tries of the imports.
Tries == Run \X (0..MaxTries - 1)

\* The k-th call of program p has an i-th statement.
States(p, k, i) == k \in DOMAIN p.calls /\ Sends(p.calls[k]) /\ i \in DOMAIN p.calls[k].stmts

\* And it is the first of its content.
Tells(p, k, i) ==
  /\ States(p, k, i)
  /\ \A l \in 1..k : Sends(p.calls[l]) =>
       \A j \in DOMAIN p.calls[l].stmts :
         l < k \/ j < i => Content(p.calls[l].stmts[j]) # Content(p.calls[k].stmts[i])

Stated(p) == UNION {Range(p.calls[k].stmts) : k \in {k \in DOMAIN p.calls : Sends(p.calls[k])}}
Told(p) ==
  UNION {{p.calls[k].stmts[i] : i \in {i \in DOMAIN p.calls[k].stmts : Tells(p, k, i)}} :
           k \in {k \in DOMAIN p.calls : Sends(p.calls[k])}}

IsStatement(x) == {"ctx", "maturity"} \subseteq DOMAIN x
IsProgram(p) ==
  /\ p.calls \in Seq(Range(p.calls)) /\ p.fails \in BOOLEAN
  /\ \A call \in Range(p.calls) :
       /\ DOMAIN call \in {{"stmts"}, {"ensure", "kind", "parent"}, {"document"}}
       /\ Sends(call) => call.stmts \in Seq(Range(call.stmts)) /\ \A x \in Range(call.stmts) : IsStatement(x)

\* A file that means nothing is refused by its reader or by the database, any
\* other is read as what it means.
IsReadRight(f, p) ==
  IF f.means = None THEN p.fails \/ \E call \in Range(p.calls) : Unfitting(f.contexts, call)
  ELSE ~p.fails /\ {Means(Kept(x)) : x \in Told(p)} = f.means /\ Len(p.losses) = f.lost

\* Two readings of a file that say the same say it with the same maturity, and
\* what makes one fail makes the others send no statement.
Agree(f, p, q) ==
  /\ \A x \in Told(p), y \in Told(q) : Content(x) = Content(y) => Kept(x) = Kept(y)
  /\ p.fails /\ f.format # "relink" => Stated(q) = {}

\* A migration makes the contexts it uses, under its root, before it uses them,
\* and finds none of them elsewhere; it does not make those of sources without
\* a row.
MakesItsContexts(f, p) ==
  \A k \in DOMAIN p.calls :
    /\ "ensure" \in DOMAIN p.calls[k] /\ p.calls[k].ensure # f.ctx =>
         /\ p.calls[k].parent = f.ctx /\ p.calls[k].ensure \notin Homeless(f)
         /\ p.calls[k].ensure \in DOMAIN f.contexts => f.contexts[p.calls[k].ensure].parent = f.ctx
    /\ Sends(p.calls[k]) => \A x \in Range(p.calls[k].stmts) :
         x.ctx \in {f.ctx} \cup Homeless(f) \/ \E j \in 1..k - 1 : "ensure" \in DOMAIN p.calls[j] /\ p.calls[j].ensure = x.ctx

FilesAreRead ==
  \A f \in File : \A t \in Tries :
    /\ IsProgram(Reads(f, t)) /\ IsReadRight(f, Reads(f, t))
    /\ \A u \in Tries : Agree(f, Reads(f, t), Reads(f, u))
    /\ f.format = "genealogy" => MakesItsContexts(f, Reads(f, t))

ASSUME MaxTriesBound == MaxTries \in Nat
ASSUME ReadersAreRight == FilesAreRead

-----------------------------------------------------------------------------
\* An import that reports success has stored what its file means and nothing
\* else, and reports what it left out: whatever failed before it, whatever was
\* sent twice and whoever else imports the same file (the batches are
\* transactions of their own, and donto_assert keeps one statement of a
\* content).  Not said of files whose meaning is disputed, nor of a strict
\* import that is refused when everything is stored.
ReadsTheFile ==
  \A r \in Run : runs[r].pc = "reported" /\ ~Disputed(file) =>
    /\ file.means # None
    /\ {Means(x) : x \in DOMAIN store} = file.means
    /\ \A x \in DOMAIN store : store[x] = 1
    /\ Len(runs[r].losses) = file.lost

\* Before it is done, an import has stored some of what the file means and
\* nothing that it does not mean; a file that cannot be read leaves nothing
\* behind, except for the relink migration, which stores what it reads before
\* the row it breaks off at.
NothingElse ==
  /\ file.means # None => {Means(x) : x \in DOMAIN store} \subseteq file.means
  /\ \A r \in Run : runs[r].pc = "refused" /\ file.format # "relink" => store = <<>>

\* Statements of a migration are in the root context or in one that hangs
\* under it, so that a scope of the root and its descendants has them all, but
\* for those of a row whose source is null or has no row of its own: nothing
\* makes its context before the statement (genealogy.rs:128, 180, 211).
UnderTheRoot ==
  file.format = "genealogy" =>
    \A x \in DOMAIN store :
      x.ctx \in {file.ctx} \cup Homeless(file) \/ contexts[x.ctx].parent = file.ctx
=============================================================================
