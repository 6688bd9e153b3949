------------------------------- MODULE Import -------------------------------
(***************************************************************************)
(* Loading a file: donto ingest and donto ling (apps/donto-cli), POST      *)
(* /assert/batch (apps/dontosrv), donto-migrate and the quarantine: how    *)
(* the file is read and in which batches it is sent.                       *)
(***************************************************************************)
EXTENDS MigrateFormats, ImportRuns

CONSTANT
  BatchSize \* how many statements a batch takes

-----------------------------------------------------------------------------
(* The calls an import makes of the database.                               *)

Ensure(c, kind, parent) == [ensure |-> c, kind |-> kind, parent |-> parent]
Batch(stmts) == [stmts |-> stmts]
Register(iri) == [document |-> iri]

Batches(stmts) ==
  [k \in 1..(Len(stmts) + BatchSize - 1) \div BatchSize |->
     Batch(SubSeq(stmts, (k - 1) * BatchSize + 1,
                   IF k * BatchSize < Len(stmts) THEN k * BatchSize ELSE Len(stmts)))]

Program(calls, losses, fails) == [calls |-> calls, losses |-> losses, fails |-> fails]

\* What is read is sent when all of it is read.
Gathered(before, r) ==
  IF r.fails THEN Program(before, <<>>, TRUE) ELSE Program(before \o Batches(r.stmts), r.losses, FALSE)

\* donto ingest has no mapping for a CSV file.
Parsed(f, token) ==
  CASE f.format = "rdf" -> ReadRdf(f, f.ctx)
    [] f.format = "jsonl" -> ReadJsonl(f, f.ctx)
    [] f.format = "csv" -> IF f.mapping = None THEN Refused ELSE ReadCsv(f, f.ctx)
    [] f.format = "property graph" -> ReadPropertyGraph(f, f.ctx)
    [] f.format = "jsonld" -> ReadJsonLd(f, f.ctx, token)

LingFormat == {"cldf", "ud", "unimorph", "lift", "eaf"}
LingRead(f) ==
  CASE f.format = "cldf" -> ReadCldf(f, f.ctx)
    [] f.format = "ud" -> ReadUd(f, f.ctx)
    [] f.format = "unimorph" -> ReadUniMorph(f, f.ctx)
    [] f.format = "lift" -> ReadLift(f, f.ctx)
    [] f.format = "eaf" -> ReadEaf(f, f.ctx)

\* A dataset without metadata is refused before its context is made.
Ling(f) ==
  LET p == Gathered(<<Ensure(f.ctx, "custom", None)>>, LingRead(f))
  IN IF f.format # "cldf" THEN p
     ELSE IF ~f.found THEN Program(<<>>, <<>>, TRUE)
     ELSE IF ~f.registerSource \/ p.fails THEN p
     ELSE IF f.identifier = None /\ f.title = None
     THEN [p EXCEPT !.losses = Append(@, <<"source">>)]
     ELSE [p EXCEPT !.calls = Append(@, Register(IF f.identifier = None THEN <<"cldf:", f.title>> ELSE <<f.identifier>>))]

Genealogy(f) ==
  LET r == ReadGenealogy(f.db, f.ctx)
      sources == [i \in DOMAIN RowsIn(f.db, "sources") |->
                    Ensure(f.ctx \o <<"/source/">> \o Spelled(RowsIn(f.db, "sources")[i].id), "source", f.ctx)]
      hypotheses == [i \in DOMAIN RowsIn(f.db, "hypotheses") |->
                       Ensure(<<"ctx:hypo/">> \o Spelled(RowsIn(f.db, "hypotheses")[i].id), "hypothesis", f.ctx)]
      before == <<Ensure(f.ctx, "custom", None)>>
                \o (IF Lacks(f.db, "sources", Needs.sources) THEN <<>> ELSE sources)
                \o (IF r.fails THEN <<>> ELSE hypotheses)
  IN IF f.dryRun THEN Program(<<>>, <<>>, r.fails) ELSE Gathered(before, r)

Relink(f) ==
  LET b == RelinkBatches(f.db, f.ctx)
  IN Program(<<Ensure(f.ctx, "custom", None)>> \o [i \in DOMAIN b.sent |-> Batch(b.sent[i])], <<>>, b.fails)

\* Statements a curated context did not take, in a context of their own.
Quarantine(f) ==
  LET q == <<"ctx:quarantine/">> \o Safe(f.source, Inside)
  IN Program(<<Ensure(q, "quarantine", None), Batch([i \in DOMAIN f.stmts |-> [f.stmts[i] EXCEPT !.ctx = q]])>>,
             <<>>, FALSE)

Request(f) ==
  LET r == ReadRequest(f) IN Program(IF r.fails THEN <<>> ELSE <<Batch(r.stmts)>>, <<>>, r.fails)

ProgramOf(f, token) ==
  CASE f.format \in LingFormat -> Ling(f)
    [] f.format = "genealogy" -> Genealogy(f)
    [] f.format = "relink" -> Relink(f)
    [] f.format = "quarantine" -> Quarantine(f)
    [] f.format = "request" -> Request(f)
    [] OTHER -> Gathered(<<>>, Parsed(f, token))

-----------------------------------------------------------------------------
\* The head of relink.rs names the full rows of events and hypotheses as the
\* first migration has named them (:15-16) and the code names them apart; that
\* of donto-ling-cldf registers every parameter (:27) and the code those that
\* are used.
SaidTwice(f) ==
  \/ f.format = "relink" /\ \E t \in {"events", "hypotheses"} : RowsIn(f.db, t) # <<>>
  \/ /\ f.format = "cldf" /\ f.means # None
     /\ \E i \in DOMAIN f.tables : \E r \in Range(RowsOf(f, "ParameterTable", i)) :
          \A x \in f.means : x.p # EntityIri(f, "param/", r.ID)

\* The sources that rows name and that have no row.
Unsourced(f) ==
  {SourceContext(f.ctx, r.source_id) : r \in UNION {Range(RowsIn(f.db, t)) : t \in {"entities", "claims", "events"}}}
  \ {SourceContext(f.ctx, r.id) : r \in Range(RowsIn(f.db, "sources"))}
=============================================================================
