---------------------------- MODULE QueryCommand ----------------------------
(***************************************************************************)
(* A query from its text to its rows: the query command of donto-cli and   *)
(* the sparql and dontoql requests of dontosrv.  The text is parsed; what  *)
(* was read, with the preset the caller names beside the text, goes to the *)
(* evaluator, while other clients edit what it reads.                      *)
(***************************************************************************)
EXTENDS QueryText

CONSTANTS
  Id, Content, Context, Parent, Doc, Action, AsOf, Start, Edit, Older, MaxEdits \* of Query

VARIABLES
  preset, \* the preset the caller names, or None
  asks,   \* whether what becomes of the text once it is read is followed
  store, now, edits, older, pc, asked, concept, k, todo, found, row, stmts, answer, began, past

\* The evaluator: its query is the one that was asked.
E == INSTANCE Query WITH query <- asked

caller == <<preset, asks>>
ASSUME NoneIsNoTime == None \notin Nat
ASSUME StartsAreStores == \A st \in Start : E!IsStore(st)
ASSUME OlderAreTimes == \A ts \in Older : ts \subseteq Nat
ASSUME MaturitiesAreNumbers == \A e \in Edit : e.kind = "promote" => e.maturity \in Nat
ASSUME AskedTextsMean == \A s \in Source : s.asks => s.means # None

evaluation == <<store, now, edits, older, pc, asked, concept, k, todo, found, row, stmts, answer, began, past>>
vars == <<tvars, caller, evaluation>>

Init ==
  /\ \E s \in Source : InitText(s) /\ preset = s.preset /\ asks = s.asks
  /\ E!Init

Read == Parse /\ UNCHANGED <<caller, evaluation>>

\* run: the caller's preset replaces one in the text.  A text that is not
\* understood is an error and asks nothing.
Ask ==
  /\ status = "parsed" /\ asks
  /\ E!Submit([query |-> query, preset |-> preset])
  /\ UNCHANGED <<tvars, caller>>

Answer == E!Evaluate /\ UNCHANGED <<tvars, caller>>
Fail == E!CallFails /\ UNCHANGED <<tvars, caller>>
OthersEdit == status = "parsed" /\ asks /\ (\E e \in Edit : E!Others(e)) /\ UNCHANGED <<tvars, caller>>

Handle == Read \/ Ask \/ Answer
Next == Handle \/ Fail \/ OthersEdit

\* The command runs in one task, whose future is polled until it is ready.
Spec == Init /\ [][Next]_vars /\ WF_vars(Handle)

-----------------------------------------------------------------------------
(* Properties *)

\* The query that was meant: what the text renders, under the preset the caller
\* names and else under that of the text.
Meant == E!WithPreset(store, IF preset = None THEN means ELSE [means EXCEPT !.preset = preset])

\* From text to rows: as long as nobody edits meanwhile, and of every query of
\* which the documentation does not promise other rows, the rows are a window
\* of the solutions of the query that was meant, each with its evidence, and
\* it is refused as ill-typed just when some solution of the patterns before
\* one binds a literal to its subject or predicate.
AnswerIsJoin ==
  /\ pc \in {"done", "ill-typed"} /\ past = {store} /\ means.patterns # <<>>
  /\ ~E!Disputed(store, Meant)
  =>
    IF E!IllTyped(store, Meant) THEN pc = "ill-typed"
    ELSE pc = "done" /\ answer \in E!Answers(store, Meant)

\* A question about a time that was past when it was asked, and before all that
\* still ran then began, has one answer, whatever transactions commit between
\* the evaluator's calls.
AsOfIsRepeatable == E!AsOfIsRepeatable

\* Whoever edits meanwhile, each statement behind a row was to be seen, and
\* admitted by each clause, at some moment since the query was asked.
RowsWereVisible == E!RowsWereVisible

\* Every text is read to an end - no clause, list, scope or block is read for
\* ever, as parse_query, parse_scope and parse_block loop until a break - and
\* what was understood is answered or fails.
TextsAreAnswered ==
  <>(\/ status \in {"error", "panic"}
     \/ status = "parsed" /\ (asks => pc \in E!Ended))
=============================================================================
