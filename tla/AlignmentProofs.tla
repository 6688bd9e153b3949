-------------------------- MODULE AlignmentProofs --------------------------
(* What TLAPS proves of Alignment, for any sessions, predicates and edges. *)
EXTENDS Alignment, TLAPS

-----------------------------------------------------------------------------
(* The selections are rows *)

\* An entry made of two predicates and the columns of a row is one.
LEMMA EntryType ==
  ASSUME NEW p \in Pred, NEW q \in Pred, NEW swap \in BOOLEAN, NEW conf \in Confidence,
         NEW via \in {"self", "exact_equivalent", "inverse_equivalent",
                      "sub_property_of", "close_match"}
  PROVE  Entry(p, q, via, swap, conf) \in Pair \X Row
BY DEF Entry, Pair, Row

\* Every statement of a rebuild selects rows.
LEMMA StageType ==
  ASSUME NEW kn, kn \subseteq Pred, NEW es, es \subseteq Edge, NEW n \in 1..LastStage
  PROVE  Stages(kn, es)[n] \subseteq Pair \X Row
<1>1. \A p \in kn : Entry(p, p, "self", FALSE, "high") \in Pair \X Row
  BY EntryType DEF Confidence
<1>2. ASSUME NEW ds, ds \subseteq Edge,
             NEW via \in {"exact_equivalent", "inverse_equivalent",
                          "sub_property_of", "close_match"},
             NEW swap \in BOOLEAN
      PROVE  Forth(ds, via, swap) \subseteq Pair \X Row /\ Back(ds, via, swap) \subseteq Pair \X Row
  BY <1>2, EntryType, EdgesAreAlignments DEF Forth, Back
<1>3. High(es) \subseteq Edge
  BY DEF High
<1>4. \A c \in CanonicalOf \cup InverseOf : c[1] \in Pred /\ c[2] \in Pred
  BY LegacyPairs, SeedsArePredicates
<1>5. \A c \in CanonicalOf : /\ Entry(c[2], c[1], "exact_equivalent", FALSE, "high") \in Pair \X Row
                             /\ Entry(c[1], c[2], "exact_equivalent", FALSE, "high") \in Pair \X Row
  BY <1>4, EntryType DEF Confidence
<1>6. \A c \in InverseOf : /\ Entry(c[2], c[1], "inverse_equivalent", TRUE, "high") \in Pair \X Row
                           /\ Entry(c[1], c[2], "inverse_equivalent", TRUE, "high") \in Pair \X Row
  BY <1>4, EntryType DEF Confidence
<1>7. /\ Forth(es, "exact_equivalent", FALSE) \subseteq Pair \X Row
      /\ Back(es, "exact_equivalent", FALSE) \subseteq Pair \X Row
      /\ Forth(es, "inverse_equivalent", TRUE) \subseteq Pair \X Row
      /\ Back(es, "inverse_equivalent", TRUE) \subseteq Pair \X Row
      /\ Back(es, "sub_property_of", FALSE) \subseteq Pair \X Row
      /\ Forth(High(es), "close_match", FALSE) \subseteq Pair \X Row
      /\ Back(High(es), "close_match", FALSE) \subseteq Pair \X Row
  BY <1>2, <1>3
<1>8. n \in {1, 2, 3, 4, 5, 6, 7, 8, 9, 10, 11, 12}
  BY DEF LastStage
<1>9. /\ {Entry(p, p, "self", FALSE, "high") : p \in kn} \subseteq Pair \X Row
      /\ {Entry(c[2], c[1], "exact_equivalent", FALSE, "high") : c \in CanonicalOf} \subseteq Pair \X Row
      /\ {Entry(c[1], c[2], "exact_equivalent", FALSE, "high") : c \in CanonicalOf} \subseteq Pair \X Row
      /\ {Entry(i[1], i[2], "inverse_equivalent", TRUE, "high") : i \in InverseOf} \subseteq Pair \X Row
      /\ {Entry(i[2], i[1], "inverse_equivalent", TRUE, "high") : i \in InverseOf} \subseteq Pair \X Row
  BY <1>1, <1>5, <1>6
<1>10. Stages(kn, es)[1] \subseteq Pair \X Row
  BY <1>9 DEF Stages
<1>11. Stages(kn, es)[2] \subseteq Pair \X Row
  BY <1>7 DEF Stages
<1>12. Stages(kn, es)[3] \subseteq Pair \X Row
  BY <1>7 DEF Stages
<1>13. Stages(kn, es)[4] \subseteq Pair \X Row
  BY <1>7 DEF Stages
<1>14. Stages(kn, es)[5] \subseteq Pair \X Row
  BY <1>7 DEF Stages
<1>15. Stages(kn, es)[6] \subseteq Pair \X Row
  BY <1>7 DEF Stages
<1>16. Stages(kn, es)[7] \subseteq Pair \X Row
  BY <1>7 DEF Stages
<1>17. Stages(kn, es)[8] \subseteq Pair \X Row
  BY <1>7 DEF Stages
<1>18. Stages(kn, es)[9] \subseteq Pair \X Row
  BY <1>9 DEF Stages
<1>19. Stages(kn, es)[10] \subseteq Pair \X Row
  BY <1>9 DEF Stages
<1>20. Stages(kn, es)[11] \subseteq Pair \X Row
  BY <1>9 DEF Stages
<1>21. Stages(kn, es)[12] \subseteq Pair \X Row
  BY <1>9 DEF Stages
<1> QED
  BY <1>8, <1>10, <1>11, <1>12, <1>13, <1>14, <1>15, <1>16, <1>17, <1>18, <1>19, <1>20, <1>21

\* Some row, or none, is right for a pair when nothing changes.
LEMMA SomethingIsRight ==
  ASSUME NEW k \in Pair, NEW kn, NEW es
  PROVE  \E r \in Row \cup {NoRow} : Right(k, r, kn, kn, es, es)
<1> DEFINE kinds == {n \in 1..Len(Precedence) : \E q \in Row : Reason(n, k, q, kn, es)}
<1>1. CASE kinds = {}
  BY <1>1 DEF Right
<1>2. CASE kinds # {}
  <2>1. Len(Precedence) = 7
    BY DEF Precedence
  <2>2. kinds \subseteq {1, 2, 3, 4, 5, 6, 7}
    BY <2>1
  <2> HIDE DEF kinds
  <2>3. PICK n \in kinds : \A m \in kinds : n <= m
    <3>1. CASE 1 \in kinds
      BY <3>1, <2>2
    <3>2. CASE 1 \notin kinds /\ 2 \in kinds
      BY <3>2, <2>2
    <3>3. CASE {1, 2} \cap kinds = {} /\ 3 \in kinds
      BY <3>3, <2>2
    <3>4. CASE {1, 2, 3} \cap kinds = {} /\ 4 \in kinds
      BY <3>4, <2>2
    <3>5. CASE {1, 2, 3, 4} \cap kinds = {} /\ 5 \in kinds
      BY <3>5, <2>2
    <3>6. CASE {1, 2, 3, 4, 5} \cap kinds = {} /\ 6 \in kinds
      BY <3>6, <2>2
    <3>7. CASE {1, 2, 3, 4, 5, 6} \cap kinds = {} /\ 7 \in kinds
      BY <3>7, <2>2
    <3> QED
      BY <1>2, <2>2, <3>1, <3>2, <3>3, <3>4, <3>5, <3>6, <3>7
  <2> USE DEF kinds
  <2>4. PICK q \in Row : Reason(n, k, q, kn, es)
    OBVIOUS
  <2>5. q # NoRow
    BY Nobody
  <2> QED
    BY <2>3, <2>4, <2>5 DEF Right
<1> QED
  BY <1>1, <1>2

-----------------------------------------------------------------------------
(* Typing *)

\* The tables keep the types of 0048 and 0051.
THEOREM Typing == Spec => []TypeOK
<1>1. Init => TypeOK
  <2> SUFFICES ASSUME Init PROVE TypeOK
    OBVIOUS
  <2>1. \A k \in Pair : closure[k] \in Row \cup {NoRow}
    BY SomethingIsRight DEF Init
  <2>2. closure \in [Pair -> Row \cup {NoRow}]
    BY <2>1 DEF Init
  <2> QED
    BY <2>2, SeedsArePredicates, BoundsAreNaturals DEF Init, TypeOK, LastStage
<1>2. TypeOK /\ [Next]_vars => TypeOK'
  <2> SUFFICES ASSUME TypeOK, [Next]_vars PROVE TypeOK'
    OBVIOUS
  <2> USE DEF TypeOK
  <2>1. ASSUME NEW e \in Edge, Register(e) \/ Retract(e) PROVE TypeOK'
    <3>1. /\ known' \subseteq Pred /\ open' \subseteq Edge /\ changes' \in 0..MaxChanges
          /\ Seen(open') /\ UNCHANGED <<table, session, alone>>
      BY <2>1, EdgesAreAlignments, BoundsAreNaturals DEF Register, Retract
    <3>2. saw' \in [Rebuilder -> [preds : SUBSET Pred, always : SUBSET Edge, ever : SUBSET Edge]]
      BY <3>1 DEF Seen
    <3> QED
      BY <3>1, <3>2 DEF table, session
  <2>2. ASSUME NEW t \in Rebuilder, Begin(t) PROVE TypeOK'
    <3>1. {<<k, closure[k]>> : k \in {p \in Pair : closure[p] # NoRow}} \subseteq Pair \X Row
      OBVIOUS
    <3>2. rebuilds[t] + 1 \in 0..MaxRebuilds
      BY <2>2, BoundsAreNaturals DEF Begin
    <3>3. alone' \in [Rebuilder -> BOOLEAN]
      BY <2>2 DEF Begin
    <3>4. saw' \in [Rebuilder -> [preds : SUBSET Pred, always : SUBSET Edge, ever : SUBSET Edge]]
      BY <2>2 DEF Begin
    <3> QED
      BY <2>2, <3>1, <3>2, <3>3, <3>4 DEF Begin, edges, table, LastStage
  <2>3. ASSUME NEW t \in Rebuilder, NextStatement(t) PROVE TypeOK'
    <3>1. stage[t] + 1 \in 1..LastStage
      BY <2>3 DEF NextStatement, LastStage
    <3>2. Stages(known, open)[stage[t] + 1] \subseteq Pair \X Row
      BY <3>1, StageType
    <3> HIDE DEF LastStage
    <3> QED
      BY <2>3, <3>1, <3>2 DEF NextStatement, edges, table, ghosts, LastStage
  <2>4. ASSUME NEW t \in Rebuilder, NEW e \in todo[t], TreatRow(t, e) PROVE TypeOK'
    <3>1. e \in Pair \X Row /\ e[1] \in Pair /\ e[2] \in Row
      OBVIOUS
    <3>2. holder' \in [Pair -> Rebuilder \cup {NoOne}] /\ pending' \in [Pair -> Row \cup {NoRow}]
      BY <2>4, <3>1 DEF TreatRow, DeleteRow, InsertRow
    <3>3. waiting' \in [Rebuilder -> SUBSET (Pair \X Row)] /\ todo' \in [Rebuilder -> SUBSET (Pair \X Row)]
      BY <2>4, <3>1 DEF TreatRow
    <3> QED
      BY <2>4, <3>2, <3>3 DEF TreatRow, edges, ghosts
  <2>5. ASSUME NEW t \in Rebuilder, NEW committed \in BOOLEAN, End(t, committed) PROVE TypeOK'
    BY <2>5, SeedsArePredicates DEF End, edges, LastStage
  <2>6. CASE UNCHANGED vars
    BY <2>6 DEF vars, edges, table, session, ghosts
  <2> QED
    BY <2>1, <2>2, <2>3, <2>4, <2>5, <2>6 DEF Next, Step, Commit, CancelDeadlock, Crash
<1> QED
  BY <1>1, <1>2, PTL DEF Spec

-----------------------------------------------------------------------------
(* Held rows *)

\* Only running rebuilds hold rows or have rows to treat, and while one deletes
\* it has inserted none.
Holders ==
  /\ \A k \in Pair : holder[k] # NoOne =>
       /\ holder[k] \in running
       /\ stage[holder[k]] = 0 => pending[k] = NoRow
  /\ \A t \in Rebuilder : todo[t] # {} => t \in running

\* Holders is inductive.
LEMMA HoldersInv == Spec => []Holders
<1>1. Init => Holders
  BY DEF Init, Holders
<1>2. TypeOK /\ Holders /\ [Next]_vars => Holders'
  <2> SUFFICES ASSUME TypeOK, Holders, [Next]_vars PROVE Holders'
    OBVIOUS
  <2> USE DEF TypeOK, Holders
  <2>1. ASSUME NEW e \in Edge, Register(e) \/ Retract(e) PROVE Holders'
    BY <2>1 DEF Register, Retract, table, session
  <2>2. ASSUME NEW t \in Rebuilder, Begin(t) PROVE Holders'
    BY <2>2 DEF Begin, table
  <2>3. ASSUME NEW t \in Rebuilder, NextStatement(t) PROVE Holders'
    BY <2>3 DEF NextStatement, table, LastStage
  <2>4. ASSUME NEW t \in Rebuilder, NEW e \in todo[t], TreatRow(t, e) PROVE Holders'
    <3>1. t \in running /\ e[1] \in Pair /\ t # NoOne
      BY Nobody
    <3>2. \A u \in Rebuilder : todo'[u] # {} => todo[u] # {}
      BY <2>4 DEF TreatRow
    <3>3. CASE Blocked(t, e[1])
      BY <2>4, <3>2, <3>3 DEF TreatRow
    <3>4. CASE ~ Blocked(t, e[1]) /\ stage[t] = 0
      BY <2>4, <3>1, <3>2, <3>4 DEF TreatRow, DeleteRow
    <3>5. CASE ~ Blocked(t, e[1]) /\ stage[t] # 0
      <4>1. UNCHANGED <<running, stage>> /\ InsertRow(t, e)
        BY <2>4, <3>5 DEF TreatRow
      <4>2. CASE UNCHANGED <<holder, pending>>
        BY <3>2, <4>1, <4>2
      <4>3. CASE /\ holder' = [holder EXCEPT ![e[1]] = t]
                 /\ pending' = [pending EXCEPT ![e[1]] = e[2]]
        BY <3>1, <3>2, <3>5, <4>1, <4>3
      <4> QED
        BY <4>1, <4>2, <4>3 DEF InsertRow
    <3> QED
      BY <3>3, <3>4, <3>5
  <2>5. ASSUME NEW t \in Rebuilder, NEW committed \in BOOLEAN, End(t, committed) PROVE Holders'
    BY <2>5 DEF End
  <2>6. CASE UNCHANGED vars
    BY <2>6 DEF vars, table, session
  <2> QED
    BY <2>1, <2>2, <2>3, <2>4, <2>5, <2>6 DEF Next, Step, Commit, CancelDeadlock, Crash
<1> QED
  BY <1>1, <1>2, Typing, PTL DEF Spec

\* Nobody takes a row from a running rebuild, and the row it has inserted for a
\* pair stays as it is until it ends (0051:50).
THEOREM RowsAreKept == Spec => HeldRowsAreKept
<1>1. TypeOK /\ Holders /\ [Next]_vars =>
        [\A k \in Pair : holder[k] \in running' =>
           /\ holder'[k] = holder[k]
           /\ pending[k] # NoRow => pending'[k] = pending[k]]_vars
  <2> SUFFICES ASSUME TypeOK, Holders, [Next]_vars, NEW k \in Pair, holder[k] \in running'
               PROVE  /\ holder'[k] = holder[k]
                      /\ pending[k] # NoRow => pending'[k] = pending[k]
    BY DEF vars
  <2> USE DEF TypeOK, Holders
  <2>1. ASSUME NEW t \in Rebuilder, NEW e \in todo[t], TreatRow(t, e)
        PROVE  holder'[k] = holder[k] /\ (pending[k] # NoRow => pending'[k] = pending[k])
    <3>1. e[1] \in Pair /\ t \in running /\ holder[k] # NoOne
      BY <2>1, Nobody DEF TreatRow
    <3>2. CASE Blocked(t, e[1])
      BY <2>1, <3>2 DEF TreatRow
    <3>3. CASE stage[t] = 0 /\ ~ Blocked(t, e[1])
      BY <2>1, <3>1, <3>3 DEF TreatRow, DeleteRow, Blocked
    <3>4. CASE stage[t] # 0 /\ ~ Blocked(t, e[1])
      BY <2>1, <3>1, <3>4 DEF TreatRow, InsertRow, Blocked
    <3> QED
      BY <3>2, <3>3, <3>4
  <2>2. ASSUME NEW t \in Rebuilder, NEW committed \in BOOLEAN, End(t, committed)
        PROVE  holder'[k] = holder[k] /\ pending'[k] = pending[k]
    BY <2>2 DEF End
  <2>3. CASE UNCHANGED table
    BY <2>3 DEF table
  <2> QED
    BY <2>1, <2>2, <2>3
    DEF Next, Step, Commit, CancelDeadlock, Crash, Register, Retract, Begin, NextStatement, vars
<1> QED
  BY <1>1, Typing, HoldersInv, PTL DEF Spec, HeldRowsAreKept

-----------------------------------------------------------------------------
(* Selections and reasons *)

\* More predicates and more edges make larger selections.
LEMMA StagesGrow ==
  ASSUME NEW kn, NEW kn1, kn \subseteq kn1, NEW es, NEW es1, es \subseteq es1,
         NEW n \in 1..LastStage
  PROVE  Stages(kn, es)[n] \subseteq Stages(kn1, es1)[n]
<1>1. n \in {1, 2, 3, 4, 5, 6, 7, 8, 9, 10, 11, 12}
  BY DEF LastStage
<1>2. ASSUME NEW ds, NEW ds1, ds \subseteq ds1, NEW via, NEW swap \in BOOLEAN
      PROVE  Forth(ds, via, swap) \subseteq Forth(ds1, via, swap)
             /\ Back(ds, via, swap) \subseteq Back(ds1, via, swap)
  BY <1>2 DEF Forth, Back
<1>3. High(es) \subseteq High(es1)
  BY DEF High
<1>4. Stages(kn, es)[1] \subseteq Stages(kn1, es1)[1]
  BY DEF Stages
<1>5. Stages(kn, es)[2] \subseteq Stages(kn1, es1)[2]
  BY <1>2 DEF Stages
<1>6. Stages(kn, es)[3] \subseteq Stages(kn1, es1)[3]
  BY <1>2 DEF Stages
<1>7. Stages(kn, es)[4] \subseteq Stages(kn1, es1)[4]
  BY <1>2 DEF Stages
<1>8. Stages(kn, es)[5] \subseteq Stages(kn1, es1)[5]
  BY <1>2 DEF Stages
<1>9. Stages(kn, es)[6] \subseteq Stages(kn1, es1)[6]
  BY <1>2 DEF Stages
<1>10. Stages(kn, es)[7] \subseteq Stages(kn1, es1)[7]
  BY <1>2, <1>3 DEF Stages
<1>11. Stages(kn, es)[8] \subseteq Stages(kn1, es1)[8]
  BY <1>2, <1>3 DEF Stages
<1>12. Stages(kn, es)[9] \subseteq Stages(kn1, es1)[9]
  BY DEF Stages
<1>13. Stages(kn, es)[10] \subseteq Stages(kn1, es1)[10]
  BY DEF Stages
<1>14. Stages(kn, es)[11] \subseteq Stages(kn1, es1)[11]
  BY DEF Stages
<1>15. Stages(kn, es)[12] \subseteq Stages(kn1, es1)[12]
  BY DEF Stages
<1> QED
  BY <1>1, <1>4, <1>5, <1>6, <1>7, <1>8, <1>9, <1>10, <1>11, <1>12, <1>13, <1>14, <1>15

\* Which kind of reason each statement selects for.
KindOf == <<1, 2, 2, 3, 3, 4, 5, 5, 6, 6, 7, 7>>

LEMMA KindsOfStages ==
  /\ \A m \in 1..LastStage : KindOf[m] \in 1..Len(Precedence)
  /\ \A m, n \in 1..LastStage : m <= n => KindOf[m] <= KindOf[n]
<1>1. /\ KindOf[1] = 1 /\ KindOf[2] = 2 /\ KindOf[3] = 2 /\ KindOf[4] = 3 /\ KindOf[5] = 3
      /\ KindOf[6] = 4 /\ KindOf[7] = 5 /\ KindOf[8] = 5 /\ KindOf[9] = 6 /\ KindOf[10] = 6
      /\ KindOf[11] = 7 /\ KindOf[12] = 7
  BY DEF KindOf
<1>2. Len(Precedence) = 7 /\ 1..LastStage = {1, 2, 3, 4, 5, 6, 7, 8, 9, 10, 11, 12}
  BY DEF Precedence, LastStage
<1> QED
  BY <1>1, <1>2

\* The reasons, one by one.
LEMMA ReasonSelf ==
  ASSUME NEW k, NEW r, NEW kn, NEW es
  PROVE  Reason(1, k, r, kn, es) <=> k[1] = k[2] /\ k[1] \in kn /\ r.via = "self" /\ ~ r.swap
<1>1. Precedence[1] = "self"
  BY DEF Precedence
<1> QED
  BY <1>1 DEF Reason

LEMMA ReasonEdge ==
  ASSUME NEW k, NEW r, NEW kn, NEW es, NEW n \in {2, 3, 4, 5}
  PROVE  Reason(n, k, r, kn, es) <=>
           /\ r.via = Precedence[n] /\ (r.swap <=> r.via = "inverse_equivalent")
           /\ \E e \in es : e.rel = r.via /\ e.conf = r.conf /\ Joins(e, k)
<1>1. /\ Precedence[2] = "exact_equivalent" /\ Precedence[3] = "inverse_equivalent"
      /\ Precedence[4] = "sub_property_of" /\ Precedence[5] = "close_match"
  BY DEF Precedence
<1> QED
  BY <1>1 DEF Reason

LEMMA ReasonAlias ==
  ASSUME NEW k, NEW r, NEW kn, NEW es
  PROVE  Reason(6, k, r, kn, es) <=>
           /\ r.conf = "high" /\ (k \in CanonicalOf \/ <<k[2], k[1]>> \in CanonicalOf)
           /\ r.via = "exact_equivalent" /\ ~ r.swap
<1>1. Precedence[6] = "legacy alias"
  BY DEF Precedence
<1> QED
  BY <1>1 DEF Reason

LEMMA ReasonInverse ==
  ASSUME NEW k, NEW r, NEW kn, NEW es
  PROVE  Reason(7, k, r, kn, es) <=>
           /\ r.conf = "high" /\ (k \in InverseOf \/ <<k[2], k[1]>> \in InverseOf)
           /\ r.via = "inverse_equivalent" /\ r.swap
<1>1. Precedence[7] = "legacy inverse"
  BY DEF Precedence
<1> QED
  BY <1>1 DEF Reason

\* A row that is selected for a pair has a reason of the statement's kind.
LEMMA SelectedHasReason ==
  ASSUME NEW k \in Pair, NEW r \in Row, NEW kn, NEW es \in SUBSET Edge,
         NEW m \in 1..LastStage, <<k, r>> \in Stages(kn, es)[m]
  PROVE  Reason(KindOf[m], k, r, kn, es)
<1>1. m \in {1, 2, 3, 4, 5, 6, 7, 8, 9, 10, 11, 12}
  BY DEF LastStage
<1>2. CASE m = 1
  <2>1. PICK p \in kn : <<k, r>> = Entry(p, p, "self", FALSE, "high")
    BY <1>2 DEF Stages
  <2>2. KindOf[m] = 1
    BY <1>2 DEF KindOf
  <2> QED
    BY <2>1, <2>2, ReasonSelf DEF Entry
<1>4. CASE m \in {2, 3}
  <2>1. /\ Stages(kn, es)[2] = Forth(es, "exact_equivalent", FALSE)
        /\ Stages(kn, es)[3] = Back(es, "exact_equivalent", FALSE)
    BY DEF Stages
  <2>2. PICK e \in es :
          /\ e.rel = "exact_equivalent"
          /\ \/ <<k, r>> = Entry(e.src, e.tgt, "exact_equivalent", FALSE, e.conf)
             \/ <<k, r>> = Entry(e.tgt, e.src, "exact_equivalent", FALSE, e.conf)
    <3>1. CASE m = 2
      BY <2>1, <3>1 DEF Forth
    <3>2. CASE m = 3
      BY <2>1, <3>2 DEF Back
    <3> QED
      BY <1>4, <3>1, <3>2
  <2>3. /\ {e.src, e.tgt} = {k[1], k[2]}
        /\ r.via = "exact_equivalent" /\ r.swap = FALSE /\ r.conf = e.conf
    BY <2>2 DEF Entry
  <2>4. KindOf[m] = 2 /\ Precedence[2] = "exact_equivalent"
    BY <1>4 DEF KindOf, Precedence
  <2>5. Joins(e, k)
    BY <2>2, <2>3 DEF Joins
  <2> QED
    BY <2>2, <2>3, <2>4, <2>5, ReasonEdge
<1>5. CASE m \in {4, 5}
  <2>1. /\ Stages(kn, es)[4] = Forth(es, "inverse_equivalent", TRUE)
        /\ Stages(kn, es)[5] = Back(es, "inverse_equivalent", TRUE)
    BY DEF Stages
  <2>2. PICK e \in es :
          /\ e.rel = "inverse_equivalent"
          /\ \/ <<k, r>> = Entry(e.src, e.tgt, "inverse_equivalent", TRUE, e.conf)
             \/ <<k, r>> = Entry(e.tgt, e.src, "inverse_equivalent", TRUE, e.conf)
    <3>1. CASE m = 4
      BY <2>1, <3>1 DEF Forth
    <3>2. CASE m = 5
      BY <2>1, <3>2 DEF Back
    <3> QED
      BY <1>5, <3>1, <3>2
  <2>3. /\ {e.src, e.tgt} = {k[1], k[2]}
        /\ r.via = "inverse_equivalent" /\ r.swap = TRUE /\ r.conf = e.conf
    BY <2>2 DEF Entry
  <2>4. KindOf[m] = 3 /\ Precedence[3] = "inverse_equivalent"
    BY <1>5 DEF KindOf, Precedence
  <2>5. Joins(e, k)
    BY <2>2, <2>3 DEF Joins
  <2> QED
    BY <2>2, <2>3, <2>4, <2>5, ReasonEdge
<1>6. CASE m = 6
  <2>1. PICK e \in es : e.rel = "sub_property_of" /\ <<k, r>> = Entry(e.tgt, e.src, "sub_property_of", FALSE, e.conf)
    <3>1. Stages(kn, es)[6] = Back(es, "sub_property_of", FALSE)
      BY DEF Stages
    <3> QED
      BY <1>6, <3>1 DEF Back
  <2>2. KindOf[m] = 4 /\ Precedence[4] = "sub_property_of"
    BY <1>6 DEF KindOf, Precedence
  <2>3. k[1] = e.tgt /\ k[2] = e.src /\ r.via = "sub_property_of" /\ r.swap = FALSE /\ r.conf = e.conf
    BY <2>1 DEF Entry
  <2> QED
    BY <2>1, <2>2, <2>3, ReasonEdge DEF Joins
<1>7. CASE m \in {7, 8}
  <2>1. /\ Stages(kn, es)[7] = Forth(High(es), "close_match", FALSE)
        /\ Stages(kn, es)[8] = Back(High(es), "close_match", FALSE)
    BY DEF Stages
  <2>2. PICK e \in High(es) :
          /\ e.rel = "close_match"
          /\ \/ <<k, r>> = Entry(e.src, e.tgt, "close_match", FALSE, e.conf)
             \/ <<k, r>> = Entry(e.tgt, e.src, "close_match", FALSE, e.conf)
    <3>1. CASE m = 7
      BY <2>1, <3>1 DEF Forth
    <3>2. CASE m = 8
      BY <2>1, <3>2 DEF Back
    <3> QED
      BY <1>7, <3>1, <3>2
  <2>3. /\ {e.src, e.tgt} = {k[1], k[2]}
        /\ r.via = "close_match" /\ r.swap = FALSE /\ r.conf = e.conf
    BY <2>2 DEF Entry
  <2>4. KindOf[m] = 5 /\ Precedence[5] = "close_match"
    BY <1>7 DEF KindOf, Precedence
  <2>5. e \in es /\ Joins(e, k)
    BY <2>2, <2>3 DEF Joins, High
  <2> QED
    BY <2>2, <2>3, <2>4, <2>5, ReasonEdge
<1>8. CASE m \in {9, 10}
  <2>1. PICK c \in CanonicalOf : \/ <<k, r>> = Entry(c[2], c[1], "exact_equivalent", FALSE, "high")
                                 \/ <<k, r>> = Entry(c[1], c[2], "exact_equivalent", FALSE, "high")
    <3>1. /\ Stages(kn, es)[9] = {Entry(c[2], c[1], "exact_equivalent", FALSE, "high") : c \in CanonicalOf}
          /\ Stages(kn, es)[10] = {Entry(c[1], c[2], "exact_equivalent", FALSE, "high") : c \in CanonicalOf}
      BY DEF Stages
    <3>2. CASE m = 9
      BY <3>1, <3>2
    <3>3. CASE m = 10
      BY <3>1, <3>3
    <3> QED
      BY <1>8, <3>2, <3>3
  <2>2. c = <<c[1], c[2]>>
    BY LegacyPairs
  <2>3. KindOf[m] = 6
    BY <1>8 DEF KindOf
  <2>4. c \in {k, <<k[2], k[1]>>} /\ r.via = "exact_equivalent" /\ r.swap = FALSE /\ r.conf = "high"
    BY <2>1, <2>2 DEF Entry
  <2> QED
    BY <2>3, <2>4, ReasonAlias
<1>9. CASE m \in {11, 12}
  <2>1. PICK c \in InverseOf : \/ <<k, r>> = Entry(c[1], c[2], "inverse_equivalent", TRUE, "high")
                               \/ <<k, r>> = Entry(c[2], c[1], "inverse_equivalent", TRUE, "high")
    <3>1. /\ Stages(kn, es)[11] = {Entry(i[1], i[2], "inverse_equivalent", TRUE, "high") : i \in InverseOf}
          /\ Stages(kn, es)[12] = {Entry(i[2], i[1], "inverse_equivalent", TRUE, "high") : i \in InverseOf}
      BY DEF Stages
    <3>2. CASE m = 11
      BY <3>1, <3>2
    <3>3. CASE m = 12
      BY <3>1, <3>3
    <3> QED
      BY <1>9, <3>2, <3>3
  <2>2. c = <<c[1], c[2]>>
    BY LegacyPairs
  <2>3. KindOf[m] = 7
    BY <1>9 DEF KindOf
  <2>4. c \in {k, <<k[2], k[1]>>} /\ r.via = "inverse_equivalent" /\ r.swap = TRUE /\ r.conf = "high"
    BY <2>1, <2>2 DEF Entry
  <2> QED
    BY <2>3, <2>4, ReasonInverse
<1> QED
  BY <1>1, <1>2, <1>4, <1>5, <1>6, <1>7, <1>8, <1>9

\* Where there is a reason of some kind, a statement of that kind selects a row.
LEMMA ReasonIsSelected ==
  ASSUME NEW k \in Pair, NEW r \in Row, NEW kn, NEW es \in SUBSET Edge,
         NEW n \in 1..Len(Precedence), Reason(n, k, r, kn, es)
  PROVE  \E m \in 1..LastStage, q \in Row : KindOf[m] = n /\ <<k, q>> \in Stages(kn, es)[m]
<1>1. n \in {1, 2, 3, 4, 5, 6, 7}
  BY DEF Precedence
<1>2. k = <<k[1], k[2]>> /\ k[1] \in Pred /\ k[2] \in Pred
  BY DEF Pair
<1>3. ASSUME NEW m \in 1..LastStage, KindOf[m] = n, NEW via \in {"self", "exact_equivalent",
               "inverse_equivalent", "sub_property_of", "close_match"},
             NEW swap \in BOOLEAN, NEW conf \in Confidence,
             Entry(k[1], k[2], via, swap, conf) \in Stages(kn, es)[m]
      PROVE  \E o \in 1..LastStage, q \in Row : KindOf[o] = n /\ <<k, q>> \in Stages(kn, es)[o]
  <2>1. Entry(k[1], k[2], via, swap, conf) = <<k, [via |-> via, swap |-> swap, conf |-> conf]>>
    BY <1>2 DEF Entry
  <2>2. [via |-> via, swap |-> swap, conf |-> conf] \in Row
    BY DEF Row
  <2> QED
    BY <1>3, <2>1, <2>2
<1>4. 1..LastStage = {1, 2, 3, 4, 5, 6, 7, 8, 9, 10, 11, 12} /\ "high" \in Confidence
  BY DEF LastStage, Confidence
<1>5. /\ KindOf[1] = 1 /\ KindOf[2] = 2 /\ KindOf[3] = 2 /\ KindOf[4] = 3 /\ KindOf[5] = 3
      /\ KindOf[6] = 4 /\ KindOf[7] = 5 /\ KindOf[8] = 5 /\ KindOf[9] = 6 /\ KindOf[10] = 6
      /\ KindOf[11] = 7 /\ KindOf[12] = 7
  BY DEF KindOf
<1>6. \A e \in es : e.src \in Pred /\ e.tgt \in Pred /\ e.conf \in Confidence /\ e.src # e.tgt
  BY EdgesAreAlignments, EdgesHaveTwoEnds
<1>7. CASE n = 1
  <2>1. k[1] = k[2] /\ k[1] \in kn
    BY <1>7, ReasonSelf
  <2>2. Entry(k[1], k[2], "self", FALSE, "high") \in Stages(kn, es)[1]
    BY <2>1 DEF Stages
  <2> QED
    BY <1>3, <1>4, <1>5, <1>7, <2>2
<1>8. CASE n = 2
  <2>1. PICK e \in es : e.rel = "exact_equivalent" /\ {e.src, e.tgt} = {k[1], k[2]}
    <3>1. Precedence[2] = "exact_equivalent"
      BY DEF Precedence
    <3>2. /\ r.via = Precedence[2]
          /\ \E e \in es : e.rel = r.via /\ e.conf = r.conf /\ Joins(e, k)
      BY <1>8, ReasonEdge
    <3>3. PICK e \in es : e.rel = Precedence[2] /\ e.conf = r.conf /\ Joins(e, k)
      BY <3>2
    <3> QED
      BY <3>1, <3>3 DEF Joins
  <2>2. \/ Entry(k[1], k[2], "exact_equivalent", FALSE, e.conf) \in Stages(kn, es)[2]
        \/ Entry(k[1], k[2], "exact_equivalent", FALSE, e.conf) \in Stages(kn, es)[3]
    <3>1. (k[1] = e.src /\ k[2] = e.tgt) \/ (k[1] = e.tgt /\ k[2] = e.src)
      BY <1>6, <2>1
    <3>3. /\ Stages(kn, es)[2] = Forth(es, "exact_equivalent", FALSE)
          /\ Stages(kn, es)[3] = Back(es, "exact_equivalent", FALSE)
      BY DEF Stages
    <3> QED
      BY <2>1, <3>1, <3>3 DEF Forth, Back
  <2> QED
    BY <1>3, <1>4, <1>5, <1>6, <1>8, <2>2
<1>9. CASE n = 3
  <2>1. PICK e \in es : e.rel = "inverse_equivalent" /\ {e.src, e.tgt} = {k[1], k[2]}
    <3>1. Precedence[3] = "inverse_equivalent"
      BY DEF Precedence
    <3>2. /\ r.via = Precedence[3]
          /\ \E e \in es : e.rel = r.via /\ e.conf = r.conf /\ Joins(e, k)
      BY <1>9, ReasonEdge
    <3>3. PICK e \in es : e.rel = Precedence[3] /\ e.conf = r.conf /\ Joins(e, k)
      BY <3>2
    <3> QED
      BY <3>1, <3>3 DEF Joins
  <2>2. \/ Entry(k[1], k[2], "inverse_equivalent", TRUE, e.conf) \in Stages(kn, es)[4]
        \/ Entry(k[1], k[2], "inverse_equivalent", TRUE, e.conf) \in Stages(kn, es)[5]
    <3>1. (k[1] = e.src /\ k[2] = e.tgt) \/ (k[1] = e.tgt /\ k[2] = e.src)
      BY <1>6, <2>1
    <3>3. /\ Stages(kn, es)[4] = Forth(es, "inverse_equivalent", TRUE)
          /\ Stages(kn, es)[5] = Back(es, "inverse_equivalent", TRUE)
      BY DEF Stages
    <3> QED
      BY <2>1, <3>1, <3>3 DEF Forth, Back
  <2> QED
    BY <1>3, <1>4, <1>5, <1>6, <1>9, <2>2
<1>10. CASE n = 4
  <2>1. PICK e \in es : e.rel = "sub_property_of" /\ e.src = k[2] /\ e.tgt = k[1]
    <3>1. Precedence[4] = "sub_property_of"
      BY DEF Precedence
    <3>2. /\ r.via = Precedence[4]
          /\ \E e \in es : e.rel = r.via /\ e.conf = r.conf /\ Joins(e, k)
      BY <1>10, ReasonEdge
    <3>3. PICK e \in es : e.rel = Precedence[4] /\ e.conf = r.conf /\ Joins(e, k)
      BY <3>2
    <3> QED
      BY <3>1, <3>3 DEF Joins
  <2>2. Entry(k[1], k[2], "sub_property_of", FALSE, e.conf) \in Stages(kn, es)[6]
    BY <2>1 DEF Back, Stages
  <2> QED
    BY <1>3, <1>4, <1>5, <1>6, <1>10, <2>2
<1>11. CASE n = 5
  <2>1. PICK e \in es : e.rel = "close_match" /\ e.conf = "high" /\ {e.src, e.tgt} = {k[1], k[2]}
    <3>1. Precedence[5] = "close_match"
      BY DEF Precedence
    <3>2. /\ r.via = Precedence[5]
          /\ \E e \in es : e.rel = r.via /\ e.conf = r.conf /\ Joins(e, k)
      BY <1>11, ReasonEdge
    <3>3. PICK e \in es : e.rel = Precedence[5] /\ e.conf = r.conf /\ Joins(e, k)
      BY <3>2
    <3> QED
      BY <3>1, <3>3 DEF Joins
  <2>2. \/ Entry(k[1], k[2], "close_match", FALSE, e.conf) \in Stages(kn, es)[7]
        \/ Entry(k[1], k[2], "close_match", FALSE, e.conf) \in Stages(kn, es)[8]
    <3>1. (k[1] = e.src /\ k[2] = e.tgt) \/ (k[1] = e.tgt /\ k[2] = e.src)
      BY <1>6, <2>1
    <3>2. e \in High(es)
      BY <2>1 DEF High
    <3>3. /\ Stages(kn, es)[7] = Forth(High(es), "close_match", FALSE)
          /\ Stages(kn, es)[8] = Back(High(es), "close_match", FALSE)
      BY DEF Stages
    <3> QED
      BY <2>1, <3>1, <3>2, <3>3 DEF Forth, Back
  <2> QED
    BY <1>3, <1>4, <1>5, <1>6, <1>11, <2>2
<1>12. CASE n = 6
  <2>1. PICK c \in CanonicalOf : c \in {k, <<k[2], k[1]>>}
    BY <1>12, ReasonAlias
  <2>2. (c[1] = k[1] /\ c[2] = k[2]) \/ (c[1] = k[2] /\ c[2] = k[1])
    BY <1>2, <2>1
  <2>3. \/ Entry(k[1], k[2], "exact_equivalent", FALSE, "high") \in Stages(kn, es)[9]
        \/ Entry(k[1], k[2], "exact_equivalent", FALSE, "high") \in Stages(kn, es)[10]
    BY <2>1, <2>2 DEF Stages
  <2> QED
    BY <1>3, <1>4, <1>5, <1>12, <2>3
<1>13. CASE n = 7
  <2>1. PICK c \in InverseOf : c \in {k, <<k[2], k[1]>>}
    BY <1>13, ReasonInverse
  <2>2. (c[1] = k[1] /\ c[2] = k[2]) \/ (c[1] = k[2] /\ c[2] = k[1])
    BY <1>2, <2>1
  <2>3. \/ Entry(k[1], k[2], "inverse_equivalent", TRUE, "high") \in Stages(kn, es)[11]
        \/ Entry(k[1], k[2], "inverse_equivalent", TRUE, "high") \in Stages(kn, es)[12]
    BY <2>1, <2>2 DEF Stages
  <2> QED
    BY <1>3, <1>4, <1>5, <1>13, <2>3
<1> QED
  BY <1>1, <1>7, <1>8, <1>9, <1>10, <1>11, <1>12, <1>13

-----------------------------------------------------------------------------
(* Rebuilds that nobody overlaps *)

\* The row of a pair as session t would commit it.
RowIn(t, k) == IF holder[k] = t THEN pending[k] ELSE closure[k]

\* No statement before the m-th had a row for the pair from edges open throughout.
Before(t, m, k) ==
  \A n \in 1..m - 1, q \in Row : <<k, q>> \notin Stages(saw[t].preds, saw[t].always)[n]

\* What a rebuild is said to have seen includes and is included in what is there.
SeesChanges(t) ==
  t \in running =>
    saw[t].preds \subseteq known /\ saw[t].always \subseteq open /\ open \subseteq saw[t].ever

\* The delete has marked every row it has not still to treat.
Deleting(t) ==
  /\ \A k \in Pair : holder[k] = t => pending[k] = NoRow
  /\ \A k \in Pair : holder[k] # t /\ closure[k] # NoRow => <<k, closure[k]>> \in todo[t]

\* A row there is comes from the first statement that must have one for the
\* pair, or from an earlier one that may; a pair without a row has none from the
\* edges open throughout, except what is still to be treated.
Inserting(t) ==
  /\ todo[t] \subseteq Stages(known, saw[t].ever)[stage[t]]
  /\ \A k \in Pair : RowIn(t, k) # NoRow =>
       \E m \in 1..stage[t] :
         <<k, RowIn(t, k)>> \in Stages(known, saw[t].ever)[m] /\ Before(t, m, k)
  /\ \A k \in Pair : RowIn(t, k) = NoRow =>
       /\ Before(t, stage[t], k)
       /\ \A q \in Row :
            <<k, q>> \in Stages(saw[t].preds, saw[t].always)[stage[t]] => <<k, q>> \in todo[t]

Lone(t) ==
  t \in running /\ alone[t] =>
    /\ running = {t}
    /\ stage[t] = 0 => Deleting(t)
    /\ stage[t] # 0 => Inserting(t)

LoneInv == \A t \in Rebuilder : SeesChanges(t) /\ Lone(t)

\* A table whose pairs have the rows that the twelve statements put there is
\* what the documented meaning of the relations calls for.
LEMMA LastRowsAreRight ==
  ASSUME NEW k \in Pair, NEW r \in Row \cup {NoRow}, NEW kn, NEW kn1,
         NEW es \in SUBSET Edge, NEW es1 \in SUBSET Edge,
         r # NoRow => \E m \in 1..LastStage :
           /\ <<k, r>> \in Stages(kn1, es1)[m]
           /\ \A n \in 1..m - 1, q \in Row : <<k, q>> \notin Stages(kn, es)[n],
         r = NoRow => \A n \in 1..LastStage, q \in Row : <<k, q>> \notin Stages(kn, es)[n]
  PROVE  Right(k, r, kn, kn1, es, es1)
<1> DEFINE kinds == {n \in 1..Len(Precedence) : \E q \in Row : Reason(n, k, q, kn, es)}
<1>1. ASSUME NEW n \in kinds
      PROVE  \E m \in 1..LastStage, q \in Row : KindOf[m] = n /\ <<k, q>> \in Stages(kn, es)[m]
  <2>1. PICK q \in Row : Reason(n, k, q, kn, es)
    OBVIOUS
  <2> QED
    BY <2>1, ReasonIsSelected
<1>2. CASE r = NoRow
  <2>1. kinds = {}
    BY <1>1, <1>2
  <2> QED
    BY <1>2, <2>1 DEF Right
<1>3. CASE r # NoRow
  <2>1. PICK m \in 1..LastStage :
          /\ <<k, r>> \in Stages(kn1, es1)[m]
          /\ \A n \in 1..m - 1, q \in Row : <<k, q>> \notin Stages(kn, es)[n]
    BY <1>3
  <2>2. r \in Row /\ KindOf[m] \in 1..Len(Precedence)
    BY <1>3, KindsOfStages
  <2>3. Reason(KindOf[m], k, r, kn1, es1)
    BY <2>1, <2>2, SelectedHasReason
  <2>4. ASSUME NEW n \in kinds
        PROVE  KindOf[m] <= n
    <3>1. PICK o \in 1..LastStage, q \in Row : KindOf[o] = n /\ <<k, q>> \in Stages(kn, es)[o]
      BY <1>1
    <3>2. ~ (o \in 1..m - 1)
      BY <2>1, <3>1
    <3>3. m <= o
      <4>1. m \in 1..12 /\ o \in 1..12
        BY <2>1, <3>1 DEF LastStage
      <4> QED
        BY <3>2, <4>1
    <3> QED
      BY <3>1, <3>3, KindsOfStages
  <2> HIDE DEF kinds
  <2>5. \E n \in 1..Len(Precedence) : Reason(n, k, r, kn1, es1) /\ \A o \in kinds : n <= o
    BY <2>2, <2>3, <2>4
  <2> QED
    BY <1>3, <2>5 DEF Right, kinds
<1> QED
  BY <1>2, <1>3

\* A change of the edges keeps what a rebuild has done right for what it sees.
LEMMA LoneBesideChanges ==
  ASSUME TypeOK, LoneInv, NEW t \in Rebuilder, NEW e \in Edge, Register(e) \/ Retract(e)
  PROVE  SeesChanges(t)' /\ Lone(t)'
<1> USE DEF TypeOK
<1>1. /\ known \subseteq known' /\ UNCHANGED <<table, session, alone>>
      /\ Seen(open') /\ known' \subseteq Pred /\ open' \subseteq Edge
  BY EdgesAreAlignments DEF Register, Retract
<1>2. SeesChanges(t) /\ Lone(t)
  BY DEF LoneInv
<1>3. ASSUME t \in running
      PROVE  /\ saw'[t].preds = saw[t].preds
             /\ saw'[t].always = saw[t].always \cap open'
             /\ saw'[t].ever = saw[t].ever \cup open'
  BY <1>1, <1>3 DEF Seen
<1>4. SeesChanges(t)'
  <2> SUFFICES ASSUME t \in running
               PROVE  /\ saw'[t].preds \subseteq known' /\ saw'[t].always \subseteq open'
                      /\ open' \subseteq saw'[t].ever
    BY <1>1 DEF SeesChanges, session
  <2> QED
    BY <1>1, <1>2, <1>3 DEF SeesChanges
<1>5. ASSUME t \in running, alone[t], stage[t] # 0
      PROVE  Inserting(t)'
  <2>1. Inserting(t)
    BY <1>2, <1>5 DEF Lone
  <2>2. UNCHANGED <<closure, holder, pending, todo, stage>>
    BY <1>1 DEF table, session
  <2>3. stage[t] \in 1..LastStage
    BY <1>5 DEF LastStage
  <2>4. \A m \in 1..LastStage :
          /\ Stages(known, saw[t].ever)[m] \subseteq Stages(known', saw'[t].ever)[m]
          /\ Stages(saw'[t].preds, saw'[t].always)[m] \subseteq Stages(saw[t].preds, saw[t].always)[m]
    <3>1. /\ saw[t].ever \subseteq saw'[t].ever /\ known \subseteq known'
          /\ saw'[t].always \subseteq saw[t].always /\ saw'[t].preds \subseteq saw[t].preds
      BY <1>1, <1>3, <1>5
    <3>2. ASSUME NEW m \in 1..LastStage
          PROVE  /\ Stages(known, saw[t].ever)[m] \subseteq Stages(known', saw'[t].ever)[m]
                 /\ Stages(saw'[t].preds, saw'[t].always)[m] \subseteq Stages(saw[t].preds, saw[t].always)[m]
      <4>1. PICK ev, ev1, kn, kn1 : ev = saw[t].ever /\ ev1 = saw'[t].ever /\ kn = known /\ kn1 = known'
        OBVIOUS
      <4>2. PICK al, al1, pr, pr1 : /\ al = saw[t].always /\ al1 = saw'[t].always
                                    /\ pr = saw[t].preds /\ pr1 = saw'[t].preds
        OBVIOUS
      <4>3. kn \subseteq kn1 /\ ev \subseteq ev1 /\ pr1 \subseteq pr /\ al1 \subseteq al
        BY <3>1, <4>1, <4>2
      <4>4. Stages(kn, ev)[m] \subseteq Stages(kn1, ev1)[m]
        BY <4>3, StagesGrow, Zenon
      <4>5. Stages(pr1, al1)[m] \subseteq Stages(pr, al)[m]
        BY <4>3, StagesGrow, Zenon
      <4> QED
        BY <4>1, <4>2, <4>4, <4>5
    <3> QED
      BY <3>2
  <2>5. ASSUME NEW k \in Pair, NEW m \in 1..LastStage, Before(t, m, k)
        PROVE  \A n \in 1..m - 1, q \in Row : <<k, q>> \notin Stages(saw'[t].preds, saw'[t].always)[n]
    <3>1. \A n \in 1..m - 1 : n \in 1..LastStage
      BY DEF LastStage
    <3> QED
      BY <2>4, <2>5, <3>1 DEF Before
  <2>6. \A k \in Pair : RowIn(t, k)' = RowIn(t, k)
    BY <2>2 DEF RowIn
  <2>7. todo'[t] \subseteq Stages(known', saw'[t].ever)[stage'[t]]
    BY <2>1, <2>2, <2>3, <2>4 DEF Inserting
  <2>8. ASSUME NEW k \in Pair, RowIn(t, k) # NoRow
        PROVE  \E m \in 1..stage'[t] :
                 <<k, RowIn(t, k)'>> \in Stages(known', saw'[t].ever)[m] /\ Before(t, m, k)'
    <3>1. PICK m \in 1..stage[t] : <<k, RowIn(t, k)>> \in Stages(known, saw[t].ever)[m] /\ Before(t, m, k)
      BY <2>1, <2>8 DEF Inserting
    <3>2. m \in 1..LastStage
      BY <2>3 DEF LastStage
    <3> QED
      BY <2>2, <2>4, <2>5, <2>6, <3>1, <3>2 DEF Before
  <2>9. ASSUME NEW k \in Pair, RowIn(t, k) = NoRow
        PROVE  /\ Before(t, stage[t], k)'
               /\ \A q \in Row :
                    <<k, q>> \in Stages(saw'[t].preds, saw'[t].always)[stage'[t]] => <<k, q>> \in todo'[t]
    <3>1. Before(t, stage[t], k)
      BY <2>1, <2>9 DEF Inserting
    <3>2. Before(t, stage[t], k)'
      BY <2>2, <2>3, <2>5, <3>1 DEF Before
    <3> QED
      BY <2>1, <2>2, <2>3, <2>4, <2>9, <3>2 DEF Inserting
  <2> QED
    BY <2>2, <2>6, <2>7, <2>8, <2>9 DEF Inserting
<1>6. Lone(t)'
  <2>1. UNCHANGED <<running, stage, alone, closure, holder, pending, todo>>
    BY <1>1 DEF table, session
  <2>2. Deleting(t) => Deleting(t)'
    BY <2>1 DEF Deleting
  <2> QED
    BY <1>2, <1>5, <2>1, <2>2 DEF Lone
<1> QED
  BY <1>4, <1>6

\* A lone rebuild's next statement begins where the one before left off.
LEMMA LoneNextStatement ==
  ASSUME TypeOK, LoneInv, NEW t \in Rebuilder, NextStatement(t), alone[t]
  PROVE  Lone(t)'
<1> USE DEF TypeOK
<1> DEFINE always(n) == Stages(saw[t].preds, saw[t].always)[n]
           ever(n) == Stages(known, saw[t].ever)[n]
<1>1. /\ t \in running /\ todo[t] = {} /\ stage'[t] = stage[t] + 1
      /\ stage[t] \in 0..LastStage - 1 /\ stage'[t] # 0
      /\ todo'[t] = Stages(known, open)[stage[t] + 1]
      /\ UNCHANGED <<known, open, closure, holder, pending, running, alone, saw>>
  BY DEF NextStatement, edges, table, ghosts, LastStage
<1>2. SeesChanges(t) /\ Lone(t)
  BY DEF LoneInv
<1>3. stage[t] + 1 \in 1..LastStage
  BY <1>1 DEF LastStage
<1>4. always(stage[t] + 1) \subseteq todo'[t] /\ todo'[t] \subseteq ever(stage[t] + 1)
  <2>1. /\ saw[t].preds \subseteq known /\ saw[t].always \subseteq open
        /\ open \subseteq saw[t].ever /\ known \subseteq known
    BY <1>1, <1>2 DEF SeesChanges
  <2>2. PICK kn, es, pr, al, ev, n : /\ kn = known /\ es = open /\ pr = saw[t].preds
                                     /\ al = saw[t].always /\ ev = saw[t].ever /\ n = stage[t] + 1
    OBVIOUS
  <2>3. pr \subseteq kn /\ al \subseteq es /\ es \subseteq ev /\ kn \subseteq kn /\ n \in 1..LastStage
    BY <1>3, <2>1, <2>2
  <2>4. Stages(pr, al)[n] \subseteq Stages(kn, es)[n] /\ Stages(kn, es)[n] \subseteq Stages(kn, ev)[n]
    BY <2>3, StagesGrow, Zenon
  <2> QED
    BY <1>1, <2>2, <2>4
<1>5. ASSUME NEW k \in Pair
      PROVE  /\ RowIn(t, k)' = RowIn(t, k)
             /\ RowIn(t, k) # NoRow =>
                  \E m \in 1..stage[t] : <<k, RowIn(t, k)>> \in ever(m) /\ Before(t, m, k)
             /\ RowIn(t, k) = NoRow => \A n \in 1..stage[t], q \in Row : <<k, q>> \notin always(n)
  <2>1. RowIn(t, k)' = RowIn(t, k)
    BY <1>1 DEF RowIn
  <2>2. CASE stage[t] = 0
    <3>1. Deleting(t)
      BY <1>1, <1>2, <2>2 DEF Lone
    <3>2. RowIn(t, k) = NoRow
      BY <1>1, <3>1 DEF Deleting, RowIn
    <3> QED
      BY <2>1, <2>2, <3>2
  <2>3. CASE stage[t] # 0
    <3>1. Inserting(t)
      BY <1>1, <1>2, <2>3 DEF Lone
    <3>2. ASSUME RowIn(t, k) = NoRow, NEW n \in 1..stage[t], NEW q \in Row
          PROVE  <<k, q>> \notin always(n)
      <4>1. CASE n = stage[t]
        BY <1>1, <3>1, <3>2, <4>1 DEF Inserting
      <4>2. CASE n # stage[t]
        <5>1. n \in 1..stage[t] - 1
          BY <1>1, <4>2 DEF LastStage
        <5> QED
          BY <3>1, <3>2, <5>1 DEF Inserting, Before
      <4> QED
        BY <4>1, <4>2
    <3> QED
      BY <2>1, <3>1, <3>2 DEF Inserting
  <2> QED
    BY <2>2, <2>3
<1>6. \A k, m : Before(t, m, k)' <=> Before(t, m, k)
  BY <1>1 DEF Before
<1>7. ASSUME NEW k \in Pair, RowIn(t, k) # NoRow
      PROVE  \E m \in 1..stage'[t] : <<k, RowIn(t, k)>> \in ever(m) /\ Before(t, m, k)
  <2>1. PICK m \in 1..stage[t] : <<k, RowIn(t, k)>> \in ever(m) /\ Before(t, m, k)
    BY <1>5, <1>7
  <2>2. m \in 1..stage'[t]
    BY <1>1, <2>1 DEF LastStage
  <2> QED
    BY <2>1, <2>2
<1>8. ASSUME NEW k \in Pair, RowIn(t, k) = NoRow
      PROVE  Before(t, stage[t] + 1, k)
  <2>1. (stage[t] + 1) - 1 = stage[t]
    BY <1>1 DEF LastStage
  <2>2. \A n \in 1..stage[t], q \in Row : <<k, q>> \notin always(n)
    BY <1>5, <1>8
  <2> QED
    BY <2>1, <2>2 DEF Before
<1>9. Inserting(t)'
  BY <1>1, <1>4, <1>5, <1>6, <1>7, <1>8 DEF Inserting
<1> QED
  BY <1>1, <1>2, <1>9 DEF Lone

\* A lone rebuild treats its rows, in whatever order.
LEMMA LoneTreatRow ==
  ASSUME TypeOK, Holders, LoneInv, NEW t \in Rebuilder, NEW e \in todo[t], TreatRow(t, e), alone[t]
  PROVE  Lone(t)'
<1> USE DEF TypeOK
<1>1. t \in running /\ running = {t} /\ Lone(t)
  BY DEF Holders, LoneInv, Lone
<1>2. e \in Pair \X Row /\ e[1] \in Pair /\ e[2] \in Row /\ e = <<e[1], e[2]>> /\ e[2] # NoRow
  BY Nobody
<1>3. ~ Blocked(t, e[1])
  BY <1>1, <1>2 DEF Blocked, Holders
<1>4. /\ todo'[t] = todo[t] \ {e}
      /\ UNCHANGED <<known, open, closure, running, stage, alone, saw>>
      /\ IF stage[t] = 0 THEN DeleteRow(t, e) ELSE InsertRow(t, e)
  BY <1>3 DEF TreatRow, edges, ghosts
<1>5. CASE stage[t] = 0
  <2>1. DeleteRow(t, e) /\ Deleting(t)
    BY <1>1, <1>4, <1>5 DEF Lone
  <2>2. /\ \A k \in Pair : k # e[1] => holder'[k] = holder[k] /\ pending'[k] = pending[k]
        /\ holder'[e[1]] = t /\ pending'[e[1]] = NoRow
    BY <1>2, <2>1 DEF DeleteRow
  <2>3. \A k \in Pair : holder'[k] = t => pending'[k] = NoRow
    BY <2>1, <2>2 DEF Deleting
  <2>4. ASSUME NEW k \in Pair, holder'[k] # t, closure[k] # NoRow
        PROVE  <<k, closure[k]>> \in todo'[t]
    <3>1. k # e[1] /\ holder[k] # t
      BY <2>2, <2>4
    <3>2. <<k, closure[k]>> \in todo[t]
      BY <2>1, <2>4, <3>1 DEF Deleting
    <3>3. <<k, closure[k]>> # e
      BY <1>2, <3>1
    <3> QED
      BY <1>4, <3>2, <3>3
  <2>5. Deleting(t)'
    BY <1>4, <2>3, <2>4 DEF Deleting
  <2> QED
    BY <1>1, <1>4, <1>5, <2>5 DEF Lone
<1>6. CASE stage[t] # 0
  <2>1. InsertRow(t, e) /\ Inserting(t)
    BY <1>1, <1>4, <1>6 DEF Lone
  <2>2. \A k \in Pair : k # e[1] \/ RowIn(t, k) # NoRow => RowIn(t, k)' = RowIn(t, k)
    BY <1>2, <1>4, <2>1 DEF InsertRow, RowIn
  <2>3. RowIn(t, e[1]) = NoRow => RowIn(t, e[1])' = e[2]
    BY <1>2, <1>4, <2>1 DEF InsertRow, RowIn
  <2>4. \A k, m : Before(t, m, k)' <=> Before(t, m, k)
    BY <1>4 DEF Before
  <2>5. stage[t] \in 1..stage[t]
    BY <1>6 DEF LastStage
  <2>6. ASSUME NEW k \in Pair, RowIn(t, k)' # NoRow
        PROVE  \E m \in 1..stage[t] :
                 <<k, RowIn(t, k)'>> \in Stages(known, saw[t].ever)[m] /\ Before(t, m, k)
    <3>1. CASE RowIn(t, k) # NoRow
      <4>1. RowIn(t, k)' = RowIn(t, k)
        BY <2>2, <3>1
      <4> QED
        BY <2>1, <3>1, <4>1 DEF Inserting
    <3>2. CASE RowIn(t, k) = NoRow
      <4>1. k = e[1] /\ RowIn(t, k)' = e[2]
        BY <2>2, <2>3, <2>6, <3>2
      <4>2. Before(t, stage[t], k) /\ e \in Stages(known, saw[t].ever)[stage[t]]
        BY <2>1, <3>2 DEF Inserting
      <4> QED
        BY <1>2, <2>5, <4>1, <4>2
    <3> QED
      BY <3>1, <3>2
  <2>7. ASSUME NEW k \in Pair, RowIn(t, k)' = NoRow
        PROVE  /\ Before(t, stage[t], k)
               /\ \A q \in Row :
                    <<k, q>> \in Stages(saw[t].preds, saw[t].always)[stage[t]] => <<k, q>> \in todo'[t]
    <3>1. RowIn(t, k) = NoRow /\ k # e[1]
      BY <1>2, <2>2, <2>3, <2>7
    <3>2. \A q : <<k, q>> # e
      BY <1>2, <3>1
    <3> QED
      BY <1>4, <2>1, <3>1, <3>2 DEF Inserting
  <2>8. todo'[t] \subseteq Stages(known, saw[t].ever)[stage[t]]
    BY <1>4, <2>1 DEF Inserting
  <2>9. Inserting(t)'
    BY <1>4, <2>4, <2>6, <2>7, <2>8 DEF Inserting
  <2> QED
    BY <1>1, <1>4, <1>6, <2>9 DEF Lone
<1> QED
  BY <1>5, <1>6

LEMMA LoneInvariance == Spec => []LoneInv
<1>1. Init => LoneInv
  BY DEF Init, LoneInv, SeesChanges, Lone
<1>2. TypeOK /\ Holders /\ LoneInv /\ [Next]_vars => LoneInv'
  <2> SUFFICES ASSUME TypeOK, Holders, LoneInv, [Next]_vars, NEW t \in Rebuilder
               PROVE  SeesChanges(t)' /\ Lone(t)'
    BY DEF LoneInv
  <2>1. SeesChanges(t) /\ Lone(t)
    BY DEF LoneInv
  <2>2. ASSUME NEW e \in Edge, Register(e) \/ Retract(e) PROVE SeesChanges(t)' /\ Lone(t)'
    BY <2>2, LoneBesideChanges
  <2>3. ASSUME UNCHANGED <<known, open, saw>>, running' \subseteq running PROVE SeesChanges(t)'
    BY <2>1, <2>3 DEF SeesChanges
  <2>4. CASE Begin(t)
    <3>1. /\ t \in running' /\ saw'[t] = [preds |-> known, always |-> open, ever |-> open]
          /\ UNCHANGED <<known, open, closure, holder, pending>> /\ t \notin running
          /\ running' = running \cup {t} /\ stage'[t] = 0 /\ (alone'[t] <=> running = {})
          /\ todo'[t] = {<<k, closure[k]>> : k \in {p \in Pair : closure[p] # NoRow}}
      BY <2>4 DEF Begin, edges, table, TypeOK
    <3>2. SeesChanges(t)'
      BY <3>1 DEF SeesChanges
    <3>3. \A k \in Pair : holder'[k] # t
      BY <3>1, Nobody DEF Holders
    <3>4. \A k \in Pair : closure'[k] # NoRow => <<k, closure'[k]>> \in todo'[t]
      BY <3>1
    <3>5. Deleting(t)'
      BY <3>3, <3>4 DEF Deleting
    <3> QED
      BY <3>1, <3>2, <3>5 DEF Lone
  <2>5. CASE NextStatement(t)
    <3>1. UNCHANGED <<known, open, saw, running, alone>>
      BY <2>5 DEF NextStatement, edges, ghosts
    <3>2. ~ alone[t] => Lone(t)'
      BY <3>1 DEF Lone
    <3> QED
      BY <2>3, <2>5, <3>1, <3>2, LoneNextStatement
  <2>6. ASSUME NEW e \in todo[t], TreatRow(t, e) PROVE SeesChanges(t)' /\ Lone(t)'
    <3>1. UNCHANGED <<known, open, saw, running, alone>>
      BY <2>6 DEF TreatRow, edges, ghosts
    <3>2. ~ alone[t] => Lone(t)'
      BY <3>1 DEF Lone
    <3> QED
      BY <2>3, <2>6, <3>1, <3>2, LoneTreatRow
  <2>7. ASSUME NEW committed \in BOOLEAN, End(t, committed) PROVE SeesChanges(t)' /\ Lone(t)'
    <3>1. t \notin running'
      BY <2>7 DEF End
    <3> QED
      BY <3>1 DEF SeesChanges, Lone
  <2>8. ASSUME NEW u \in Rebuilder \ {t}, Begin(u) PROVE SeesChanges(t)' /\ Lone(t)'
    <3>1. /\ saw'[t] = saw[t] /\ UNCHANGED <<known, open>> /\ running' = running \cup {u}
          /\ (alone'[t] <=> alone[t] /\ t \notin running)
      BY <2>8 DEF Begin, edges, TypeOK
    <3> QED
      BY <2>1, <3>1 DEF SeesChanges, Lone
  <2>9. ASSUME NEW u \in Rebuilder \ {t}, u \in running,
               UNCHANGED <<known, open>>, saw'[t] = saw[t], alone'[t] = alone[t], running' \subseteq running
        PROVE  SeesChanges(t)' /\ Lone(t)'
    BY <2>1, <2>9 DEF SeesChanges, Lone
  <2>10. ASSUME NEW u \in Rebuilder \ {t}, NextStatement(u) PROVE SeesChanges(t)' /\ Lone(t)'
    BY <2>9, <2>10 DEF NextStatement, edges, ghosts
  <2>11. ASSUME NEW u \in Rebuilder \ {t}, NEW e \in todo[u], TreatRow(u, e)
         PROVE  SeesChanges(t)' /\ Lone(t)'
    BY <2>9, <2>11 DEF TreatRow, edges, ghosts, Holders
  <2>12. ASSUME NEW u \in Rebuilder \ {t}, u \in running, NEW committed \in BOOLEAN, End(u, committed)
         PROVE  SeesChanges(t)' /\ Lone(t)'
    BY <2>9, <2>12 DEF End, edges, TypeOK
  <2>13. CASE UNCHANGED vars
    BY <2>1, <2>13 DEF vars, edges, table, session, ghosts, SeesChanges, Lone, Deleting, Inserting, RowIn, Before
  <2>14. ASSUME NEW u \in Rebuilder, Begin(u) \/ Step(u) \/ Crash(u)
         PROVE  SeesChanges(t)' /\ Lone(t)'
    <3>1. CASE u = t
      BY <2>4, <2>5, <2>6, <2>7, <2>14, <3>1 DEF Step, Commit, CancelDeadlock, Crash
    <3>2. CASE u # t
      BY <2>8, <2>10, <2>11, <2>12, <2>14, <3>2 DEF Step, Commit, CancelDeadlock, Crash
    <3> QED
      BY <3>1, <3>2
  <2> QED
    BY <2>2, <2>13, <2>14 DEF Next
<1> QED
  BY <1>1, <1>2, Typing, HoldersInv, PTL DEF Spec

\* A rebuild that no other one overlaps leaves the table its statements define,
\* for any sessions, predicates, edges and legacy pairs, whatever edges come and
\* go meanwhile (donto_rebuild_predicate_closure, 0051).
THEOREM LoneRebuildsAreFull == Spec => LoneRebuildIsFull
<1>1. TypeOK /\ LoneInv /\ [Next]_vars =>
        [\A t \in Rebuilder : Commit(t) /\ alone[t] => Full(t)]_vars
  <2> SUFFICES ASSUME TypeOK, LoneInv, NEW t \in Rebuilder, Commit(t), alone[t], NEW k \in Pair
               PROVE  Right(k, closure'[k], saw[t].preds, known, saw[t].always, saw[t].ever)
    BY DEF Full
  <2>1. t \in running /\ todo[t] = {} /\ stage[t] = LastStage /\ End(t, TRUE)
    BY DEF Commit
  <2>2. closure'[k] = RowIn(t, k) /\ closure'[k] \in Row \cup {NoRow}
    BY <2>1 DEF End, RowIn, TypeOK
  <2>3. Inserting(t)
    BY <2>1 DEF LoneInv, Lone, LastStage
  <2>4. saw[t].always \in SUBSET Edge /\ saw[t].ever \in SUBSET Edge
    BY DEF TypeOK
  <2>5. closure'[k] # NoRow => \E m \in 1..LastStage :
          /\ <<k, closure'[k]>> \in Stages(known, saw[t].ever)[m]
          /\ \A n \in 1..m - 1, q \in Row : <<k, q>> \notin Stages(saw[t].preds, saw[t].always)[n]
    BY <2>1, <2>2, <2>3 DEF Inserting, Before
  <2>6. ASSUME closure'[k] = NoRow, NEW n \in 1..LastStage, NEW q \in Row
        PROVE  <<k, q>> \notin Stages(saw[t].preds, saw[t].always)[n]
    <3>1. CASE n = LastStage
      BY <2>1, <2>2, <2>3, <2>6, <3>1 DEF Inserting
    <3>2. CASE n # LastStage
      <4>1. n \in 1..LastStage - 1
        BY <3>2 DEF LastStage
      <4> QED
        BY <2>1, <2>2, <2>3, <2>6, <4>1 DEF Inserting, Before
    <3> QED
      BY <3>1, <3>2
  <2>7. PICK r, kn, kn1, es, es1 :
          /\ r = closure'[k] /\ kn = saw[t].preds /\ kn1 = known /\ es = saw[t].always /\ es1 = saw[t].ever
    OBVIOUS
  <2>8. Right(k, r, kn, kn1, es, es1)
    BY <2>2, <2>4, <2>5, <2>6, <2>7, LastRowsAreRight
  <2> QED
    BY <2>7, <2>8
<1> QED
  BY <1>1, Typing, LoneInvariance, PTL DEF Spec, LoneRebuildIsFull
=============================================================================
