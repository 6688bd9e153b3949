---------------------------- MODULE RerunProofs ----------------------------
(***************************************************************************)
(* Proofs about what is begun again after it failed: migrations of the     *)
(* schema, and imports of files.                                           *)
(*                                                                         *)
(* apply_migrations, for any number of processes, connections and          *)
(* migrations, and any faults: one call at a time works, the ledger never  *)
(* runs ahead of the schema, a call that succeeds leaves nothing to be     *)
(* done, and a ledger that is complete ends all redefinition.              *)
(*                                                                         *)
(* An import, for any files that are read right and any number of imports  *)
(* and tries: what is stored is what the file means, once, and nothing     *)
(* else.                                                                   *)
(***************************************************************************)
EXTENDS Migrations, ImportRuns, WellFoundedInduction, TLAPS

\* The first migration is in the list, and the list has an end.
LEMMA Bounds == N \in Nat /\ LedgerAt \in Nat /\ 1 <= LedgerAt /\ LedgerAt <= N
BY LedgerIsAMigration

\* The initial states satisfy every part of the invariant.
LEMMA InvInit == Init => MigrationsInv
<1> USE Bounds, CallsAreBounded, MigrationsDefineFunctions, OwnersAreProcs, ConnName
<1>1. Init => TypeOK
  BY DEF Init, TypeOK, Working, Migration
<1>2. Init => SessionsOK
  BY DEF Init, SessionsOK, Working
<1>3. Init => LedgerIsTrue /\ LedgerRow /\ Prefix /\ FirstInstall
  BY DEF Init, LedgerIsTrue, LedgerRow, LedgerTable, Prefix, FirstInstall, Working, Migration
<1> QED BY <1>1, <1>2, <1>3 DEF MigrationsInv

\* The type invariant is preserved.
LEMMA TypingNext == TypeOK /\ SessionsOK /\ [Next]_vars => TypeOK'
<1> SUFFICES ASSUME TypeOK, SessionsOK, [Next]_vars PROVE TypeOK'
  OBVIOUS
<1> USE Bounds, CallsAreBounded, ConnName DEF TypeOK, Working
<1>1. ASSUME NEW p \in Proc, Get(p) PROVE TypeOK'
  BY <1>1 DEF Get, Goto, database
<1>2. ASSUME NEW p \in Proc, Lock(p) PROVE TypeOK'
  <2>1. conn[p] \in Conn
    BY <1>2 DEF Lock, SessionsOK
  <2>2. held' \in [Conn -> Nat]
    BY <1>2, <2>1 DEF Lock
  <2> QED BY <1>2, <2>2 DEF Lock, Goto, database
<1>3. ASSUME NEW p \in Proc, CheckLedger(p) PROVE TypeOK'
  BY <1>3 DEF CheckLedger, Goto, database, LedgerTable
<1>4. ASSUME NEW p \in Proc, Advance(p) PROVE pc' \in [Proc -> Working \cup {"idle", "lock", "ok", "failed"}] /\ at' \in [Proc -> 1..N]
  BY <1>4 DEF Advance, Goto
<1>5. ASSUME NEW p \in Proc, Skip(p) PROVE TypeOK'
  BY <1>4, <1>5 DEF Skip, database
<1>6. ASSUME NEW p \in Proc, Apply(p) PROVE TypeOK'
  <2>1. at[p] \in Migration
    BY DEF Migration
  <2>2. applied' \subseteq Migration /\ body' \in [Func -> 0..N]
    <3>1. applied' = applied \cup {at[p]}
      BY <1>6 DEF Apply
    <3>2. body' = [f \in Func |-> IF f \in Defines[at[p]] THEN at[p] ELSE body[f]]
      BY <1>6 DEF Apply
    <3>3. at[p] \in 0..N
      BY <2>1 DEF Migration
    <3>4. body' \in [Func -> 0..N]
      BY <3>2, <3>3
    <3> QED BY <2>1, <3>1, <3>4
  <2>3. ledger' \in [Migration -> {"none", "placeholder", "real"}]
    BY <1>6 DEF Apply
  <2> QED BY <1>4, <1>6, <2>2, <2>3 DEF Apply
<1>7. ASSUME NEW p \in Proc, Backfill(p) PROVE TypeOK'
  <2>1. ASSUME at[p] \in Bootstrap PROVE at[p] + 1 \in 1..N /\ at[p] \in Migration
    BY <2>1 DEF Bootstrap, Migration
  <2> QED BY <1>7, <2>1 DEF Backfill, Goto, Migration
<1>8. ASSUME NEW p \in Proc, Unlock(p) PROVE TypeOK'
  <2>1. conn[p] \in Conn
    BY <1>8 DEF Unlock, SessionsOK
  <2>2. held' \in [Conn -> Nat]
    BY <1>8, <2>1 DEF Unlock
  <2> QED BY <1>8, <2>2 DEF Unlock, Goto, database
<1>9. ASSUME NEW p \in Proc, Error(p) PROVE TypeOK'
  BY <1>9 DEF Error, Goto, database
<1>10. ASSUME NEW p \in Proc, Lost(p) PROVE TypeOK'
  BY <1>10 DEF Lost, Goto, database
<1>11. CASE UNCHANGED vars
  BY <1>11 DEF vars, database
<1> QED BY <1>1, <1>2, <1>3, <1>5, <1>6, <1>7, <1>8, <1>9, <1>10, <1>11 DEF Next, Step

\* Sessions stay apart, and only one of them ever holds the lock.
LEMMA SessionsNext == TypeOK /\ SessionsOK /\ [Next]_vars => SessionsOK'
<1> SUFFICES ASSUME TypeOK, SessionsOK, [Next]_vars PROVE SessionsOK'
  OBVIOUS
<1> USE ConnName DEF TypeOK, SessionsOK, Working
<1>1. ASSUME NEW p \in Proc, Get(p) PROVE SessionsOK'
  <2>1. PICK c \in Conn \ InUse : conn' = [conn EXCEPT ![p] = c]
    BY <1>1 DEF Get
  <2>2. conn[p] = NoConn /\ \A q \in Proc : conn[q] # c
    BY <1>1, <2>1 DEF Get, InUse
  <2>3. pc' = [pc EXCEPT ![p] = "lock"] /\ held' = held
    BY <1>1 DEF Get, Goto
  <2> QED BY <2>1, <2>2, <2>3
<1>2. ASSUME NEW p \in Proc, Lock(p) PROVE SessionsOK'
  <2>1. conn[p] \in Conn /\ conn' = conn
    BY <1>2 DEF Lock
  <2>2. \A d \in Conn : d # conn[p] => held[d] = 0
    BY <1>2, <2>1 DEF Lock, Locked
  <2>3. held' = [held EXCEPT ![conn[p]] = held[conn[p]] + 1] /\ held[conn[p]] + 1 > 0
    BY <1>2, <2>1 DEF Lock
  <2>4. pc' = [pc EXCEPT ![p] = "check"] /\ pc[p] = "lock"
    BY <1>2 DEF Lock, Goto
  <2> QED BY <2>1, <2>2, <2>3, <2>4
<1>3. ASSUME NEW p \in Proc, CheckLedger(p) \/ Skip(p) \/ Apply(p) \/ Backfill(p) PROVE SessionsOK'
  <2>1. pc[p] \in Working /\ conn' = conn /\ held' = held
    BY <1>3 DEF CheckLedger, Skip, Apply, Backfill
  <2>2. \A q \in Proc : q # p => pc'[q] = pc[q]
    BY <1>3 DEF CheckLedger, Skip, Apply, Backfill, Advance, Goto
  <2>3. pc'[p] \in Working
    BY <1>3 DEF CheckLedger, Skip, Apply, Backfill, Advance, Goto
  <2> QED BY <2>1, <2>2, <2>3
<1>4. ASSUME NEW p \in Proc, Unlock(p) PROVE SessionsOK'
  <2>1. conn[p] \in Conn /\ conn' = [conn EXCEPT ![p] = NoConn] /\ pc' = [pc EXCEPT ![p] = "ok"]
    BY <1>4 DEF Unlock, Goto
  <2>2. \A q \in Proc : q # p => conn[q] # conn[p]
    BY <2>1
  <2>3. \A d \in Conn : held'[d] > 0 => held[d] > 0
    BY <1>4, <2>1 DEF Unlock
  <2>4. \A d \in Conn : d # conn[p] => held'[d] = held[d]
    BY <1>4, <2>1 DEF Unlock
  <2> QED BY <2>1, <2>2, <2>3, <2>4
<1>5. ASSUME NEW p \in Proc, Error(p) \/ Lost(p) PROVE SessionsOK'
  <2>1. conn[p] \in Conn /\ conn' = [conn EXCEPT ![p] = NoConn] /\ pc' = [pc EXCEPT ![p] = "failed"]
    BY <1>5 DEF Error, Lost, Goto
  <2>2. \A q \in Proc : q # p => conn[q] # conn[p]
    BY <2>1
  <2>3. \A d \in Conn : held'[d] > 0 => held[d] > 0
    BY <1>5, <2>1 DEF Error, Lost
  <2>4. \A d \in Conn : d # conn[p] => held'[d] = held[d]
    BY <1>5, <2>1 DEF Error, Lost
  <2> QED BY <2>1, <2>2, <2>3, <2>4
<1>6. CASE UNCHANGED vars
  BY <1>6 DEF vars
<1> QED BY <1>1, <1>2, <1>3, <1>4, <1>5, <1>6 DEF Next, Step

\* Holding the lock excludes every other call.
LEMMA Exclusion == TypeOK /\ SessionsOK => OneMigrator
<1> SUFFICES ASSUME TypeOK, SessionsOK,
                    NEW p \in Proc, NEW q \in Proc, pc[p] \in Working, pc[q] \in Working
             PROVE p = q
  BY DEF OneMigrator
<1>1. conn[p] \in Conn /\ conn[q] \in Conn
  BY DEF SessionsOK, TypeOK
<1>2. conn[p] = conn[q]
  BY <1>1 DEF SessionsOK
<1> QED BY <1>1, <1>2, ConnName DEF SessionsOK

\* What the loop does to its own place in the list.
LEMMA LoopStep ==
  ASSUME TypeOK, NEW p \in Proc, pc[p] = "loop", Advance(p)
  PROVE  /\ at[p] \in Migration
         /\ \A q \in Proc : q # p => pc'[q] = pc[q] /\ at'[q] = at[q]
         /\ \/ at[p] = N /\ pc'[p] = "backfill"
            \/ at[p] # N /\ pc'[p] = "loop" /\ at'[p] = at[p] + 1
BY Bounds DEF TypeOK, Advance, Goto, Migration

\* Past the ledger's own migration, the table is there.
LEMMA TableIsThere ==
  ASSUME MigrationsInv, NEW p \in Proc, pc[p] = "loop", at[p] > LedgerAt \/ exists[p]
  PROVE  LedgerTable /\ ledger[LedgerAt] = "real"
<1>1. CASE exists[p]
  BY <1>1 DEF MigrationsInv, Prefix, LedgerRow, Working
<1>2. CASE at[p] > LedgerAt
  <2>1. LedgerAt \in 1..(at[p] - 1)
    BY <1>2, Bounds DEF MigrationsInv, TypeOK
  <2> QED BY <2>1 DEF MigrationsInv, Prefix, LedgerRow, LedgerTable
<1> QED BY <1>1, <1>2

\* A skipped migration is applied, an applied one is recorded: the parts of the
\* invariant that speak of the database and the loop.
LEMMA DatabaseNext == MigrationsInv /\ [Next]_vars => (LedgerIsTrue /\ LedgerRow /\ Prefix /\ FirstInstall)'
<1> SUFFICES ASSUME MigrationsInv, [Next]_vars
             PROVE (LedgerIsTrue /\ LedgerRow /\ Prefix /\ FirstInstall)'
  OBVIOUS
<1> USE Bounds DEF MigrationsInv, Working
<1>0. TypeOK /\ SessionsOK /\ OneMigrator /\ LedgerIsTrue /\ LedgerRow /\ Prefix /\ FirstInstall
  BY Exclusion
<1>1. ASSUME NEW p \in Proc, Get(p) \/ Lock(p) \/ Unlock(p) \/ Error(p) \/ Lost(p)
      PROVE (LedgerIsTrue /\ LedgerRow /\ Prefix /\ FirstInstall)'
  <2>1. UNCHANGED <<ledger, applied, exists, at>>
    BY <1>1 DEF Get, Lock, Unlock, Error, Lost, database
  <2>2. \A q \in Proc : pc'[q] = pc[q] \/ pc'[q] \in {"lock", "check", "failed"} \/ (pc[q] = "unlock" /\ pc'[q] = "ok")
    BY <1>0, <1>1 DEF Get, Lock, Unlock, Error, Lost, Goto, TypeOK
  <2>3. LedgerIsTrue' /\ LedgerRow'
    BY <2>1 DEF LedgerIsTrue, LedgerRow, LedgerTable
  <2>4. Prefix'
    BY <2>1, <2>2 DEF Prefix, LedgerTable
  <2>5. FirstInstall'
    BY <2>1, <2>2 DEF FirstInstall
  <2> QED BY <2>3, <2>4, <2>5
<1>2. ASSUME NEW p \in Proc, CheckLedger(p)
      PROVE (LedgerIsTrue /\ LedgerRow /\ Prefix /\ FirstInstall)'
  <2>1. UNCHANGED <<ledger, applied>>
    BY <1>2 DEF CheckLedger, database
  <2>2. pc' = [pc EXCEPT ![p] = "loop"] /\ at' = [at EXCEPT ![p] = 1] /\ exists' = [exists EXCEPT ![p] = LedgerTable]
    BY <1>2 DEF CheckLedger, Goto
  <2>3. pc'[p] = "loop" /\ at'[p] = 1 /\ exists'[p] = LedgerTable
    BY <1>0, <2>2 DEF TypeOK
  <2>4. \A q \in Proc : q # p => pc'[q] = pc[q] /\ at'[q] = at[q] /\ exists'[q] = exists[q]
    BY <1>0, <2>2 DEF TypeOK
  <2>5. LedgerIsTrue' /\ LedgerRow'
    BY <2>1 DEF LedgerIsTrue, LedgerRow, LedgerTable
  <2>6. Prefix'
    <3>1. 1..(at'[p] - 1) = {}
      BY <2>3
    <3> QED BY <2>1, <2>3, <2>4, <3>1 DEF Prefix, LedgerTable
  <2>7. FirstInstall'
    <3>1. ~ exists'[p] => \A k \in Migration : ledger[k] # "real"
      BY <2>3 DEF LedgerRow
    <3>2. Bootstrap \subseteq Migration /\ at'[p]..N \subseteq Migration
      BY <2>3 DEF Bootstrap, Migration
    <3> QED BY <2>1, <2>3, <2>4, <3>1, <3>2 DEF FirstInstall
  <2> QED BY <2>5, <2>6, <2>7
<1>3. ASSUME NEW p \in Proc, Skip(p)
      PROVE (LedgerIsTrue /\ LedgerRow /\ Prefix /\ FirstInstall)'
  <2>1. UNCHANGED <<ledger, applied, exists>> /\ pc[p] = "loop" /\ exists[p] /\ ledger[at[p]] = "real" /\ Advance(p)
    BY <1>3 DEF Skip, Recorded, database
  <2>2. /\ at[p] \in Migration
        /\ \A q \in Proc : q # p => pc'[q] = pc[q] /\ at'[q] = at[q]
        /\ \/ at[p] = N /\ pc'[p] = "backfill"
           \/ at[p] # N /\ pc'[p] = "loop" /\ at'[p] = at[p] + 1
    BY <1>0, <2>1, LoopStep
  <2>3. 1..at[p] \subseteq applied
    <3>1. at[p] \in applied
      BY <2>1, <2>2 DEF LedgerIsTrue
    <3> QED BY <2>1, <2>2, <3>1 DEF Prefix, Migration
  <2>4. LedgerIsTrue' /\ LedgerRow'
    BY <2>1 DEF LedgerIsTrue, LedgerRow, LedgerTable
  <2>5. Prefix'
    <3>1. pc'[p] = "loop" => 1..(at'[p] - 1) \subseteq applied
      BY <2>2, <2>3 DEF Migration
    <3>2. pc'[p] = "backfill" => applied = Migration
      BY <1>0, <2>2, <2>3 DEF Migration, TypeOK
    <3>3. LedgerTable'
      BY <2>1 DEF Prefix, LedgerTable
    <3> QED BY <2>1, <2>2, <3>1, <3>2, <3>3 DEF Prefix
  <2>6. FirstInstall'
    BY <2>1, <2>2 DEF FirstInstall
  <2> QED BY <2>4, <2>5, <2>6
<1>4. ASSUME NEW p \in Proc, Apply(p)
      PROVE (LedgerIsTrue /\ LedgerRow /\ Prefix /\ FirstInstall)'
  <2> DEFINE m == at[p]
  <2>1. /\ pc[p] = "loop" /\ ~ (exists[p] /\ ledger[m] = "real") /\ Advance(p) /\ exists' = exists
        /\ applied' = applied \cup {m}
    BY <1>4 DEF Apply, Recorded
  <2>2. \A k \in Migration : ledger'[k] =
          IF k = m /\ (exists[p] \/ m >= LedgerAt) THEN "real"
          ELSE IF m = LedgerAt /\ k \in Bootstrap /\ ledger[k] = "none" THEN "placeholder"
          ELSE ledger[k]
    BY <1>4 DEF Apply
  <2>3. /\ m \in Migration
        /\ \A q \in Proc : q # p => pc'[q] = pc[q] /\ at'[q] = at[q]
        /\ \/ m = N /\ pc'[p] = "backfill"
           \/ m # N /\ pc'[p] = "loop" /\ at'[p] = m + 1
    BY <1>0, <2>1, LoopStep
  <2>4. 1..m \subseteq applied' /\ 1..(m - 1) \subseteq applied
    <3>1. 1..(m - 1) \subseteq applied
      BY <2>1 DEF Prefix
    <3> QED BY <2>1, <2>3, <3>1 DEF Migration
  <2>5. \A q \in Proc : q # p => pc[q] \notin Working
    BY <1>0, <2>1 DEF OneMigrator
  <2>6. m > LedgerAt \/ exists[p] => LedgerTable /\ ledger[LedgerAt] = "real"
    BY <2>1, TableIsThere
  <2> HIDE DEF m
  <2>7. LedgerIsTrue'
    <3> SUFFICES ASSUME NEW k \in Migration, ledger'[k] # "none" PROVE k \in applied'
      BY DEF LedgerIsTrue
    <3>1. CASE ledger[k] # "none"
      BY <2>1, <3>1 DEF LedgerIsTrue
    <3>2. CASE k = m
      BY <2>1, <3>2
    <3>3. CASE m = LedgerAt /\ k \in Bootstrap
      BY <2>3, <2>4, <3>3 DEF Bootstrap, Migration
    <3> QED BY <2>2, <3>1, <3>2, <3>3
  <2>8. LedgerRow'
    <3>1. CASE m = LedgerAt
      BY <2>1, <2>2, <2>3, <3>1 DEF LedgerRow, LedgerTable
    <3>2. CASE m # LedgerAt
      <4>1. LedgerTable' <=> LedgerTable
        BY <2>1, <3>2 DEF LedgerTable
      <4>2. LedgerTable => ledger'[LedgerAt] = "real"
        BY <2>2, <2>3, <3>2 DEF LedgerRow, Migration
      <4>3. ~ LedgerTable => m < LedgerAt /\ ~ exists[p]
        BY <2>3, <2>6, <3>2 DEF Migration
      <4>4. ~ LedgerTable => \A k \in Migration : ledger'[k] = "none"
        BY <2>2, <2>3, <3>2, <4>3 DEF LedgerRow, Migration
      <4> QED BY <4>1, <4>2, <4>4 DEF LedgerRow
    <3> QED BY <3>1, <3>2
  <2>9. Prefix'
    <3>1. pc'[p] = "loop" => 1..(at'[p] - 1) \subseteq applied'
      BY <2>3, <2>4 DEF Migration
    <3>2. pc'[p] = "backfill" => applied' = Migration
      BY <1>0, <2>1, <2>3, <2>4 DEF Migration, TypeOK
    <3>3. exists'[p] => LedgerTable'
      BY <2>1, <2>6 DEF LedgerTable
    <3>4. ASSUME NEW q \in Proc, q # p, pc'[q] = "ok" PROVE applied' = Migration
      BY <2>1, <2>3, <3>4 DEF Prefix
    <3> QED BY <2>3, <2>5, <3>1, <3>2, <3>3, <3>4 DEF Prefix
  <2>10. FirstInstall'
    <3> SUFFICES ASSUME NEW q \in Proc, pc'[q] = "loop", ~ exists'[q]
                 PROVE /\ \A k \in Bootstrap : ledger'[k] # "real"
                       /\ \A k \in at'[q]..N : ledger'[k] # "real"
      BY DEF FirstInstall
    <3>1. q = p /\ at'[p] = m + 1 /\ ~ exists[p]
      BY <2>1, <2>3, <2>5
    <3>2. \A k \in Bootstrap : ledger[k] # "real" /\ k \in Migration /\ k < LedgerAt
      BY <2>1, <3>1 DEF FirstInstall, Bootstrap, Migration
    <3>3. \A k \in at'[q]..N : ledger[k] # "real" /\ k \in Migration /\ k # m
      BY <2>1, <2>3, <3>1 DEF FirstInstall, Migration, m
    <3> QED BY <2>2, <2>3, <3>1, <3>2, <3>3 DEF Migration
  <2> QED BY <2>7, <2>8, <2>9, <2>10
<1>5. ASSUME NEW p \in Proc, Backfill(p)
      PROVE (LedgerIsTrue /\ LedgerRow /\ Prefix /\ FirstInstall)'
  <2>1. pc[p] = "backfill" /\ UNCHANGED <<exists, applied>>
    BY <1>5 DEF Backfill
  <2>2. \A k \in Migration : ledger'[k] = ledger[k] \/ (ledger[k] = "placeholder" /\ ledger'[k] = "real")
    BY <1>0, <1>5 DEF Backfill, TypeOK, Bootstrap, Migration
  <2>3. \A q \in Proc : q # p => pc'[q] = pc[q] /\ pc[q] # "loop"
    BY <1>0, <1>5, <2>1 DEF Backfill, Goto, OneMigrator, TypeOK
  <2>4. pc'[p] \in {"backfill", "unlock"}
    BY <1>0, <1>5 DEF Backfill, Goto, TypeOK
  <2>5. LedgerTable
    BY <1>0, <2>1 DEF Prefix, LedgerTable, Migration
  <2>6. LedgerIsTrue' /\ LedgerRow'
    BY <2>1, <2>2, <2>5 DEF LedgerIsTrue, LedgerRow, LedgerTable, Migration
  <2>7. Prefix'
    BY <2>1, <2>3, <2>4, <2>5 DEF Prefix, LedgerTable
  <2>8. FirstInstall'
    BY <2>3, <2>4 DEF FirstInstall
  <2> QED BY <2>6, <2>7, <2>8
<1>6. CASE UNCHANGED vars
  BY <1>0, <1>6 DEF vars, database, LedgerIsTrue, LedgerRow, LedgerTable, Prefix, FirstInstall
<1> QED BY <1>1, <1>2, <1>3, <1>4, <1>5, <1>6 DEF Next, Step

\* Every reachable state satisfies the whole invariant.
THEOREM Invariance == Spec => []MigrationsInv
<1>1. MigrationsInv /\ [Next]_vars => MigrationsInv'
  BY TypingNext, SessionsNext, DatabaseNext DEF MigrationsInv
<1> QED BY <1>1, InvInit, PTL DEF Spec

\* At most one call works on the database, whatever sessions die or leak their
\* lock: the advisory lock of apply_migrations does its job.
THEOREM Serialised == Spec => []OneMigrator
<1>1. MigrationsInv => OneMigrator
  BY Exclusion DEF MigrationsInv
<1> QED BY <1>1, Invariance, PTL

\* No crash leaves a row of donto_migration without the DDL it stands for.
THEOREM TrueLedger == Spec => []LedgerIsTrue
<1>1. MigrationsInv => LedgerIsTrue
  BY DEF MigrationsInv
<1> QED BY <1>1, Invariance, PTL

\* A call returns Ok only from a database that has every migration.
THEOREM Complete == Spec => []SuccessIsComplete
<1>1. MigrationsInv => SuccessIsComplete
  BY DEF MigrationsInv, Prefix, SuccessIsComplete
<1> QED BY <1>1, Invariance, PTL

\* A complete ledger ends redefinition: no call, not one that began before the
\* ledger was complete either, replaces the body of a function any more.
THEOREM Settled == Spec => SettledSchema
<1>1. MigrationsInv /\ [Next]_vars => ((\A m \in Migration : ledger[m] = "real") => UNCHANGED body)
  <2> SUFFICES ASSUME MigrationsInv, [Next]_vars, \A m \in Migration : ledger[m] = "real"
               PROVE UNCHANGED body
    OBVIOUS
  <2>1. ASSUME NEW p \in Proc, Apply(p) PROVE FALSE
    <3>1. pc[p] = "loop" /\ at[p] \in Migration /\ at[p] \in at[p]..N
      BY <2>1, Bounds DEF Apply, MigrationsInv, TypeOK, Migration
    <3>2. ~ exists[p]
      BY <2>1, <3>1 DEF Apply, Recorded
    <3> QED BY <3>1, <3>2 DEF MigrationsInv, FirstInstall
  <2> QED BY <2>1 DEF Next, Step, vars, database, Get, Lock, CheckLedger, Skip, Backfill, Unlock, Error, Lost
<1> QED BY <1>1, Invariance, PTL DEF Spec, SettledSchema

-----------------------------------------------------------------------------
(* Imports (ImportRuns).                                                    *)

USE MaxTriesBound, ReadersAreRight

\* Of the sizes there are, one is least.
LEMMA LeastNatural ==
  ASSUME NEW L \in SUBSET Nat, L # {}
  PROVE  \E n \in L : \A m \in L : n <= m
<1>1. PICK n \in L : \A m \in L : ~ <<m, n>> \in OpToRel(<, Nat)
  BY NatLessThanWellFounded, WFMin
<1>2. ASSUME NEW m \in L PROVE n <= m
  <2>1. m \in Nat /\ n \in Nat /\ ~ (m < n)
    BY <1>1 DEF OpToRel
  <2>. QED BY <2>1
<1>. QED BY <1>2

\* What the latest try of run r reads the file as.
Reading(r) == Reads(file, <<r, runs[r].tries - 1>>)

\* The database has taken the call, and nothing takes it back.
Done(one) ==
  /\ ~Unfitting(file.contexts, one)
  /\ Sends(one) =>
       \A i \in DOMAIN one.stmts : \E x \in DOMAIN store : Content(x) = Content(one.stmts[i])
  /\ "ensure" \in DOMAIN one => one.ensure \in DOMAIN contexts

\* Run r has done the first n of its calls and has the others before it.
HasDone(r, n) ==
  /\ Len(runs[r].calls) = Len(Reading(r).calls) - n
  /\ \A k \in 1..Len(runs[r].calls) : runs[r].calls[k] = Reading(r).calls[n + k]
  /\ \A k \in 1..n : Done(Reading(r).calls[k])

Over == {"refused", "strict", "reported"}

RunIsAt(r) ==
  /\ DOMAIN runs[r] = {"pc", "calls", "losses", "fails", "inserted", "tries"}
  /\ runs[r].pc \in {"asked", "failed", "running"} \cup Over
  /\ runs[r].tries \in 0..MaxTries
  /\ runs[r].pc \in {"running"} \cup Over =>
       /\ runs[r].tries # 0
       /\ runs[r].losses = Reading(r).losses /\ runs[r].fails = Reading(r).fails
       /\ runs[r].calls \in Seq(Range(Reading(r).calls))
       /\ \E n \in 0..Len(Reading(r).calls) : HasDone(r, n)
  /\ runs[r].pc \in Over => runs[r].calls = <<>> /\ (runs[r].fails <=> runs[r].pc = "refused")

RunsOK == DOMAIN runs = Run /\ \A r \in Run : RunIsAt(r)

\* Contexts are only added, and none that is curated.
ContextsOK ==
  /\ DOMAIN file.contexts \subseteq DOMAIN contexts
  /\ \A c \in DOMAIN contexts :
       IF c \in DOMAIN file.contexts THEN contexts[c] = file.contexts[c] ELSE contexts[c].mode = "permissive"

\* Every statement is there once, and it is what a reading told first.
StoreOK ==
  /\ store = [x \in DOMAIN store |-> 1]
  /\ \A x \in DOMAIN store : \E t \in Tries : \E y \in Told(Reads(file, t)) : x = Kept(y)

Hangs(c) == c = file.ctx \/ (c \in DOMAIN contexts /\ contexts[c].parent = file.ctx)

\* No context a migration makes hangs anywhere else, so long as it is there.
HangingOK ==
  file.format = "genealogy" =>
    /\ \A t \in Tries : \A k \in DOMAIN Reads(file, t).calls :
         LET one == Reads(file, t).calls[k]
         IN "ensure" \in DOMAIN one /\ one.ensure \in DOMAIN contexts => Hangs(one.ensure)
    /\ \A x \in DOMAIN store : x.ctx \in Homeless(file) \/ Hangs(x.ctx)

ImportOK == file \in File /\ RunsOK /\ ContextsOK /\ StoreOK /\ HangingOK

-----------------------------------------------------------------------------
\* The content of a statement does not depend on its maturity, nor does its
\* context.
LEMMA KeptContent ==
  ASSUME NEW x
  PROVE  /\ Content(Kept(x)) = Content(x)
         /\ "ctx" \in DOMAIN x => Kept(x).ctx = x.ctx
<1>1. Content(Kept(x)) = Content(x)
  BY DEF Content, Kept
<1>2. "ctx" \in DOMAIN x => Kept(x).ctx = x.ctx
  BY DEF Kept
<1> QED BY <1>1, <1>2

\* Whether the database takes a call does not change while the model runs.
LEMMA FitnessStays ==
  ASSUME ContextsOK, NEW one
  PROVE  Unfitting(contexts, one) <=> Unfitting(file.contexts, one)
<1>1. ASSUME NEW x
      PROVE  Unfit(contexts, x) <=> Unfit(file.contexts, x)
  <2>1. x.ctx \in DOMAIN contexts /\ contexts[x.ctx].mode = "curated"
        <=> x.ctx \in DOMAIN file.contexts /\ file.contexts[x.ctx].mode = "curated"
    BY DEF ContextsOK
  <2> QED BY <2>1, Zenon DEF Unfit
<1> QED BY <1>1, Zenon DEF Unfitting

\* What a try reads has the shape of a program.
LEMMA ReadingIsProgram ==
  ASSUME NEW f \in File, NEW t \in Tries, NEW k \in DOMAIN Reads(f, t).calls
  PROVE  LET p == Reads(f, t) one == p.calls[k]
         IN /\ p.calls \in Seq(Range(p.calls)) /\ Len(p.calls) \in Nat /\ DOMAIN p.calls = 1..Len(p.calls)
            /\ DOMAIN one \in {{"stmts"}, {"ensure", "kind", "parent"}, {"document"}}
            /\ Sends(one) =>
                 /\ one.stmts \in Seq(Range(one.stmts)) /\ DOMAIN one.stmts = 1..Len(one.stmts)
                 /\ \A i \in DOMAIN one.stmts : {"ctx", "maturity"} \subseteq DOMAIN one.stmts[i]
<1> DEFINE p == Reads(f, t)
           one == p.calls[k]
<1>1. IsProgram(p)
  BY Zenon DEF FilesAreRead
<1>2. p.calls \in Seq(Range(p.calls))
  BY <1>1, Zenon DEF IsProgram
<1>3. Len(p.calls) \in Nat /\ DOMAIN p.calls = 1..Len(p.calls)
  BY <1>2
<1>4. one \in Range(p.calls)
  BY Zenon DEF Range
<1>5. /\ DOMAIN one \in {{"stmts"}, {"ensure", "kind", "parent"}, {"document"}}
      /\ Sends(one) =>
           one.stmts \in Seq(Range(one.stmts)) /\ \A x \in Range(one.stmts) : IsStatement(x)
  BY <1>1, <1>4, Zenon DEF IsProgram
<1>6. ASSUME Sends(one)
      PROVE  /\ DOMAIN one.stmts = 1..Len(one.stmts)
             /\ \A i \in DOMAIN one.stmts : {"ctx", "maturity"} \subseteq DOMAIN one.stmts[i]
  <2>1. DOMAIN one.stmts = 1..Len(one.stmts)
    BY <1>5, <1>6
  <2>2. \A i \in DOMAIN one.stmts : one.stmts[i] \in Range(one.stmts)
    BY Zenon DEF Range
  <2> QED BY <1>5, <1>6, <2>1, <2>2, Zenon DEF IsStatement
<1> QED BY <1>2, <1>3, <1>5, <1>6, Zenon

\* What a program tells is the i-th statement of its k-th call, for some k and i.
LEMMA Telling ==
  ASSUME NEW p, NEW y
  PROVE  y \in Told(p) <=>
           \E k \in DOMAIN p.calls : /\ Sends(p.calls[k])
                                     /\ \E i \in DOMAIN p.calls[k].stmts : Tells(p, k, i) /\ y = p.calls[k].stmts[i]
<1>. DEFINE In(k) == {p.calls[k].stmts[i] : i \in {i \in DOMAIN p.calls[k].stmts : Tells(p, k, i)}}
            sends == {k \in DOMAIN p.calls : Sends(p.calls[k])}
<1>1. Told(p) = UNION {In(k) : k \in sends}
  BY DEF Told
<1>2. \A k : y \in In(k) <=> \E i \in DOMAIN p.calls[k].stmts : Tells(p, k, i) /\ y = p.calls[k].stmts[i]
  OBVIOUS
<1>. HIDE DEF In
<1>3. y \in UNION {In(k) : k \in sends} <=> \E k \in sends : y \in In(k)
  OBVIOUS
<1> QED BY <1>1, <1>2, <1>3

LEMMA ImportsBegin ==
  ASSUME InitImports
  PROVE  ImportOK
<1> USE DEF InitImports
<1>1. file \in File
  OBVIOUS
<1>2. RunsOK
  BY DEF RunsOK, RunIsAt, Over
<1>3. ContextsOK
  BY DEF ContextsOK
<1>4. DOMAIN store = {}
  OBVIOUS
<1>5. StoreOK
  BY <1>4 DEF StoreOK
<1>6. HangingOK
  <2> SUFFICES ASSUME file.format = "genealogy", NEW t \in Tries, NEW k \in DOMAIN Reads(file, t).calls,
                      "ensure" \in DOMAIN Reads(file, t).calls[k], Reads(file, t).calls[k].ensure \in DOMAIN contexts
               PROVE  Hangs(Reads(file, t).calls[k].ensure)
    BY <1>4 DEF HangingOK
  <2>1. MakesItsContexts(file, Reads(file, t))
    BY Zenon DEF FilesAreRead
  <2> QED BY <2>1 DEF MakesItsContexts, Hangs
<1> QED BY <1>1, <1>2, <1>3, <1>5, <1>6 DEF ImportOK

\* A call that goes through is done, undoes none, and keeps the database in
\* order.
LEMMA EffectKeeps ==
  ASSUME ImportOK,
         NEW r \in Run, Calls(r), ~Unfitting(contexts, Head(runs[r].calls)),
         Effect(Head(runs[r].calls)), file' = file
  PROVE  /\ ContextsOK' /\ StoreOK' /\ HangingOK'
         /\ \A one : Done(one) \/ one = Head(runs[r].calls) => Done(one)'
<1> DEFINE t == <<r, runs[r].tries - 1>>
           p == Reads(file, t)
           one == Head(runs[r].calls)
<1>1. file \in File /\ RunIsAt(r) /\ ContextsOK /\ StoreOK /\ HangingOK
  BY DEF ImportOK, RunsOK
<1>2. runs[r].pc = "running" /\ runs[r].calls # <<>>
  BY DEF Calls
<1>3. t \in Tries
  <2>1. runs[r].tries \in 0..MaxTries /\ runs[r].tries # 0
    BY <1>1, <1>2 DEF RunIsAt
  <2>2. runs[r].tries - 1 \in 0..MaxTries - 1
    BY <2>1
  <2> QED BY <2>2 DEF Tries
<1>4. PICK n \in 0..Len(p.calls) : HasDone(r, n)
  BY <1>1, <1>2 DEF RunIsAt, Reading
<1>5. /\ runs[r].calls \in Seq(Range(p.calls))
      /\ IsProgram(p)
  BY <1>1, <1>2, <1>3, Zenon DEF RunIsAt, Reading, FilesAreRead
<1>6. p.calls \in Seq(Range(p.calls))
  BY <1>5, Zenon DEF IsProgram
<1> DEFINE k == n + 1
<1>7. k \in 1..Len(p.calls) /\ k \in DOMAIN p.calls /\ one = p.calls[k]
  <2>1. Len(runs[r].calls) \in Nat \ {0} /\ Len(p.calls) \in Nat /\ DOMAIN p.calls = 1..Len(p.calls)
    BY <1>2, <1>5, <1>6
  <2>2. Len(runs[r].calls) = Len(p.calls) - n /\ \A j \in 1..Len(runs[r].calls) : runs[r].calls[j] = p.calls[n + j]
    BY <1>4 DEF HasDone, Reading
  <2>3. k \in 1..Len(p.calls)
    BY <2>1, <2>2
  <2>4. runs[r].calls[1] = p.calls[k]
    BY <2>1, <2>2
  <2>5. one = runs[r].calls[1]
    BY <1>2, <1>5
  <2> QED BY <2>1, <2>3, <2>4, <2>5
<1>8. \A l \in 1..n : Done(p.calls[l])
  BY <1>4 DEF HasDone, Reading
<1>9. /\ DOMAIN one \in {{"stmts"}, {"ensure", "kind", "parent"}, {"document"}}
      /\ Sends(one) =>
           /\ one.stmts \in Seq(Range(one.stmts)) /\ DOMAIN one.stmts = 1..Len(one.stmts)
           /\ \A i \in DOMAIN one.stmts : {"ctx", "maturity"} \subseteq DOMAIN one.stmts[i]
  BY <1>1, <1>3, <1>7, ReadingIsProgram
<1>10. ~Unfitting(file.contexts, one)
  BY <1>1, FitnessStays
<1> HIDE DEF t, p, one
<1>. DEFINE made == IF Sends(one) THEN {x.ctx : x \in Range(one.stmts)}
                    ELSE IF "ensure" \in DOMAIN one THEN {one.ensure} ELSE {}
            parent == IF Sends(one) THEN None ELSE one.parent
            kind == IF Sends(one) THEN "custom" ELSE one.kind
<1>11. /\ DOMAIN contexts' = DOMAIN contexts \cup made
       /\ \A c \in DOMAIN contexts' :
            IF c \in DOMAIN contexts THEN contexts'[c] = contexts[c]
            ELSE contexts'[c].mode = "permissive" /\ contexts'[c].parent = parent
  <2>1. CASE Sends(one)
    <3>1. contexts' = Ensured(contexts, made, "custom", None)
      BY <2>1, Zenon DEF Effect, one
    <3> QED BY <2>1, <3>1 DEF Ensured
  <2>2. CASE ~Sends(one) /\ "ensure" \in DOMAIN one
    <3>1. contexts' = Ensured(contexts, made, one.kind, one.parent)
      BY <2>2, Zenon DEF Effect, one
    <3> QED BY <2>2, <3>1 DEF Ensured
  <2>3. CASE ~Sends(one) /\ "ensure" \notin DOMAIN one
    <3>1. contexts' = contexts
      BY <2>3, Zenon DEF Effect, one
    <3> QED BY <2>3, <3>1
  <2> QED BY <2>1, <2>2, <2>3
<1>. HIDE DEF made, parent
<1>12. ASSUME ~Sends(one)
       PROVE  store' = store
  BY <1>12, Zenon DEF Effect, one
<1>. DEFINE news == News(store, one.stmts)
            new == {Kept(one.stmts[i]) : i \in news}
<1>13. ASSUME Sends(one)
       PROVE  /\ DOMAIN store' = DOMAIN store \cup new
              /\ \A x \in DOMAIN store' :
                   store'[x] = (IF x \in DOMAIN store THEN store[x] ELSE 0) + (IF x \in new THEN 1 ELSE 0)
  <2>1. store' = Inserted(store, new)
    BY <1>13, Zenon DEF Effect, Added, one
  <2> QED BY <2>1 DEF Inserted
<1>14. ASSUME Sends(one), NEW i \in news
       PROVE  /\ i \in DOMAIN one.stmts
              /\ \A x \in DOMAIN store : Content(x) # Content(one.stmts[i])
              /\ \A j \in 1..i - 1 : Content(one.stmts[j]) # Content(one.stmts[i])
  BY Zenon DEF News
\* A content that is new is told by p: its calls before are done.
<1>15. ASSUME Sends(one), NEW i \in news
       PROVE  one.stmts[i] \in Told(p)
  <2>1. States(p, k, i)
    BY <1>7, <1>14, <1>15 DEF States
  <2>2. ASSUME NEW l \in 1..k, Sends(p.calls[l]), NEW j \in DOMAIN p.calls[l].stmts, l < k \/ j < i
        PROVE  Content(p.calls[l].stmts[j]) # Content(p.calls[k].stmts[i])
    <3>1. CASE l < k
      <4>1. Done(p.calls[l])
        BY <1>8, <3>1
      <4>2. PICK x \in DOMAIN store : Content(x) = Content(p.calls[l].stmts[j])
        BY <2>2, <4>1, Zenon DEF Done
      <4> QED BY <1>7, <1>14, <1>15, <4>2, Zenon
    <3>2. CASE ~(l < k)
      <4>1. l = k
        BY <3>2
      <4>2. i \in 1..Len(one.stmts) /\ j \in 1..Len(one.stmts) /\ Len(one.stmts) \in Nat
        BY <1>7, <1>9, <1>14, <1>15, <4>1
      <4>3. j \in 1..i - 1
        BY <2>2, <3>2, <4>2
      <4> QED BY <1>7, <1>14, <1>15, <4>1, <4>3, Zenon
    <3> QED BY <3>1, <3>2
  <2>3. Tells(p, k, i)
    BY <2>1, <2>2, Zenon DEF Tells
  <2> QED BY <1>7, <1>14, <1>15, <2>3, Telling
<1>16. StoreOK'
  <2>4. store' = [x \in DOMAIN store' |-> store'[x]]
    <3>1. CASE ~Sends(one)
      BY <1>1, <1>12, <3>1 DEF StoreOK
    <3>2. CASE Sends(one)
      <4>1. store' = Inserted(store, new)
        BY <3>2, Zenon DEF Effect, Added, one
      <4> QED BY <4>1 DEF Inserted
    <3> QED BY <3>1, <3>2
  <2>. SUFFICES ASSUME NEW x \in DOMAIN store'
                PROVE  store'[x] = 1 /\ \E u \in Tries : \E y \in Told(Reads(file, u)) : x = Kept(y)
    BY <2>4 DEF StoreOK
  <2>1. CASE ~Sends(one)
    <3>1. store' = store /\ x \in DOMAIN store
      BY <1>12, <2>1
    <3>2. store[x] = 1
      BY <1>1, <3>1, Zenon DEF StoreOK
    <3> QED BY <1>1, <3>1, <3>2 DEF StoreOK
  <2>2. CASE Sends(one) /\ x \in new
    <3>1. PICK i \in news : x = Kept(one.stmts[i])
      BY <2>2
    <3>2. x \notin DOMAIN store
      BY <1>14, <2>2, <3>1, KeptContent, Zenon
    <3>3. store'[x] = 1
      BY <1>13, <2>2, <3>2
    <3> QED BY <1>3, <1>15, <2>2, <3>1, <3>3, Zenon DEF p
  <2>3. CASE Sends(one) /\ x \notin new
    <3>1. x \in DOMAIN store /\ store'[x] = store[x] + 0
      BY <1>13, <2>3
    <3>2. store[x] = 1
      BY <1>1, <3>1, Zenon DEF StoreOK
    <3> QED BY <1>1, <3>1, <3>2 DEF StoreOK
  <2> QED BY <2>1, <2>2, <2>3
<1>17. DOMAIN store \subseteq DOMAIN store'
  BY <1>12, <1>13
<1>18. ASSUME NEW c, Done(c)
       PROVE  Done(c)'
  <2>1. "ensure" \in DOMAIN c => c.ensure \in DOMAIN contexts'
    BY <1>11, <1>18 DEF Done
  <2>2. Sends(c) =>
          \A i \in DOMAIN c.stmts : \E x \in DOMAIN store' : Content(x) = Content(c.stmts[i])
    BY <1>17, <1>18, Zenon DEF Done
  <2>3. ~Unfitting(file.contexts, c)
    BY <1>18 DEF Done
  <2> QED BY <2>1, <2>2, <2>3, Zenon DEF Done
<1>19. ASSUME NEW c, c = one
       PROVE  Done(c)'
  <2>1. "ensure" \in DOMAIN one => one.ensure \in DOMAIN contexts'
    BY <1>9, <1>11 DEF made, Sends
  <2>2. ASSUME Sends(one), NEW i \in DOMAIN one.stmts
        PROVE  \E x \in DOMAIN store' : Content(x) = Content(one.stmts[i])
    <3>1. CASE \E x \in DOMAIN store : Content(x) = Content(one.stmts[i])
      BY <1>17, <3>1
    <3>2. CASE \A x \in DOMAIN store : Content(x) # Content(one.stmts[i])
      <4>. DEFINE L == {j \in DOMAIN one.stmts : Content(one.stmts[j]) = Content(one.stmts[i])}
      <4>1. DOMAIN one.stmts = 1..Len(one.stmts) /\ Len(one.stmts) \in Nat
        BY <1>9, <2>2
      <4>2. L \in SUBSET Nat /\ L # {}
        BY <4>1
      <4>3. PICK j \in L : \A l \in L : j <= l
        BY <4>2, LeastNatural
      <4>4. \A l \in 1..j - 1 : l \in DOMAIN one.stmts /\ l \notin L
        BY <4>1, <4>3
      <4>5. j \in news
        BY <3>2, <4>3, <4>4, Zenon DEF News
      <4>6. Kept(one.stmts[j]) \in DOMAIN store'
        BY <1>13, <2>2, <4>5, Zenon
      <4>7. Content(Kept(one.stmts[j])) = Content(one.stmts[i])
        BY <4>3, KeptContent, Zenon
      <4> QED BY <4>6, <4>7, Zenon
    <3> QED BY <3>1, <3>2, Zenon
  <2> QED BY <1>10, <1>19, <2>1, <2>2 DEF Done
<1>20. ContextsOK'
  BY <1>1, <1>11 DEF ContextsOK
<1>21. HangingOK'
  <2> SUFFICES ASSUME file.format = "genealogy" PROVE HangingOK'
    BY DEF HangingOK
  <2>1. \A c : Hangs(c) => Hangs(c)'
    BY <1>11 DEF Hangs
  \* What is made hangs under the root, or has before.
  <2>2. ASSUME NEW u \in Tries, NEW l \in DOMAIN Reads(file, u).calls, "ensure" \in DOMAIN Reads(file, u).calls[l]
        PROVE  \/ Reads(file, u).calls[l].ensure = file.ctx
               \/ Reads(file, u).calls[l].parent = file.ctx /\ Reads(file, u).calls[l].ensure \notin Homeless(file)
    <3>1. MakesItsContexts(file, Reads(file, u))
      BY <1>1, Zenon DEF FilesAreRead
    <3> QED BY <2>2, <3>1, Zenon DEF MakesItsContexts
  <2>3. MakesItsContexts(file, p)
    BY <1>1, <1>3, Zenon DEF FilesAreRead, p
  <2>4. ASSUME Sends(one), NEW i \in DOMAIN one.stmts, one.stmts[i].ctx \notin Homeless(file)
        PROVE  Hangs(one.stmts[i].ctx)
    <3>1. one.stmts[i] \in Range(one.stmts)
      BY Zenon DEF Range
    <3>2. \/ one.stmts[i].ctx = file.ctx
          \/ \E j \in 1..k - 1 : "ensure" \in DOMAIN p.calls[j] /\ p.calls[j].ensure = one.stmts[i].ctx
      BY <1>7, <2>3, <2>4, <3>1, Zenon DEF MakesItsContexts
    <3>3. ASSUME NEW j \in 1..k - 1, "ensure" \in DOMAIN p.calls[j]
          PROVE  Hangs(p.calls[j].ensure)
      <4>1. j \in 1..n /\ j \in DOMAIN p.calls
        BY <1>6, <1>7
      <4>2. p.calls[j].ensure \in DOMAIN contexts
        BY <1>8, <3>3, <4>1 DEF Done
      <4> QED BY <1>1, <1>3, <3>3, <4>1, <4>2, Zenon DEF HangingOK, p
    <3> QED BY <3>2, <3>3, Zenon DEF Hangs
  <2>5. ASSUME NEW c \in made, c \notin DOMAIN contexts, c \notin Homeless(file)
        PROVE  Hangs(c)'
    <3>1. CASE Sends(one)
      <4>1. PICK i \in DOMAIN one.stmts : c = one.stmts[i].ctx
        BY <3>1 DEF made, Range
      <4> QED BY <2>4, <2>5, <3>1, <4>1 DEF Hangs
    <3>2. CASE ~Sends(one)
      <4>1. "ensure" \in DOMAIN one /\ c = one.ensure
        BY <3>2 DEF made
      <4>2. c = file.ctx \/ parent = file.ctx
        BY <1>3, <1>7, <2>2, <3>2, <4>1 DEF p, parent
      <4> QED BY <1>11, <2>5, <4>2 DEF Hangs
    <3> QED BY <3>1, <3>2
  <2>6. ASSUME NEW u \in Tries, NEW l \in DOMAIN Reads(file, u).calls, "ensure" \in DOMAIN Reads(file, u).calls[l],
               Reads(file, u).calls[l].ensure \in DOMAIN contexts'
        PROVE  Hangs(Reads(file, u).calls[l].ensure)'
    <3>. DEFINE c == Reads(file, u).calls[l].ensure
    <3>1. CASE c \in DOMAIN contexts
      <4>1. Hangs(c)
        BY <1>1, <2>6, <3>1, Zenon DEF HangingOK
      <4> QED BY <2>1, <4>1
    <3>2. CASE c \notin DOMAIN contexts
      <4>1. c \in made
        BY <1>11, <2>6, <3>2
      <4>2. c = file.ctx \/ c \notin Homeless(file)
        BY <2>2, <2>6
      <4>3. CASE c = file.ctx
        BY <1>11, <4>3 DEF Hangs
      <4>4. CASE c \notin Homeless(file)
        BY <2>5, <3>2, <4>1, <4>4
      <4> QED BY <4>2, <4>3, <4>4
    <3> QED BY <3>1, <3>2
  <2>7. ASSUME NEW x \in DOMAIN store'
        PROVE  (x.ctx \in Homeless(file) \/ Hangs(x.ctx))'
    <3>1. CASE x \in DOMAIN store
      BY <1>1, <1>11, <2>1, <3>1 DEF HangingOK
    <3>2. CASE x \notin DOMAIN store
      <4>1. Sends(one) /\ x \in new
        BY <1>12, <1>13, <2>7, <3>2
      <4>2. PICK i \in news : x = Kept(one.stmts[i])
        BY <4>1
      <4>3. i \in DOMAIN one.stmts /\ x.ctx = one.stmts[i].ctx
        BY <1>9, <1>14, <4>1, <4>2, KeptContent
      <4>4. x.ctx \in Homeless(file) \/ Hangs(x.ctx)
        BY <2>4, <4>1, <4>3
      <4> QED BY <1>11, <2>1, <4>4
    <3> QED BY <3>1, <3>2
  <2> QED BY <2>6, <2>7, Zenon DEF HangingOK
<1> QED BY <1>16, <1>18, <1>19, <1>20, <1>21, Zenon DEF one

\* What a step does to no run but r.
OthersStay(r) == DOMAIN runs' = DOMAIN runs /\ \A q \in Run \ {r} : runs'[q] = runs[q]

LEMMA ImportsGoOn ==
  ASSUME ImportOK, [NextImports]_importVars
  PROVE  ImportOK'
<1>1. file \in File /\ RunsOK /\ ContextsOK /\ StoreOK /\ HangingOK
  BY DEF ImportOK
\* A run keeps its place when it does not move and what was done stays so.
<1>2. ASSUME NEW r \in Run, file' = file, runs'[r] = runs[r], \A one : Done(one) => Done(one)'
      PROVE  RunIsAt(r)'
  <2>1. RunIsAt(r)
    BY <1>1 DEF RunsOK
  <2>2. Reading(r)' = Reading(r)
    BY <1>2 DEF Reading
  <2>3. \A n \in 0..Len(Reading(r).calls) : HasDone(r, n) => HasDone(r, n)'
    BY <1>2, <2>2 DEF HasDone
  <2> QED BY <1>2, <2>1, <2>2, <2>3 DEF RunIsAt
<1>3. ASSUME file' = file, contexts' = contexts, store' = store
      PROVE  /\ \A one : Done(one) => Done(one)'
             /\ ContextsOK' /\ StoreOK' /\ HangingOK'
  BY <1>1, <1>3 DEF Done, ContextsOK, StoreOK, HangingOK, Hangs
<1>4. ASSUME NEW r \in Run, OthersStay(r), file' = file, \A one : Done(one) => Done(one)', RunIsAt(r)'
      PROVE  RunsOK'
  BY <1>1, <1>2, <1>4 DEF RunsOK, OthersStay
<1>5. ASSUME NEW r \in Run, Start(r)
      PROVE  ImportOK'
  <2>. DEFINE t == <<r, runs[r].tries>>
              p == Reads(file, t)
  <2>1. RunIsAt(r)
    BY <1>1 DEF RunsOK
  <2>2. t \in Tries /\ runs[r].tries \in 0..MaxTries /\ runs[r].tries < MaxTries
    BY <1>5, <2>1 DEF Start, RunIsAt, Tries
  <2>3. UNCHANGED <<file, contexts, store>>
    BY <1>5 DEF Start
  <2>4. runs' = [runs EXCEPT ![r] = [pc |-> "running", calls |-> p.calls, losses |-> p.losses, fails |-> p.fails,
                                     inserted |-> 0, tries |-> runs[r].tries + 1]]
    BY <1>5 DEF Start
  <2>5. runs'[r] = [pc |-> "running", calls |-> p.calls, losses |-> p.losses, fails |-> p.fails,
                    inserted |-> 0, tries |-> runs[r].tries + 1]
    BY <1>1, <2>4 DEF RunsOK
  <2>6. OthersStay(r)
    BY <1>1, <2>4 DEF RunsOK, OthersStay
  <2>7. Reading(r)' = p
    BY <2>2, <2>3, <2>5 DEF Reading
  <2>8. p.calls \in Seq(Range(p.calls))
    BY <1>1, <2>2, Zenon DEF FilesAreRead, IsProgram
  <2>. HIDE DEF p
  <2>9. HasDone(r, 0)'
    BY <2>5, <2>7, <2>8 DEF HasDone
  <2>10. RunIsAt(r)'
    BY <2>2, <2>5, <2>7, <2>8, <2>9 DEF RunIsAt, Over
  <2> QED BY <1>1, <1>3, <1>4, <2>3, <2>6, <2>10 DEF ImportOK
\* The run that fails will start anew.
<1>6. ASSUME NEW r \in Run, Fails(r), file' = file, \A one : Done(one) => Done(one)'
      PROVE  RunsOK'
  <2>1. RunIsAt(r)
    BY <1>1 DEF RunsOK
  <2>2. OthersStay(r)
    BY <1>1, <1>6 DEF Fails, RunsOK, OthersStay
  <2>3. runs'[r] = [runs[r] EXCEPT !.pc = "failed", !.calls = <<>>]
    BY <1>1, <1>6 DEF Fails, RunsOK
  <2>4. RunIsAt(r)'
    BY <2>1, <2>3 DEF RunIsAt, Over
  <2> QED BY <1>4, <1>6, <2>2, <2>4
<1>7. ASSUME NEW r \in Run, Call(r)
      PROVE  ImportOK'
  <2>1. /\ Calls(r) /\ ~Unfitting(contexts, Head(runs[r].calls))
        /\ Effect(Head(runs[r].calls)) /\ file' = file
    BY <1>7, Zenon DEF Call
  <2>2. ContextsOK' /\ StoreOK' /\ HangingOK'
    BY <2>1, EffectKeeps
  <2>3. \A one : Done(one) \/ one = Head(runs[r].calls) => Done(one)'
    BY <2>1, EffectKeeps
  <2>4. runs[r].pc = "running" /\ runs[r].calls # <<>>
    BY <2>1 DEF Calls
  <2>5. RunIsAt(r)
    BY <1>1 DEF RunsOK
  <2>6. PICK m : runs' = [runs EXCEPT ![r].calls = Tail(@), ![r].inserted = @ + m]
    BY <1>7, Zenon DEF Call
  <2>7. OthersStay(r)
    BY <1>1, <2>6 DEF RunsOK, OthersStay
  <2>8. /\ runs'[r].calls = Tail(runs[r].calls) /\ DOMAIN runs'[r] = DOMAIN runs[r]
        /\ \A x \in {"pc", "losses", "fails", "tries"} : runs'[r][x] = runs[r][x]
    BY <1>1, <2>5, <2>6 DEF RunsOK, RunIsAt
  <2>9. Reading(r)' = Reading(r)
    BY <2>1, <2>8 DEF Reading
  <2>10. PICK n \in 0..Len(Reading(r).calls) : HasDone(r, n)
    BY <2>4, <2>5 DEF RunIsAt
  <2>. DEFINE cs == runs[r].calls
              ps == Reading(r).calls
  <2>11. cs \in Seq(Range(ps))
    BY <2>4, <2>5 DEF RunIsAt
  <2>12. ps \in Seq(Range(ps))
    <3>1. <<r, runs[r].tries - 1>> \in Tries
      BY <2>4, <2>5 DEF RunIsAt, Tries
    <3> QED BY <1>1, <3>1, Zenon DEF Reading, FilesAreRead, IsProgram
  <2>13. /\ Len(cs) \in Nat \ {0} /\ Len(ps) \in Nat /\ n + 1 \in 0..Len(ps)
         /\ Head(cs) = ps[n + 1]
         /\ Tail(cs) \in Seq(Range(ps))
         /\ Len(Tail(cs)) = Len(ps) - (n + 1)
         /\ \A j \in 1..Len(Tail(cs)) : Tail(cs)[j] = ps[n + 1 + j]
    <3>1. Len(cs) \in Nat \ {0} /\ Len(ps) \in Nat
      BY <2>4, <2>11, <2>12
    <3>2. Len(cs) = Len(ps) - n /\ \A j \in 1..Len(cs) : cs[j] = ps[n + j]
      BY <2>10 DEF HasDone
    <3>3. Head(cs) = cs[1] /\ Tail(cs) \in Seq(Range(ps)) /\ Len(Tail(cs)) = Len(cs) - 1
          /\ \A j \in 1..Len(Tail(cs)) : Tail(cs)[j] = cs[j + 1]
      <4>. DEFINE S == Range(ps)
      <4>1. cs \in Seq(S) /\ cs # <<>>
        BY <2>4, <2>11
      <4>. HIDE DEF S, cs
      <4>2. Head(cs) = cs[1] /\ Tail(cs) \in Seq(S) /\ Len(Tail(cs)) = Len(cs) - 1
        BY <4>1
      <4>3. \A j \in 1..Len(Tail(cs)) : Tail(cs)[j] = cs[j + 1]
        BY <4>1
      <4> QED BY <4>2, <4>3 DEF S
    <3>4. ASSUME NEW j \in 1..Len(Tail(cs)) PROVE Tail(cs)[j] = ps[n + 1 + j]
      <4>1. j + 1 \in 1..Len(cs) /\ n + (j + 1) = n + 1 + j
        BY <3>1, <3>3
      <4> QED BY <3>2, <3>3, <4>1
    <3> QED BY <3>1, <3>2, <3>3, <3>4
  <2>14. \A j \in 1..n + 1 : Done(ps[j]) \/ ps[j] = Head(cs)
    BY <2>10, <2>13 DEF HasDone
  <2>15. HasDone(r, n + 1)'
    <3>1. \A j \in 1..n + 1 : Done(Reading(r).calls[j])'
      BY <2>3, <2>9, <2>14 DEF Done
    <3> QED BY <2>8, <2>9, <2>13, <3>1 DEF HasDone
  <2>16. RunIsAt(r)'
    BY <2>4, <2>5, <2>8, <2>9, <2>13, <2>15 DEF RunIsAt, Over
  <2> QED BY <1>1, <1>4, <2>1, <2>2, <2>3, <2>7, <2>16 DEF ImportOK
<1>8. ASSUME NEW r \in Run, CallIsRefused(r) \/ CallBreaks(r)
      PROVE  ImportOK'
  <2>1. Fails(r) /\ UNCHANGED <<file, contexts, store>>
    BY <1>8 DEF CallIsRefused, CallBreaks
  <2> QED BY <1>1, <1>3, <1>6, <2>1 DEF ImportOK
<1>9. ASSUME NEW r \in Run, AnswerIsLost(r)
      PROVE  ImportOK'
  <2>1. /\ Calls(r) /\ ~Unfitting(contexts, Head(runs[r].calls))
        /\ Effect(Head(runs[r].calls)) /\ Fails(r) /\ file' = file
    BY <1>9 DEF AnswerIsLost
  <2>2. ContextsOK' /\ StoreOK' /\ HangingOK'
    BY <2>1, EffectKeeps
  <2>3. \A one : Done(one) => Done(one)'
    BY <2>1, EffectKeeps
  <2> QED BY <1>1, <1>6, <2>1, <2>2, <2>3 DEF ImportOK
<1>10. ASSUME NEW r \in Run, End(r)
       PROVE  ImportOK'
  <2>1. UNCHANGED <<file, contexts, store>> /\ runs[r].pc = "running" /\ runs[r].calls = <<>>
    BY <1>10 DEF End
  <2>2. RunIsAt(r)
    BY <1>1 DEF RunsOK
  <2>. DEFINE to == IF runs[r].fails THEN "refused"
                    ELSE IF Strict /\ runs[r].losses # <<>> THEN "strict" ELSE "reported"
  <2>3. runs' = [runs EXCEPT ![r].pc = to] /\ to \in Over /\ (runs[r].fails <=> to = "refused")
    BY <1>1, <1>10, <2>1 DEF End, Over, RunsOK
  <2>. HIDE DEF to
  <2>4. OthersStay(r)
    BY <1>1, <2>3 DEF RunsOK, OthersStay
  <2>5. runs'[r] = [runs[r] EXCEPT !.pc = to]
    BY <1>1, <2>3 DEF RunsOK
  <2>6. Reading(r)' = Reading(r)
    BY <2>1, <2>2, <2>5 DEF Reading, RunIsAt
  <2>7. \A n \in 0..Len(Reading(r).calls) : HasDone(r, n) => HasDone(r, n)'
    BY <1>3, <2>1, <2>2, <2>5, <2>6 DEF HasDone, RunIsAt
  <2>8. PICK n \in 0..Len(Reading(r).calls) : HasDone(r, n)
    BY <2>1, <2>2 DEF RunIsAt
  <2>9. HasDone(r, n)' /\ n \in 0..Len(Reading(r)'.calls)
    BY <2>6, <2>7, <2>8
  <2>10. /\ runs'[r].pc = to /\ DOMAIN runs'[r] = DOMAIN runs[r]
         /\ \A x \in {"calls", "losses", "fails", "inserted", "tries"} : runs'[r][x] = runs[r][x]
    BY <2>2, <2>5 DEF RunIsAt
  <2>11. RunIsAt(r)'
    BY <2>1, <2>2, <2>3, <2>6, <2>9, <2>10 DEF RunIsAt, Over
  <2> QED BY <1>1, <1>3, <1>4, <2>1, <2>4, <2>11 DEF ImportOK
<1>11. CASE UNCHANGED importVars
  <2>1. UNCHANGED <<file, contexts, store, runs>>
    BY <1>11 DEF importVars
  <2> QED BY <1>1, <1>2, <1>3, <2>1 DEF ImportOK, RunsOK
<1> QED BY <1>5, <1>7, <1>8, <1>9, <1>10, <1>11 DEF NextImports

\* A try that has ended has done all its calls.
LEMMA EndIsDone ==
  ASSUME ImportOK, NEW r \in Run, runs[r].pc \in Over
  PROVE  LET t == <<r, runs[r].tries - 1>>
         IN /\ t \in Tries
            /\ \A k \in DOMAIN Reads(file, t).calls : Done(Reads(file, t).calls[k])
            /\ runs[r].losses = Reads(file, t).losses
            /\ Reads(file, t).fails <=> runs[r].pc = "refused"
<1>. DEFINE t == <<r, runs[r].tries - 1>>
            ps == Reads(file, t).calls
<1>1. RunIsAt(r) /\ file \in File
  BY DEF ImportOK, RunsOK
<1>2. t \in Tries
  BY <1>1 DEF RunIsAt, Tries
<1>3. ps \in Seq(Range(ps))
  BY <1>1, <1>2, Zenon DEF FilesAreRead, IsProgram
<1>4. PICK n \in 0..Len(ps) : HasDone(r, n)
  BY <1>1 DEF RunIsAt, Reading
<1>5. runs[r].calls = <<>> /\ Len(ps) \in Nat /\ DOMAIN ps = 1..Len(ps)
  BY <1>1, <1>3 DEF RunIsAt
<1>6. n = Len(ps)
  BY <1>4, <1>5 DEF HasDone, Reading
<1>7. \A k \in DOMAIN ps : Done(ps[k])
  BY <1>4, <1>5, <1>6 DEF HasDone, Reading
<1>8. runs[r].losses = Reads(file, t).losses /\ (Reads(file, t).fails <=> runs[r].pc = "refused")
  BY <1>1 DEF RunIsAt, Reading
<1> QED BY <1>2, <1>7, <1>8

\* What is stored of a file that means something is part of what it means.
LEMMA NothingElseIsStored ==
  ASSUME ImportOK
  PROVE  NothingElse
<1>1. file \in File /\ StoreOK
  BY DEF ImportOK
<1>2. ASSUME file.means # None, NEW x \in DOMAIN store
      PROVE  Means(x) \in file.means
  <2>1. PICK t \in Tries : \E y \in Told(Reads(file, t)) : x = Kept(y)
    BY <1>1 DEF StoreOK
  <2>2. PICK y \in Told(Reads(file, t)) : x = Kept(y)
    BY <2>1
  <2>3. {Means(Kept(z)) : z \in Told(Reads(file, t))} = file.means
    BY <1>1, <1>2, Zenon DEF FilesAreRead, IsReadRight
  <2> QED BY <2>2, <2>3, Zenon
<1>3. ASSUME NEW r \in Run, runs[r].pc = "refused", file.format # "relink"
      PROVE  store = <<>>
  <2>. DEFINE t == <<r, runs[r].tries - 1>>
  <2>1. t \in Tries /\ Reads(file, t).fails
    BY <1>3, EndIsDone DEF Over
  <2>2. ASSUME NEW u \in Tries
        PROVE  Stated(Reads(file, u)) = {}
    BY <1>1, <1>3, <2>1, Zenon DEF FilesAreRead, Agree
  <2>3. ASSUME NEW x \in DOMAIN store PROVE FALSE
    <3>1. PICK u \in Tries : \E y \in Told(Reads(file, u)) : x = Kept(y)
      BY <1>1 DEF StoreOK
    <3>2. PICK y : y \in Told(Reads(file, u))
      BY <3>1
    <3>3. PICK k \in DOMAIN Reads(file, u).calls : /\ Sends(Reads(file, u).calls[k])
                                                   /\ \E i \in DOMAIN Reads(file, u).calls[k].stmts : y = Reads(file, u).calls[k].stmts[i]
      BY <3>2, Telling
    <3>4. y \in Range(Reads(file, u).calls[k].stmts)
      BY <3>3, Zenon DEF Range
    <3>5. y \in Stated(Reads(file, u))
      BY <3>3, <3>4, Zenon DEF Stated
    <3> QED BY <2>2, <3>5
  <2>4. store = [x \in DOMAIN store |-> 1] /\ DOMAIN store = {}
    BY <1>1, <2>3 DEF StoreOK
  <2> QED BY <2>4
<1> QED BY <1>2, <1>3, Zenon DEF NothingElse

LEMMA AllIsStored ==
  ASSUME ImportOK
  PROVE  ReadsTheFile
<1>. SUFFICES ASSUME NEW r \in Run, runs[r].pc = "reported", ~Disputed(file)
              PROVE  /\ file.means # None
                     /\ {Means(x) : x \in DOMAIN store} = file.means
                     /\ \A x \in DOMAIN store : store[x] = 1
                     /\ Len(runs[r].losses) = file.lost
  BY Zenon DEF ReadsTheFile
<1>. DEFINE t == <<r, runs[r].tries - 1>>
            p == Reads(file, t)
<1>1. file \in File /\ StoreOK
  BY DEF ImportOK
<1>2. t \in Tries /\ ~p.fails /\ runs[r].losses = p.losses /\ \A k \in DOMAIN p.calls : Done(p.calls[k])
  BY EndIsDone DEF Over
<1>3. IsReadRight(file, p)
  BY <1>1, <1>2, Zenon DEF FilesAreRead
<1>4. ~ \E one \in Range(p.calls) : Unfitting(file.contexts, one)
  BY <1>2, Zenon DEF Range, Done
<1>5. file.means # None
  BY <1>2, <1>3, <1>4, Zenon DEF IsReadRight
<1>6. {Means(Kept(y)) : y \in Told(p)} = file.means /\ Len(p.losses) = file.lost
  BY <1>3, <1>5, Zenon DEF IsReadRight
<1>7. {Means(x) : x \in DOMAIN store} \subseteq file.means
  BY <1>5, NothingElseIsStored, Zenon DEF NothingElse
\* What p tells is there: it was done, and whoever stored it told the same.
<1>8. ASSUME NEW y \in Told(p)
      PROVE  Kept(y) \in DOMAIN store
  <2>1. PICK k \in DOMAIN p.calls : /\ Sends(p.calls[k])
                                    /\ \E i \in DOMAIN p.calls[k].stmts : y = p.calls[k].stmts[i]
    BY Telling
  <2>2. PICK x \in DOMAIN store : Content(x) = Content(y)
    BY <1>2, <2>1, Zenon DEF Done
  <2>3. PICK u \in Tries : \E z \in Told(Reads(file, u)) : x = Kept(z)
    BY <1>1 DEF StoreOK
  <2>4. PICK z \in Told(Reads(file, u)) : x = Kept(z)
    BY <2>3
  <2>5. Content(z) = Content(y)
    BY <2>2, <2>4, KeptContent, Zenon
  <2>6. Agree(file, Reads(file, u), p)
    BY <1>1, <1>2, Zenon DEF FilesAreRead
  <2>7. Kept(z) = Kept(y)
    BY <2>5, <2>6, Zenon DEF Agree
  <2> QED BY <2>4, <2>7
<1>9. \A x \in DOMAIN store : store[x] = 1
  BY <1>1, Zenon DEF StoreOK
<1>10. file.means \subseteq {Means(x) : x \in DOMAIN store}
  BY <1>6, <1>8, Zenon
<1> QED BY <1>2, <1>5, <1>6, <1>7, <1>9, <1>10, Zenon

LEMMA MigratedUnderTheRoot ==
  ASSUME ImportOK
  PROVE  UnderTheRoot
BY DEF ImportOK, HangingOK, Hangs, UnderTheRoot

LEMMA ImportsAreOK ==
  ImportSpec => []ImportOK
<1>1. InitImports => ImportOK
  BY ImportsBegin
<1>2. ImportOK /\ [NextImports]_importVars => ImportOK'
  BY ImportsGoOn
<1> QED BY <1>1, <1>2, PTL DEF ImportSpec

\* For any files that are read right, however many imports of one run at a time
\* and wherever they fail, what is stored in the end is what the file means.
THEOREM Imported ==
  ImportSpec => []ReadsTheFile
<1>1. ImportOK => ReadsTheFile
  BY AllIsStored
<1> QED BY <1>1, ImportsAreOK, PTL

\* And until then it is some of it; a file its reader refuses leaves nothing.
THEOREM ImportedOnly ==
  ImportSpec => []NothingElse
<1>1. ImportOK => NothingElse
  BY NothingElseIsStored
<1> QED BY <1>1, ImportsAreOK, PTL

\* A migration never leaves a statement where a scope of its root does not look,
\* unless its row names a source that has no row.
THEOREM MigratedWhole ==
  ImportSpec => []UnderTheRoot
<1>1. ImportOK => UnderTheRoot
  BY MigratedUnderTheRoot
<1> QED BY <1>1, ImportsAreOK, PTL
=============================================================================
