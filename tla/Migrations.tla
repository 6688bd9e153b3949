----------------------------- MODULE Migrations -----------------------------
(***************************************************************************)
(* apply_migrations of packages/donto-client: several processes, each with *)
(* a pool of connections, bring one database up to date.                   *)
(*                                                                         *)
(* A session advisory lock serialises them, the table donto_migration says *)
(* what has been applied, and each migration runs in a transaction of its  *)
(* own.  Several migrations (re)define the same function with create or    *)
(* replace, so the order in which they run decides what the database does. *)
(***************************************************************************)
EXTENDS Naturals

CONSTANTS
  Proc,       \* processes that call migrate()
  Conn,       \* connections, of all pools
  Owner,      \* the process whose pool a connection belongs to
  N,          \* the number of migrations in MIGRATIONS
  LedgerAt,   \* the migration that creates donto_migration (0004)
  Func,       \* functions that migrations define
  Defines,    \* the functions each migration defines
  Faults,     \* the faults that may happen: "error", "lost"
  MaxCalls,   \* bound on the calls of each process
  NoConn

Migration == 1..N
Bootstrap == 1..(LedgerAt - 1)

ASSUME OwnersAreProcs == Owner \in [Conn -> Proc]
ASSUME LedgerIsAMigration == N \in Nat /\ LedgerAt \in 1..N
ASSUME MigrationsDefineFunctions == Defines \in [Migration -> SUBSET Func]
ASSUME CallsAreBounded == MaxCalls \in Nat
ASSUME ConnName == NoConn \notin Conn

VARIABLES
  pc,        \* where each process is in apply_migrations
  conn,      \* the connection its call has taken from the pool
  exists,    \* ledger_exists
  at,        \* the migration of MIGRATIONS the loop is at
  calls,     \* calls each process has made
  held,      \* how many times each session holds the advisory lock
  ledger,    \* donto_migration: the hash of each row, if there is one
  applied,   \* the migrations whose DDL the database has
  body       \* the migration whose body each function has; 0 for none

database == <<ledger, applied, body>>
vars == <<pc, conn, exists, at, calls, held, database>>

\* The last migration that defines f: what every caller of f relies on.
Latest(f) == CHOOSE m \in Migration : f \in Defines[m] /\ \A k \in Migration : f \in Defines[k] => k <= m

Locked(c) == \E d \in Conn \ {c} : held[d] > 0
LedgerTable == LedgerAt \in applied
InUse == {conn[p] : p \in Proc} \ {NoConn}

Goto(p, label) == pc' = [pc EXCEPT ![p] = label]
-----------------------------------------------------------------------------
Init ==
  /\ pc = [p \in Proc |-> "idle"]
  /\ conn = [p \in Proc |-> NoConn]
  /\ exists = [p \in Proc |-> FALSE]
  /\ at = [p \in Proc |-> 1]
  /\ calls = [p \in Proc |-> 0]
  /\ held = [c \in Conn |-> 0]
  /\ ledger = [m \in Migration |-> "none"]
  /\ applied = {}
  /\ body = [f \in Func |-> 0]

\* pool.get(): any connection of the pool that no call has taken.  Recycling
\* a connection resets nothing of its session.
Get(p) ==
  /\ pc[p] \in {"idle", "ok", "failed"}
  /\ calls[p] < MaxCalls
  /\ \E c \in Conn \ InUse : Owner[c] = p /\ conn' = [conn EXCEPT ![p] = c]
  /\ calls' = [calls EXCEPT ![p] = @ + 1]
  /\ Goto(p, "lock")
  /\ UNCHANGED <<exists, at, held, database>>

\* Mutated: the lock is shared.
Lock_shared(p) ==
  /\ pc[p] = "lock"
  /\ held' = [held EXCEPT ![conn[p]] = @ + 1]
  /\ Goto(p, "check")
  /\ UNCHANGED <<conn, exists, at, calls, database>>

\* pg_advisory_lock waits for every other session, never for its own.
Lock(p) ==
  /\ pc[p] = "lock"
  /\ ~ Locked(conn[p])
  /\ held' = [held EXCEPT ![conn[p]] = @ + 1]
  /\ Goto(p, "check")
  /\ UNCHANGED <<conn, exists, at, calls, database>>

\* to_regclass('public.donto_migration') is not null.
CheckLedger(p) ==
  /\ pc[p] = "check"
  /\ exists' = [exists EXCEPT ![p] = LedgerTable]
  /\ at' = [at EXCEPT ![p] = 1]
  /\ Goto(p, "loop")
  /\ UNCHANGED <<conn, calls, held, database>>

\* Where the loop goes after its migration.
Advance(p) ==
  IF at[p] = N THEN at' = [at EXCEPT ![p] = 1] /\ Goto(p, "backfill")
  ELSE at' = [at EXCEPT ![p] = @ + 1] /\ Goto(p, "loop")

\* The ledger has a row with the name and the hash of m.
Recorded(m) == ledger[m] = "real"

Skip(p) ==
  /\ pc[p] = "loop"
  /\ exists[p] /\ Recorded(at[p])
  /\ Advance(p)
  /\ UNCHANGED <<conn, exists, calls, held, database>>

\* Mutated: the row of the ledger is written before the migration's transaction.
Apply_recordedFirst(p) ==
  LET m == at[p] IN
  /\ pc[p] = "loop"
  /\ ~ (exists[p] /\ Recorded(m))
  /\ IF (exists[p] \/ m >= LedgerAt) /\ LedgerTable /\ ledger[m] = "none"
     THEN /\ ledger' = [ledger EXCEPT ![m] = "real"]
          /\ UNCHANGED <<pc, at, applied, body>>
     ELSE /\ applied' = applied \cup {m}
          /\ body' = [f \in Func |-> IF f \in Defines[m] THEN m ELSE body[f]]
          /\ ledger' = [k \in Migration |->
               IF k = m /\ (exists[p] \/ m >= LedgerAt) THEN "real"
               ELSE IF m = LedgerAt /\ k \in Bootstrap /\ ledger[k] = "none" THEN "placeholder"
               ELSE ledger[k]]
          /\ Advance(p)
  /\ UNCHANGED <<conn, exists, calls, held>>

\* One transaction runs the SQL of the migration and records it.  The rows of
\* the migrations before the ledger's are seeded by the ledger's own SQL, with
\* a placeholder for the hash.
Apply(p) ==
  LET m == at[p] IN
  /\ pc[p] = "loop"
  /\ ~ (exists[p] /\ Recorded(m))
  /\ applied' = applied \cup {m}
  /\ body' = [f \in Func |-> IF f \in Defines[m] THEN m ELSE body[f]]
  /\ ledger' = [k \in Migration |->
       IF k = m /\ (exists[p] \/ m >= LedgerAt) THEN "real"
       ELSE IF m = LedgerAt /\ k \in Bootstrap /\ ledger[k] = "none" THEN "placeholder"
       ELSE ledger[k]]
  /\ Advance(p)
  /\ UNCHANGED <<conn, exists, calls, held>>

\* Mutated: an update that touches no row is tried again.
Backfill_untilOneRow(p) ==
  /\ pc[p] = "backfill"
  /\ IF at[p] \in Bootstrap
     THEN /\ ledger' = [ledger EXCEPT ![at[p]] = IF @ = "placeholder" THEN "real" ELSE @]
          /\ at' = [at EXCEPT ![p] = IF ledger[@] = "placeholder" THEN @ + 1 ELSE @]
          /\ UNCHANGED pc
     ELSE Goto(p, "unlock") /\ UNCHANGED <<at, ledger>>
  /\ UNCHANGED <<conn, exists, calls, held, applied, body>>

\* update donto_migration set sha256 = $2 where ... sha256 = decode('00','hex'):
\* one autocommitted statement for each bootstrap migration.
Backfill(p) ==
  /\ pc[p] = "backfill"
  /\ IF at[p] \in Bootstrap
     THEN /\ ledger' = [ledger EXCEPT ![at[p]] = IF @ = "placeholder" THEN "real" ELSE @]
          /\ at' = [at EXCEPT ![p] = @ + 1]
          /\ UNCHANGED pc
     ELSE Goto(p, "unlock") /\ UNCHANGED <<at, ledger>>
  /\ UNCHANGED <<conn, exists, calls, held, applied, body>>

\* pg_advisory_unlock, and the connection goes back to the pool.
Unlock(p) ==
  /\ pc[p] = "unlock"
  /\ held' = [held EXCEPT ![conn[p]] = IF @ > 0 THEN @ - 1 ELSE 0]
  /\ conn' = [conn EXCEPT ![p] = NoConn]
  /\ Goto(p, "ok")
  /\ UNCHANGED <<exists, at, calls, database>>

Working == {"check", "loop", "backfill", "unlock"}

\* A statement fails: the transaction is rolled back and ? returns, which puts
\* the connection back into the pool as it is.
Error(p) ==
  /\ "error" \in Faults
  /\ pc[p] \in Working \cup {"lock"}
  /\ conn' = [conn EXCEPT ![p] = NoConn]
  /\ Goto(p, "failed")
  /\ UNCHANGED <<exists, at, calls, held, database>>

\* The process or its connection dies: the session ends, and its lock with it.
Lost(p) ==
  /\ "lost" \in Faults
  /\ pc[p] \in Working \cup {"lock"}
  /\ held' = [held EXCEPT ![conn[p]] = 0]
  /\ conn' = [conn EXCEPT ![p] = NoConn]
  /\ Goto(p, "failed")
  /\ UNCHANGED <<exists, at, calls, database>>

Step(p) == Lock(p) \/ CheckLedger(p) \/ Skip(p) \/ Apply(p) \/ Backfill(p) \/ Unlock(p)

Next == \E p \in Proc : Get(p) \/ Step(p) \/ Error(p) \/ Lost(p)

Spec == Init /\ [][Next]_vars

\* A call that can go on goes on.
FairSpec == Spec /\ \A p \in Proc : WF_vars(Step(p))
-----------------------------------------------------------------------------
(* Properties *)

TypeOK ==
  /\ pc \in [Proc -> Working \cup {"idle", "lock", "ok", "failed"}]
  /\ conn \in [Proc -> Conn \cup {NoConn}]
  /\ exists \in [Proc -> BOOLEAN]
  /\ at \in [Proc -> 1..N]
  /\ calls \in [Proc -> 0..MaxCalls]
  /\ held \in [Conn -> Nat]
  /\ ledger \in [Migration -> {"none", "placeholder", "real"}]
  /\ applied \subseteq Migration
  /\ body \in [Func -> 0..N]

\* No two calls are between the lock and the unlock at the same time, although
\* sessions die, statements fail and sessions hold the lock more than once.
OneMigrator ==
  \A p, q \in Proc : pc[p] \in Working /\ pc[q] \in Working => p = q

\* The ledger never runs ahead of the schema, whatever call dies where: a row
\* is there only when the migration's DDL is.
LedgerIsTrue == \A m \in Migration : ledger[m] # "none" => m \in applied

\* A database in which a call has succeeded has every migration, and no call in
\* progress takes one away.
SuccessIsComplete == (\E p \in Proc : pc[p] = "ok") => applied = Migration

\* Once the ledger holds the hash of every migration, no call redefines a
\* function any more, not even one that was waiting when the first install ran.
SettledSchema == [][(\A m \in Migration : ledger[m] = "real") => UNCHANGED body]_vars

\* Functions have the bodies of the last migrations that define them, whenever
\* a call has succeeded and nobody is migrating: "so that later overrides [...]
\* are not clobbered by re-running an earlier migration" (migrations.rs:457-459).
MigratedIsCurrent ==
  (\E p \in Proc : pc[p] = "ok") /\ (\A p \in Proc : pc[p] \notin Working)
    => \A f \in UNION {Defines[m] : m \in Migration} : body[f] = Latest(f)

\* A pooled session still holds the lock: an early return left it there, although
\* migrations.rs:449-450 expects it to be "released automatically when the
\* connection is returned to the pool".
LockLeaked == \E c \in Conn \ InUse : held[c] > 0

\* Every call of migrate() returns, whatever dies: only a lock that a failed call
\* has left with a pooled session can keep others waiting.
CallsReturn ==
  \A p \in Proc : pc[p] \in Working \cup {"lock"} ~> pc[p] \in {"ok", "failed"} \/ LockLeaked
-----------------------------------------------------------------------------
(* Strengthenings the proofs of MigrationsProofs rest on *)

\* Calls have sessions of their own, and one that works holds the lock.
SessionsOK ==
  /\ \A p, q \in Proc : conn[p] = conn[q] /\ conn[p] # NoConn => p = q
  /\ \A p \in Proc : pc[p] \in Working \cup {"lock"} <=> conn[p] # NoConn
  /\ \A p \in Proc : pc[p] \in Working => held[conn[p]] > 0
  /\ \A c, d \in Conn : held[c] > 0 /\ held[d] > 0 => c = d

\* The ledger's own row is committed with the table, and no row before it.
LedgerRow ==
  /\ LedgerTable => ledger[LedgerAt] = "real"
  /\ ~ LedgerTable => \A m \in Migration : ledger[m] = "none"

\* What a call has come past is applied.
Prefix ==
  \A p \in Proc :
    /\ pc[p] \in Working \ {"check"} /\ exists[p] => LedgerTable
    /\ pc[p] = "loop" => 1..(at[p] - 1) \subseteq applied
    /\ pc[p] \in {"backfill", "unlock", "ok"} => applied = Migration

\* A first install has recorded nothing of what it has still to do.
FirstInstall ==
  \A p \in Proc :
    pc[p] = "loop" /\ ~ exists[p] =>
      /\ \A k \in Bootstrap : ledger[k] # "real"
      /\ \A k \in at[p]..N : ledger[k] # "real"

MigrationsInv == TypeOK /\ SessionsOK /\ LedgerIsTrue /\ LedgerRow /\ Prefix /\ FirstInstall
=============================================================================
