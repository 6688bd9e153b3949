---------------------------- MODULE MCMigrations ----------------------------
(* Small instances of Migrations for TLC. *)
EXTENDS Migrations, TLC

CONSTANTS p, q, c1, c2, d1, assert, match

\* p has a pool of two connections, q a pool of one.
TwoPools == c1 :> p @@ c2 :> p @@ d1 :> q

\* 1 and 2 are the bootstrap migrations, 3 is 0004.  donto_assert is defined
\* before the ledger and again after it (0003, 0006), donto_match only after it.
FiveMigrations == <<{}, {assert}, {}, {assert, match}, {match}>>
=============================================================================
