---------------------------- MODULE LedgerBeliefs ----------------------------
(***************************************************************************)
(* The ledger implements the belief log: what committed transactions have  *)
(* written, read the way donto_match reads it, is a log of beliefs, and a  *)
(* commit is one publication.                                              *)
(***************************************************************************)
EXTENDS Ledger

CONSTANTS Open, Absent

ASSUME OpenUpperBound == Open \notin Nat
ASSUME AbsentName == Absent \notin [content : Content, lo : Nat, hi : Nat \cup {Open}]

\* The belief everybody sees at id i: upper(tx_time) is null while no committed
\* transaction has closed it.
Belief(i) ==
  IF Stored(i)
  THEN [content |-> stmt[i].content, lo |-> stmt[i].lo,
        hi |-> IF Closed(i) THEN stmt[i].hi ELSE Open]
  ELSE Absent

Log == INSTANCE BeliefLog WITH log <- [i \in Id |-> Belief(i)], Time <- 0..MaxTime

\* To its readers the ledger is the belief log: every step of every call is
\* invisible except its commit, which publishes everything the call wrote.
ImplementsBeliefLog == Log!Spec
=============================================================================
