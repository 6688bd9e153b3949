------------------------------ MODULE BeliefLog ------------------------------
(***************************************************************************)
(* What the statement ledger promises its readers: a log of beliefs that   *)
(* grows by atomic publications.  A publication opens new beliefs and      *)
(* closes open ones, all at one time; it never touches any other, and no   *)
(* content is ever believed twice.                                         *)
(***************************************************************************)
EXTENDS Naturals

CONSTANTS
  Id,       \* names of beliefs
  Content,  \* what can be believed
  Time,     \* transaction times, naturals
  Open,     \* the upper bound of a belief that is still held, not a natural
  Absent    \* the log at an id nobody has used

VARIABLE log

Held(i) == log[i] # Absent /\ log[i].hi = Open

Init == log = [i \in Id |-> Absent]

\* At time u, the ids of new come to hold f, and those of gone cease to hold.
Publish(u, new, f, gone) ==
  log' = [i \in Id |->
            IF i \in new THEN [content |-> f[i], lo |-> u, hi |-> Open]
            ELSE IF i \in gone THEN [log[i] EXCEPT !.hi = u]
            ELSE log[i]]

NoContentTwice ==
  \A i, j \in Id : Held(i) /\ Held(j) /\ log[i].content = log[j].content => i = j

Next ==
  \E u \in Time, new \in SUBSET {i \in Id : log[i] = Absent} :
    \E f \in [new -> Content], gone \in SUBSET {i \in Id : Held(i) /\ log[i].lo < u} :
      /\ Publish(u, new, f, gone)
      /\ NoContentTwice'

Spec == Init /\ [][Next]_log
=============================================================================
