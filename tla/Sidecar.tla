------------------------------ MODULE Sidecar ------------------------------
(***************************************************************************)
(* The Lean sidecar: POST /shapes/validate for lean: shapes, the           *)
(* LeanClient that hands requests to one donto_engine child over a single  *)
(* stdin/stdout pair, and the engine's read-answer loop.                   *)
(*                                                                         *)
(* Handlers are tokio tasks.  Whatever one holds when its client           *)
(* disconnects is dropped with its future: the mutex guard, the pooled     *)
(* connection, a half-written line.  What is in the pipes stays there.     *)
(***************************************************************************)
EXTENDS Naturals, Sequences, FiniteSets

CONSTANTS
  Request,    \* requests for a lean: shape, all served by one dontosrv
  PoolSize,   \* connections of the pool they resolve their scopes with
  Nobody

ASSUME RequestsAreFinite == IsFiniteSet(Request)
ASSUME PoolHasConnections == PoolSize \in Nat \ {0}
ASSUME Words == {"none", "empty", "error", "offline", "failed", "left", "cut", "garbled", Nobody} \cap Request = {}

VARIABLES
  pc,         \* where each handler is
  out,        \* how each request ended; for an answer, the request the engine answered
  holding,    \* the handlers that hold a pooled connection
  guard,      \* the handler that holds the guard of the LeanClient's mutex
  child,      \* Inner.child: TRUE for Some
  engine,     \* the engine process
  partial,    \* stdin after the last newline: whose envelopes it is made of
  stdin,      \* whole lines the engine has not read
  stdout      \* response lines not read yet; cut when their beginning is lost

pipes == <<partial, stdin, stdout>>
vars == <<pc, out, holding, guard, child, engine, partial, stdin, stdout>>

\* A handler that is using the pipes, under REQUEST_TIMEOUT.
Engaged(r) == pc[r] \in {"write", "flush", "read"}

Init ==
  /\ pc = [r \in Request |-> "new"]
  /\ out = [r \in Request |-> "none"]
  /\ holding = {}
  /\ guard = Nobody
  /\ child = TRUE
  /\ engine = "up"
  /\ partial = <<>>
  /\ stdin = <<>>
  /\ stdout = <<>>
-----------------------------------------------------------------------------
(* forward_to_lean *)

\* The handler ends with an outcome and drops what it holds.
End(r, outcome) ==
  /\ pc' = [pc EXCEPT ![r] = "ended"]
  /\ out' = [out EXCEPT ![r] = outcome]
  /\ holding' = holding \ {r}
  /\ guard' = IF guard = r THEN Nobody ELSE guard

\* No report of a lean: shape is ever cached, so every request is forwarded.
Receive(r) ==
  /\ pc[r] = "new"
  /\ pc' = [pc EXCEPT ![r] = "conn"]
  /\ UNCHANGED <<out, holding, guard, child, engine, pipes>>

\* Mutated: a connection is opened for whoever asks.
TakeConnection_unbounded(r) ==
  /\ pc[r] = "conn"
  /\ holding' = holding \cup {r}
  /\ pc' = [pc EXCEPT ![r] = "scope"]
  /\ UNCHANGED <<out, guard, child, engine, pipes>>

\* pool.get() waits for a free connection, without limit.
TakeConnection(r) ==
  /\ pc[r] = "conn"
  /\ Cardinality(holding) < PoolSize
  /\ holding' = holding \cup {r}
  /\ pc' = [pc EXCEPT ![r] = "scope"]
  /\ UNCHANGED <<out, guard, child, engine, pipes>>

\* The scope and its open statements are read, and lean.send() asks for the
\* mutex.  The connection is kept until the handler ends.
ReadScope(r) ==
  /\ pc[r] = "scope"
  /\ pc' = [pc EXCEPT ![r] = "queued"]
  /\ UNCHANGED <<out, holding, guard, child, engine, pipes>>

\* An empty scope is answered without the engine, a failed query with an error.
ScopeIsEmpty(r) ==
  /\ pc[r] = "scope"
  /\ \E outcome \in {"empty", "error"} : End(r, outcome)
  /\ UNCHANGED <<child, engine, pipes>>
-----------------------------------------------------------------------------
(* LeanClient::send *)

Offline(r) ==
  /\ pc[r] = "queued" /\ guard = Nobody
  /\ ~ child
  /\ End(r, "offline")
  /\ UNCHANGED <<child, engine, pipes>>

Lock(r) ==
  /\ pc[r] = "queued" /\ guard = Nobody
  /\ child
  /\ guard' = r
  /\ pc' = [pc EXCEPT ![r] = "write"]
  /\ UNCHANGED <<out, holding, child, engine, pipes>>

\* write_all: a pipe takes a long line in pieces.
WritePart(r) ==
  /\ pc[r] = "write"
  /\ engine # "exited"
  /\ partial' = Append(partial, r)
  /\ pc' = [pc EXCEPT ![r] = "flush"]
  /\ UNCHANGED <<out, holding, guard, child, engine, stdin, stdout>>

\* The rest of the line, with its newline.
WriteRest(r) ==
  /\ pc[r] = "flush"
  /\ engine # "exited"
  /\ stdin' = Append(stdin, partial)
  /\ partial' = <<>>
  /\ pc' = [pc EXCEPT ![r] = "read"]
  /\ UNCHANGED <<out, holding, guard, child, engine, stdout>>

\* read_line returns the next line of stdout, whosever it is.
ReadLine(r) ==
  /\ pc[r] = "read"
  /\ stdout # <<>>
  /\ ~ Head(stdout).cut
  /\ stdout' = Tail(stdout)
  /\ End(r, Head(stdout).of)
  /\ UNCHANGED <<child, engine, partial, stdin>>

\* An I/O error, an end of file or a line that does not parse: the child is
\* given up for good.
Fails(r) ==
  /\ \/ pc[r] \in {"write", "flush"} /\ engine = "exited"
     \/ pc[r] = "read" /\ stdout = <<>> /\ engine = "exited"
     \/ pc[r] = "read" /\ stdout # <<>> /\ Head(stdout).cut
  /\ child' = FALSE
  /\ End(r, "failed")
  /\ UNCHANGED <<engine, pipes>>

\* Mutated: only what is written is under the time limit.
Timeout_writesOnly(r) ==
  /\ pc[r] \in {"write", "flush"}
  /\ child' = FALSE
  /\ End(r, "failed")
  /\ UNCHANGED <<engine, pipes>>

\* Mutated: the child is kept after a timeout.
Timeout_keepsChild(r) ==
  /\ Engaged(r)
  /\ child' = child
  /\ End(r, "failed")
  /\ UNCHANGED <<engine, pipes>>

\* REQUEST_TIMEOUT passes.
Timeout(r) ==
  /\ Engaged(r)
  /\ child' = FALSE
  /\ End(r, "failed")
  /\ UNCHANGED <<engine, pipes>>

\* The client disconnects and the handler's future is dropped.  read_line is
\* not cancellation safe: what it has read of a line is lost.
Disconnect(r) ==
  /\ pc[r] \notin {"new", "ended"}
  /\ \/ UNCHANGED stdout
     \/ /\ pc[r] = "read"
        /\ stdout # <<>>
        /\ stdout' = [stdout EXCEPT ![1].cut = TRUE]
  /\ End(r, IF Engaged(r) THEN "cut" ELSE "left")
  /\ UNCHANGED <<child, engine, partial, stdin>>
-----------------------------------------------------------------------------
(* donto_engine *)

\* dispatch gives one response per line: a report, or an error for a line made
\* of pieces of several envelopes.
Answered(line) == <<[of |-> IF Len(line) = 1 THEN Head(line) ELSE "garbled", cut |-> FALSE]>>

Loop ==
  /\ engine = "up"
  /\ stdin # <<>>
  /\ stdin' = Tail(stdin)
  /\ stdout' = stdout \o Answered(Head(stdin))
  /\ UNCHANGED <<pc, out, holding, guard, child, engine, partial>>

\* The engine dies or hangs, or reads the end of file its parent left.
Stops ==
  /\ engine = "up"
  /\ engine' \in {"wedged", "exited"}
  /\ UNCHANGED <<pc, out, holding, guard, child, pipes>>

-----------------------------------------------------------------------------
Handle(r) ==
  \/ TakeConnection(r) \/ ReadScope(r) \/ ScopeIsEmpty(r)
  \/ Offline(r) \/ Lock(r) \/ WritePart(r) \/ WriteRest(r) \/ ReadLine(r)
  \/ Fails(r) \/ Timeout(r)

Next == Loop \/ Stops \/ \E r \in Request : Receive(r) \/ Handle(r) \/ Disconnect(r)

Spec == Init /\ [][Next]_vars

\* The runtime polls every handler that can go on, and timers fire.  Nothing is
\* assumed of the engine.
FairSpec == Spec /\ \A r \in Request : WF_vars(Handle(r))
-----------------------------------------------------------------------------
(* Properties *)

Outcome == Request \cup {"none", "empty", "error", "offline", "failed", "left", "cut", "garbled"}
Answer == [of : Request \cup {"garbled"}, cut : BOOLEAN]

\* The handlers, the pool, the mutex and the pipes keep their types; the
\* connections of the pool are never more than it has.
TypeOK ==
  /\ pc \in [Request -> {"new", "conn", "scope", "queued", "write", "flush", "read", "ended"}]
  /\ out \in [Request -> Outcome]
  /\ holding \in SUBSET Request
  /\ Cardinality(holding) <= PoolSize
  /\ guard \in Request \cup {Nobody}
  /\ child \in BOOLEAN
  /\ engine \in {"up", "wedged", "exited"}
  /\ partial \in Seq(Request)
  /\ stdin \in Seq(Seq(Request))
  /\ stdout \in Seq(Answer)

\* "Send one envelope, await one response" over a stdio pair whose reads and
\* writes are never interleaved (lean.rs:3-6, 115): the report a client gets is
\* not the engine's answer to another request.
OwnAnswer == \A r \in Request : out[r] \in Request => out[r] = r

\* As long as no client has disconnected in the middle of an exchange, whatever
\* engine failures, timeouts and other disconnections there were, every report
\* is the engine's answer to the request it is returned for.
OwnUnlessCut ==
  (\A r \in Request : out[r] # "cut") =>
    \A r \in Request : out[r] \in Request \cup {"garbled"} => out[r] = r

\* Every request ends, also when the engine hangs in the middle of an answer
\* and requests wait for the mutex and for a connection behind it: "rather than
\* blocking the HTTP handler forever" (lean.rs:13-15).
RequestsEnd == \A r \in Request : pc[r] # "new" ~> pc[r] = "ended"
-----------------------------------------------------------------------------
(* Strengthenings the proofs of SidecarProofs rest on *)

\* An outcome is final, and the pipes are used under the mutex, while the
\* child is there.
Exclusive ==
  \A r \in Request :
    /\ out[r] # "none" => pc[r] = "ended"
    /\ Engaged(r) => guard = r /\ child

\* What is in the pipes is the exchange under way, or nothing, unless an
\* exchange was cut.
Clean == partial = <<>> /\ stdin = <<>> /\ stdout = <<>>
Matched ==
  (child /\ \A r \in Request : out[r] # "cut") =>
    /\ (\A r \in Request : pc[r] \notin {"flush", "read"}) => Clean
    /\ \A r \in Request :
         /\ pc[r] = "flush" => partial = <<r>> /\ stdin = <<>> /\ stdout = <<>>
         /\ pc[r] = "read" =>
              /\ partial = <<>>
              /\ \/ stdin = <<<<r>>>> /\ stdout = <<>>
                 \/ stdin = <<>> /\ stdout = <<[of |-> r, cut |-> FALSE]>>

SidecarInv == TypeOK /\ Exclusive /\ Matched /\ OwnUnlessCut
=============================================================================
