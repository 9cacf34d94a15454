--------------------------- MODULE ConnectionPool ---------------------------
(***************************************************************************)
(* The database connections of the /v1 calls. A call holds the connection  *)
(* of its request session from its first query to the end of its response. *)
(* A stream is metered inside its response, on a session of its own: while *)
(* it holds one connection it asks the pool for another. The pool lends    *)
(* pool_size + max_overflow connections and lets a call wait for a limited *)
(* time.                                                                   *)
(***************************************************************************)
EXTENDS GatewayCalls

VARIABLE at   \* at[c]: where call c is

Places == {"new", "waiting", "serving", "streaming",
           "metering", "recording", "failing", "logging", "closed"}

At(labels) == {c \in Requests : at[c] \in labels}

\* The calls that ask the pool for a connection, and those that hold one or two.
Asking == At({"waiting", "metering", "failing"})
Holding == At({"serving", "streaming", "metering", "recording", "failing", "logging"})
HoldingTwo == At({"recording", "logging"})

Used == Cardinality(Holding) + Cardinality(HoldingTwo)

PoolInit == at = [c \in Requests |-> "new"]

-----------------------------------------------------------------------------
Move(c, from, to) == at[c] = from /\ at' = [at EXCEPT ![c] = to]

\* verify_api_key runs the first query of the request session.
Arrive(c) == Move(c, "new", "waiting")

\* The pool has a connection for whoever asks: the wrapper's sessions are opened
\* in its try block and, for a failure, in its except clause.
CheckOut(c) ==
  /\ Used < PoolSize
  /\ \/ Move(c, "waiting", "serving")
     \/ Move(c, "metering", "recording")
     \/ Move(c, "failing", "logging")

\* pool_timeout: no connection in time. Outside the wrapper, or inside its
\* except clause, that ends the call; inside its try block it is one more
\* exception to log.
TimeOut(c) ==
  \/ Move(c, "waiting", "closed")
  \/ Move(c, "metering", "failing")
  \/ Move(c, "failing", "closed")

\* Mutant: a plain call is metered on a session of its own, like a stream.
FinishOnOwnSession(c) == c \notin Streams /\ Move(c, "serving", "metering")

\* A plain call is metered, if it gets that far, on its request session.
Finish(c) == c \notin Streams /\ Move(c, "serving", "closed")

\* A stream is refused before it starts, or starts.
Stream(c) ==
  c \in Streams /\ (Move(c, "serving", "closed") \/ Move(c, "serving", "streaming"))

\* The last chunk is sent, or the provider failed.
EndStream(c) ==
  Move(c, "streaming", "metering") \/ Move(c, "streaming", "failing")

\* Mutant: a success that could not be recorded is recorded again.
RecordAgain(c) ==
  \/ Move(c, "recording", "closed")
  \/ Move(c, "recording", "metering")
  \/ Move(c, "logging", "closed")

\* record_usage is over. If it could not record a success, that is logged.
Record(c) ==
  \/ Move(c, "recording", "closed")
  \/ Move(c, "recording", "failing")
  \/ Move(c, "logging", "closed")

\* A stream's caller goes away.
HangUp(c) ==
  /\ c \in Streams
  /\ \E from \in {"streaming", "metering", "recording", "failing", "logging"} :
       Move(c, from, "closed")

Step(c) ==
  \/ CheckOut(c) \/ TimeOut(c) \/ Finish(c) \/ Stream(c) \/ EndStream(c) \/ Record(c)

PoolNext == \E c \in Requests : Arrive(c) \/ Step(c) \/ HangUp(c)

PoolSpec == PoolInit /\ [][PoolNext]_at

\* Queries, providers and the pool's timeout all come to an end; nobody has to
\* call, and nobody has to hang up.
PoolFairSpec == PoolSpec /\ \A c \in Requests : WF_at(Step(c))

-----------------------------------------------------------------------------
(* Properties.                                                             *)

(* The state has its type, and calls never hold more connections together  *)
(* than the pool lends, though one of them may hold two (session.py:11).   *)
PoolTypeOK ==
  /\ at \in [Requests -> Places]
  /\ Used <= PoolSize

\* Everyone waits on everyone: each connection is lent to a call that asks for
\* another, and a call that asks can only wait until one of them gives up.
Starved == Asking # {} /\ Used = PoolSize /\ Holding \subseteq Asking

(* The pool can be starved, and only in one way: every connection it has   *)
(* is lent to a stream whose body is sent and which now asks for a second  *)
(* one to be metered on. Plain calls, however many hold or wait, never add *)
(* to it. The engine's "pools suitable for high concurrency"             *)
(* (session.py:7) are so for calls that ask once (completions.py:74, 91).  *)
StarvedByStreams ==
  Starved => Cardinality(Streams \cap At({"metering", "failing"})) = PoolSize

(* Every call that asked for a connection comes to its end and gives back  *)
(* what it held, even when the pool is starved (completions.py:74, 91).    *)
EveryCallEnds == \A c \in Requests : at[c] = "waiting" ~> at[c] = "closed"

=============================================================================
