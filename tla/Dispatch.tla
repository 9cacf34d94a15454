------------------------------ MODULE Dispatch ------------------------------
(***************************************************************************)
(* What routing promises, with no retries and no clocks: a call is refused *)
(* at once, or answered by the model it asked for, or handed once to that  *)
(* model's fallback, and it ends with one reply that never changes.        *)
(***************************************************************************)
EXTENDS Integers

CONSTANTS
  Calls,        \* the calls to route
  Want,         \* the model a call asks for
  Fallback,     \* a model's "fallback_model" capability
  CanFailOver,  \* the calls whose kind has a fallback at all
  Errors        \* the statuses a call may fail with

VARIABLES
  stage,   \* "idle", "primary", "fallback" or "done"
  served,  \* the model whose answer the caller gets
  reply    \* 0 until decided, then 200 or an error status

vars == <<stage, served, reply>>

CONSTANT None   \* no model

ModelAt(c) == IF stage[c] = "fallback" THEN Fallback[Want[c]] ELSE Want[c]

Init ==
  /\ stage = [c \in Calls |-> "idle"]
  /\ served = [c \in Calls |-> None]
  /\ reply = [c \in Calls |-> 0]

Begin(c) ==
  /\ stage[c] = "idle"
  /\ stage' = [stage EXCEPT ![c] = "primary"]
  /\ UNCHANGED <<served, reply>>

Answer(c) ==
  /\ stage[c] \in {"primary", "fallback"}
  /\ stage' = [stage EXCEPT ![c] = "done"]
  /\ served' = [served EXCEPT ![c] = ModelAt(c)]
  /\ reply' = [reply EXCEPT ![c] = 200]

FailOver(c) ==
  /\ stage[c] = "primary"
  /\ c \in CanFailOver
  /\ stage' = [stage EXCEPT ![c] = "fallback"]
  /\ UNCHANGED <<served, reply>>

\* The caller learns the primary's error, or 502 once the fallback failed too.
GiveUp(c, status) ==
  /\ \/ stage[c] \in {"idle", "primary"}
     \/ stage[c] = "fallback" /\ status = 502
  /\ stage' = [stage EXCEPT ![c] = "done"]
  /\ reply' = [reply EXCEPT ![c] = status]
  /\ UNCHANGED served

Next ==
  \E c \in Calls :
    Begin(c) \/ Answer(c) \/ FailOver(c) \/ \E status \in Errors : GiveUp(c, status)

Spec == Init /\ [][Next]_vars

=============================================================================
