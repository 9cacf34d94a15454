---------------------------- MODULE ModelRouter -----------------------------
(***************************************************************************)
(* ModelRouter: how one call becomes provider requests. A chat or an       *)
(* embedding is tried up to MaxRetries times with a backoff between tries; *)
(* a chat that still fails is tried as often on its fallback model. A      *)
(* stream is only set up here: its provider is contacted when the wrapper  *)
(* pulls the first chunk, after the router has returned. Administrators    *)
(* register, enable and disable models while calls are under way.          *)
(***************************************************************************)
EXTENDS Integers

CONSTANTS
  Calls,       \* the calls being routed
  Models,      \* the gateway's model names
  None,        \* no model
  Kind,        \* Kind[c]: "chat", "stream" or "embed"
  Want,        \* Want[c]: the model call c names
  Fallback,    \* Fallback[m]: capabilities["fallback_model"], or None
  Configured,  \* the models whose provider is supported and has an API key
  Upstream,    \* the error statuses providers answer with
  MaxRetries   \* max_retries of _execute_with_retry

Legs == {"primary", "fallback"}

Retryable == {429, 500, 502, 503, 504}

\* Every status a call can fail with: a provider's, or one the router raises.
Errors == Upstream \cup {400, 500, 502}

ASSUME ConstantsAssumption ==
  /\ None \notin Models
  /\ Kind \in [Calls -> {"chat", "stream", "embed"}]
  /\ Want \in [Calls -> Models]
  /\ Fallback \in [Models -> Models \cup {None}]
  /\ Configured \subseteq Models
  /\ Upstream \subseteq Nat \ {0, 200}
  /\ MaxRetries \in Nat \ {0}

VARIABLES
  registry,    \* registry[m]: "absent", "active" or "inactive"
  pc,          \* pc[c]: where call c is
  leg,         \* leg[c]: "primary" or "fallback"
  tries,       \* tries[c]: executions of func, on each leg
  err,         \* err[c]: the status of the last execution or lookup that failed
  primaryErr,  \* primary_err of the call, 0 if there is none
  served,      \* the entry the router returned
  reply        \* 0, then 200 or the status the call fails with

vars == <<registry, pc, leg, tries, err, primaryErr, served, reply>>

Target(c) == IF leg[c] = "primary" THEN Want[c] ELSE Fallback[Want[c]]

\* Streams are executed once, outside _execute_with_retry.
Attempts(c) == IF Kind[c] = "stream" THEN 1 ELSE MaxRetries

Init ==
  /\ registry \in [Models -> {"absent", "active", "inactive"}]
  /\ pc = [c \in Calls |-> "new"]
  /\ leg = [c \in Calls |-> "primary"]
  /\ tries = [c \in Calls |-> [l \in Legs |-> 0]]
  /\ err = [c \in Calls |-> 0]
  /\ primaryErr = [c \in Calls |-> 0]
  /\ served = [c \in Calls |-> None]
  /\ reply = [c \in Calls |-> 0]

-----------------------------------------------------------------------------
\* get_model_by_name finds an entry, whether or not it is active.
Registered(m) == m # None /\ registry[m] # "absent"

\* The call fails with this status, whatever became of its metering.
Raise(c, status) ==
  /\ pc' = [pc EXCEPT ![c] = "done"]
  /\ reply' = [reply EXCEPT ![c] = status]
  /\ UNCHANGED served

Route(c) ==
  /\ pc[c] = "new"
  /\ IF Registered(Want[c])
     THEN /\ pc' = [pc EXCEPT ![c] = "trying"]
          /\ UNCHANGED <<served, reply>>
     ELSE Raise(c, 400)
  /\ UNCHANGED <<registry, leg, tries, err, primaryErr>>

\* What a lookup that raises is turned into: the handlers wrap the exception of
\* a plain call, and route a stream outside their try block.
LookupStatus(c) == IF Kind[c] = "stream" THEN 500 ELSE 502

\* The database fails in the lookup of the wanted model or of its fallback.
LookupFails(c) ==
  /\ pc[c] \in {"new", "failover"}
  /\ err' = [err EXCEPT ![c] = LookupStatus(c)]
  /\ Raise(c, LookupStatus(c))
  /\ UNCHANGED <<registry, leg, tries, primaryErr>>

\* One execution of func on the leg's model.
Try(c) ==
  /\ pc[c] = "trying"
  /\ tries' = [tries EXCEPT ![c][leg[c]] = @ + 1]
  /\ UNCHANGED <<registry, leg>>

\* func returned: a response, or for a stream an unstarted generator.
Succeed(c) ==
  /\ Try(c)
  /\ Target(c) \in Configured
  /\ pc' = [pc EXCEPT ![c] = IF Kind[c] = "stream" THEN "streaming" ELSE "done"]
  /\ served' = [served EXCEPT ![c] = Target(c)]
  /\ reply' = [reply EXCEPT ![c] = 200]
  /\ UNCHANGED <<err, primaryErr>>

\* Mutants: any error is handed to the fallback; embeddings fail over too.
MayFailOverAlways(c, status) == Kind[c] # "embed" /\ Fallback[Want[c]] # None
MayFailOverAnyKind(c, status) == Fallback[Want[c]] # None /\ status \in Retryable

\* The primary leg's error sends the call to a fallback.
MayFailOver(c, status) ==
  Kind[c] # "embed" /\ Fallback[Want[c]] # None /\ status \in Retryable

\* Mutant: the primary's error is raised though the fallback failed last.
PrimaryStatus(c, status) == IF leg[c] = "fallback" THEN primaryErr[c] ELSE status

\* What the caller is told when both legs, or the only one, failed.
FinalStatus(c, status) == IF leg[c] = "fallback" THEN 502 ELSE status

\* The leg's error leaves the retry loop.
LeaveLeg(c, status) ==
  IF leg[c] = "primary" /\ MayFailOver(c, status)
  THEN /\ pc' = [pc EXCEPT ![c] = "failover"]
       /\ primaryErr' = [primaryErr EXCEPT ![c] = status]
       /\ UNCHANGED <<served, reply>>
  ELSE /\ Raise(c, FinalStatus(c, status))
       /\ UNCHANGED primaryErr

\* Mutants: one try too many; every error is retried.
MayRetryOnceMore(c, status) == status \in Retryable /\ tries[c][leg[c]] < Attempts(c)
MayRetryBlindly(c, status) == tries[c][leg[c]] + 1 < Attempts(c)

\* The error may pass and tries are left.
MayRetry(c, status) == status \in Retryable /\ tries[c][leg[c]] + 1 < Attempts(c)

\* func raised this status: try again after a backoff, or leave the leg.
Fail(c, status) ==
  /\ Try(c)
  /\ err' = [err EXCEPT ![c] = status]
  /\ IF MayRetry(c, status)
     THEN /\ pc' = [pc EXCEPT ![c] = "backoff"]
          /\ UNCHANGED <<primaryErr, served, reply>>
     ELSE LeaveLeg(c, status)

\* The provider is unsupported or has no key: 500 before any request is sent.
Misconfigured(c) == Target(c) \notin Configured /\ Fail(c, 500)

\* The provider answered with an error, or could not be reached: 502.
ProviderFails(c) ==
  /\ Kind[c] # "stream"
  /\ Target(c) \in Configured
  /\ \E status \in Upstream \cup {502} : Fail(c, status)

\* asyncio.sleep is over.
Wake(c) ==
  /\ pc[c] = "backoff"
  /\ pc' = [pc EXCEPT ![c] = "trying"]
  /\ UNCHANGED <<registry, leg, tries, err, primaryErr, served, reply>>

\* Mutant: a missing fallback is waited for.
FailOverWhenThere(c) ==
  /\ pc[c] = "failover"
  /\ Registered(Fallback[Want[c]])
  /\ pc' = [pc EXCEPT ![c] = "trying"]
  /\ leg' = [leg EXCEPT ![c] = "fallback"]
  /\ UNCHANGED <<registry, tries, err, primaryErr, served, reply>>

\* The fallback is looked up only now; if it is gone the primary's error stands.
FailOver(c) ==
  /\ pc[c] = "failover"
  /\ IF Registered(Fallback[Want[c]])
     THEN /\ pc' = [pc EXCEPT ![c] = "trying"]
          /\ leg' = [leg EXCEPT ![c] = "fallback"]
          /\ UNCHANGED <<served, reply>>
     ELSE /\ Raise(c, primaryErr[c])
          /\ UNCHANGED leg
  /\ UNCHANGED <<registry, tries, err, primaryErr>>

\* The generator runs: the provider streams its answer, or the first request to
\* it fails, which is outside the router by now.
StreamEnds(c) ==
  /\ pc[c] = "streaming"
  /\ pc' = [pc EXCEPT ![c] = "done"]
  /\ \/ UNCHANGED err
     \/ \E status \in Upstream \cup {502} : err' = [err EXCEPT ![c] = status]
  /\ UNCHANGED <<registry, leg, tries, primaryErr, served, reply>>

-----------------------------------------------------------------------------
\* Administrators: admin_create_model and admin_toggle_model.
CreateModel(m) ==
  /\ registry[m] = "absent"
  /\ \E state \in {"active", "inactive"} : registry' = [registry EXCEPT ![m] = state]
  /\ UNCHANGED <<pc, leg, tries, err, primaryErr, served, reply>>

ToggleModel(m) ==
  /\ registry[m] # "absent"
  /\ \E state \in {"active", "inactive"} : registry' = [registry EXCEPT ![m] = state]
  /\ UNCHANGED <<pc, leg, tries, err, primaryErr, served, reply>>

Step(c) ==
  \/ Route(c) \/ Succeed(c) \/ Misconfigured(c) \/ ProviderFails(c)
  \/ Wake(c) \/ FailOver(c) \/ StreamEnds(c)

Next ==
  \/ \E c \in Calls : Step(c) \/ LookupFails(c)
  \/ \E m \in Models : CreateModel(m) \/ ToggleModel(m)

Spec == Init /\ [][Next]_vars

\* Provider requests have a timeout and sleeps end; administrators owe nothing.
FairSpec == Spec /\ \A c \in Calls : WF_vars(Step(c))

-----------------------------------------------------------------------------
(* Properties.                                                             *)

(* The state has its type; in particular a reply is one of the statuses.   *)
TypeOK ==
  /\ registry \in [Models -> {"absent", "active", "inactive"}]
  /\ pc \in [Calls -> {"new", "trying", "backoff", "failover", "streaming", "done"}]
  /\ leg \in [Calls -> Legs]
  /\ tries \in [Calls -> [Legs -> Nat]]
  /\ err \in [Calls -> Errors \cup {0}]
  /\ primaryErr \in [Calls -> Errors \cup {0}]
  /\ served \in [Calls -> Models \cup {None}]
  /\ reply \in [Calls -> Errors \cup {0, 200}]

(* However models and providers behave, and whatever names what as its     *)
(* fallback (itself included), a call costs at most MaxRetries executions  *)
(* per leg and an embedding never leaves its model (router.py:237, 180).   *)
TriesBounded ==
  \A c \in Calls :
    /\ tries[c]["primary"] <= Attempts(c)
    /\ tries[c]["fallback"] <= Attempts(c)
    /\ Kind[c] = "embed" => tries[c]["fallback"] = 0

(* The fallback is contacted only after the primary was given all its      *)
(* tries and failed for a reason that may pass (router.py:101, 245).       *)
FailoverIsJustified ==
  \A c \in Calls :
    tries[c]["fallback"] > 0 =>
      /\ primaryErr[c] \in Retryable
      /\ tries[c]["primary"] = Attempts(c)
      /\ Registered(Fallback[Want[c]])

(* The error a caller sees names the right culprit: 502 once the fallback  *)
(* was tried, else whatever failed last, be it the primary or a lookup;    *)
(* and 400, the unknown model, only if nothing did (router.py:86-90, 122). *)
ErrorIsFaithful ==
  \A c \in Calls :
    reply[c] \notin {0, 200} =>
      reply[c] = CASE tries[c]["fallback"] > 0 -> 502
                   [] err[c] = 0 -> 400
                   [] OTHER -> err[c]

(* A stream whose provider cannot be reached, though it is configured, is  *)
(* tried on the fallback: the router "attempts immediate fallback lookup   *)
(* if connection setup fails" (router.py:130).                             *)
StreamSetupFailsOver ==
  \A c \in Calls :
    /\ Kind[c] = "stream" /\ pc[c] = "done" /\ err[c] \in Retryable
    /\ Want[c] \in Configured /\ tries[c]["primary"] > 0
    /\ Registered(Fallback[Want[c]])
    => tries[c]["fallback"] > 0

(* What makes them inductive: where a call stands in its retry loop.       *)
LoopInv ==
  \A c \in Calls :
    /\ pc[c] = "new" => leg[c] = "primary" /\ tries[c]["primary"] = 0 /\ err[c] = 0
    /\ tries[c][leg[c]] <= Attempts(c)
    /\ pc[c] \in {"trying", "backoff"} => tries[c][leg[c]] < Attempts(c)
    /\ pc[c] = "backoff" \/ (pc[c] = "trying" /\ tries[c][leg[c]] > 0)
         => err[c] \in Retryable
    /\ pc[c] = "failover" => leg[c] = "primary"
    /\ pc[c] = "failover" \/ leg[c] = "fallback" =>
         /\ tries[c]["primary"] = Attempts(c)
         /\ primaryErr[c] \in Retryable
         /\ primaryErr[c] = err[c] \/ leg[c] = "fallback"
         /\ Kind[c] # "embed" /\ Fallback[Want[c]] # None
    /\ leg[c] = "fallback" => Registered(Fallback[Want[c]])
    /\ leg[c] = "primary" => tries[c]["fallback"] = 0
    /\ leg[c] = "fallback" /\ pc[c] \in {"streaming", "done"} => tries[c]["fallback"] > 0
    /\ reply[c] # 0 => pc[c] \in {"streaming", "done"}
    /\ pc[c] = "streaming" => reply[c] = 200

(* A model is asked again only after an error that may pass, so an error   *)
(* of the caller's own (a 400, a 401) is never repeated (router.py:254).   *)
NoRepeatAfterFinal ==
  [][\A c \in Calls : \A l \in Legs :
       (tries'[c][l] # tries[c][l] /\ tries[c][l] > 0) =>
          err[c] \in Retryable /\ reply[c] = 0]_vars

(* Every call that is routed gets its reply: there comes a time after      *)
(* which none is under way.                                                *)
EveryCallEnds == <>[](\A c \in Calls : pc[c] \in {"new", "done"})

(* The retry engine implements the abstract dispatch.                      *)
Stage(c) ==
  CASE pc[c] = "new" -> "idle"
    [] pc[c] \in {"streaming", "done"} -> "done"
    [] OTHER -> leg[c]

stageBar == [c \in Calls |-> Stage(c)]

AbstractDispatch ==
  INSTANCE Dispatch
  WITH stage <- stageBar,
       CanFailOver <- {c \in Calls : Kind[c] # "embed" /\ Fallback[Want[c]] # None}

ImplementsDispatch == AbstractDispatch!Spec

=============================================================================
