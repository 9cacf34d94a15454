------------------------- MODULE ModelRouterProofs --------------------------
(* Proofs about ModelRouter, for every set of calls and models, every      *)
(* fallback assignment, every provider behaviour and every retry limit.    *)
EXTENDS ModelRouter, TLAPS

USE ConstantsAssumption DEF Legs

Inv == TypeOK /\ LoopInv /\ ErrorIsFaithful

(* No error status is 0 or 200.                                            *)
LEMMA ErrorsAreNat == Errors \subseteq Nat \ {0, 200}
BY DEF Errors

(* The invariant holds before any call is routed.                          *)
LEMMA InitInv == Init => Inv
BY DEF Init, Inv, TypeOK, LoopInv, ErrorIsFaithful, Attempts

\* The facts about one call that LoopInv and ErrorIsFaithful collect.
CallInv(c) ==
  /\ pc[c] = "new" => leg[c] = "primary" /\ tries[c]["primary"] = 0 /\ err[c] = 0
  /\ tries[c][leg[c]] <= Attempts(c)
  /\ pc[c] \in {"trying", "backoff"} => tries[c][leg[c]] < Attempts(c)
  /\ pc[c] = "backoff" \/ (pc[c] = "trying" /\ tries[c][leg[c]] > 0)
       => err[c] \in Retryable
  /\ pc[c] = "failover" => leg[c] = "primary"
  /\ pc[c] = "failover" \/ leg[c] = "fallback" =>
       /\ tries[c]["primary"] = Attempts(c)
       /\ primaryErr[c] \in Retryable
       /\ primaryErr[c] = err[c] \/ leg[c] = "fallback"
       /\ Kind[c] # "embed" /\ Fallback[Want[c]] # None
  /\ leg[c] = "fallback" => Registered(Fallback[Want[c]])
  /\ leg[c] = "primary" => tries[c]["fallback"] = 0
  /\ leg[c] = "fallback" /\ pc[c] \in {"streaming", "done"} => tries[c]["fallback"] > 0
  /\ reply[c] # 0 => pc[c] \in {"streaming", "done"}
  /\ pc[c] = "streaming" => reply[c] = 200
  /\ reply[c] \notin {0, 200} =>
       reply[c] = CASE tries[c]["fallback"] > 0 -> 502
                  [] err[c] = 0 -> 400
                  [] OTHER -> err[c]

(* The invariant speaks of each call by itself.                            *)
LEMMA InvIsPerCall == LoopInv /\ ErrorIsFaithful <=> \A c \in Calls : CallInv(c)
BY DEF LoopInv, ErrorIsFaithful, CallInv

\* A step of call c leaves the other calls and the registry alone.
OnlyMoves(c) ==
  /\ registry' = registry
  /\ \A q \in Calls \ {c} :
       /\ pc'[q] = pc[q] /\ leg'[q] = leg[q] /\ tries'[q] = tries[q]
       /\ err'[q] = err[q] /\ primaryErr'[q] = primaryErr[q] /\ reply'[q] = reply[q]

(* A step of one call keeps the invariant of the others.                   *)
LEMMA OthersKeep ==
  ASSUME Inv, NEW c \in Calls, OnlyMoves(c), CallInv(c)', TypeOK'
  PROVE  Inv'
<1>1. ASSUME NEW q \in Calls, q # c PROVE CallInv(q)'
  <2>1. CallInv(q)
    BY InvIsPerCall DEF Inv
  <2> QED BY <1>1, <2>1 DEF CallInv, OnlyMoves, Attempts, Registered
<1>2. \A q \in Calls : CallInv(q)'
  BY <1>1
<1>3. LoopInv' /\ ErrorIsFaithful'
  BY <1>2 DEF LoopInv, ErrorIsFaithful, CallInv
<1> QED BY <1>3 DEF Inv

(* Every kind of call is tried at least once.                              *)
LEMMA AttemptsPositive == \A c \in Calls : Attempts(c) \in Nat \ {0}
BY DEF Attempts

(* The lookup of the wanted model keeps the call's invariant.              *)
LEMMA RouteStep ==
  ASSUME Inv, NEW c \in Calls, Route(c)
  PROVE  Inv'
<1>1. CallInv(c) /\ Attempts(c) \in Nat \ {0}
  BY InvIsPerCall, AttemptsPositive DEF Inv
<1>2. OnlyMoves(c) /\ TypeOK'
  BY DEF Inv, TypeOK, Route, Raise, OnlyMoves, Errors
<1>3. CallInv(c)'
  BY <1>1 DEF Inv, TypeOK, Route, Raise, CallInv, Attempts
<1> QED BY <1>2, <1>3, OthersKeep

(* A lookup that raises ends the call, and with it its loop.               *)
LEMMA LookupStep ==
  ASSUME Inv, NEW c \in Calls, LookupFails(c)
  PROVE  Inv'
<1>1. CallInv(c) /\ TypeOK
  BY InvIsPerCall DEF Inv
<1>2. LookupStatus(c) \in Errors \ {0, 200}
  BY DEF LookupStatus, Errors
<1>3. /\ pc[c] \in {"new", "failover"} /\ UNCHANGED <<registry, leg, tries, primaryErr, served>>
      /\ err' = [err EXCEPT ![c] = LookupStatus(c)]
      /\ pc' = [pc EXCEPT ![c] = "done"] /\ reply' = [reply EXCEPT ![c] = LookupStatus(c)]
  BY DEF LookupFails, Raise
<1>4. OnlyMoves(c) /\ TypeOK'
  BY <1>1, <1>2, <1>3 DEF OnlyMoves, TypeOK
<1>5. err'[c] = LookupStatus(c) /\ pc'[c] = "done" /\ reply'[c] = LookupStatus(c)
  BY <1>1, <1>3 DEF TypeOK
<1>6. leg[c] = "primary" /\ tries[c]["fallback"] = 0 /\ tries[c]["fallback"] \in Nat
  BY <1>1, <1>3 DEF CallInv, TypeOK
<1>7. CallInv(c)'
  BY <1>1, <1>2, <1>3, <1>5, <1>6 DEF CallInv, Attempts, Registered
<1> QED BY <1>4, <1>7, OthersKeep

\* An execution of func, on whichever leg.
LEMMA TryCounts ==
  ASSUME TypeOK, NEW c \in Calls, Try(c)
  PROVE  /\ tries' \in [Calls -> [Legs -> Nat]]
         /\ \A q \in Calls \ {c} : tries'[q] = tries[q]
         /\ tries'[c][leg[c]] = tries[c][leg[c]] + 1
         /\ \A l \in Legs : l # leg[c] => tries'[c][l] = tries[c][l]
<1>1. leg[c] \in Legs /\ tries[c] \in [Legs -> Nat]
  BY DEF TypeOK
<1> QED BY <1>1 DEF Try, TypeOK

(* So does an execution that succeeds,                                     *)
LEMMA SucceedStep ==
  ASSUME Inv, NEW c \in Calls, Succeed(c)
  PROVE  Inv'
<1>1. CallInv(c) /\ TypeOK
  BY InvIsPerCall DEF Inv
<1>2. /\ tries' \in [Calls -> [Legs -> Nat]]
      /\ \A q \in Calls \ {c} : tries'[q] = tries[q]
      /\ tries'[c][leg[c]] = tries[c][leg[c]] + 1
      /\ \A l \in Legs : l # leg[c] => tries'[c][l] = tries[c][l]
  BY <1>1, TryCounts DEF Succeed
<1>3. Target(c) \in Models
  BY DEF Succeed
<1>4. OnlyMoves(c) /\ TypeOK'
  BY <1>1, <1>2, <1>3 DEF Succeed, Try, OnlyMoves, TypeOK
<1>5. CallInv(c)'
  <2>1. pc[c] = "trying" /\ reply'[c] = 200 /\ pc'[c] \in {"streaming", "done"}
        /\ leg' = leg /\ registry' = registry /\ err' = err /\ primaryErr' = primaryErr
    BY <1>1 DEF Succeed, Try, TypeOK
  <2>2. tries[c]["fallback"] \in Nat /\ tries'[c]["fallback"] \in Nat /\ leg[c] \in Legs
    BY <1>1, <1>2 DEF TypeOK
  <2>3. tries[c][leg[c]] \in Nat /\ Attempts(c) \in Nat /\ Attempts(c)' = Attempts(c)
        /\ tries[c][leg[c]] < Attempts(c)
    BY <1>1, <2>1, AttemptsPositive DEF TypeOK, CallInv, Attempts
  <2>4. leg[c] = "primary" => tries'[c]["fallback"] = tries[c]["fallback"]
    BY <1>2
  <2>5. leg[c] = "fallback" => tries'[c]["primary"] = tries[c]["primary"]
    BY <1>2
  <2> QED
    BY <1>1, <1>2, <2>1, <2>2, <2>3, <2>4, <2>5 DEF CallInv, Registered
<1> QED BY <1>4, <1>5, OthersKeep

(* one that fails, whether it is retried, failed over or raised,           *)
LEMMA FailStep ==
  ASSUME Inv, NEW c \in Calls, NEW status \in Errors, Fail(c, status)
  PROVE  Inv'
<1>1. CallInv(c) /\ TypeOK /\ Attempts(c) \in Nat \ {0} /\ status \notin {0, 200}
  BY InvIsPerCall, AttemptsPositive, ErrorsAreNat DEF Inv
<1>2. /\ tries' \in [Calls -> [Legs -> Nat]]
      /\ \A q \in Calls \ {c} : tries'[q] = tries[q]
      /\ tries'[c][leg[c]] = tries[c][leg[c]] + 1
      /\ \A l \in Legs : l # leg[c] => tries'[c][l] = tries[c][l]
  BY <1>1, TryCounts DEF Fail
<1>3. /\ pc[c] = "trying" /\ leg' = leg /\ registry' = registry
      /\ err' = [err EXCEPT ![c] = status] /\ err'[c] = status
      /\ leg[c] \in Legs /\ tries[c][leg[c]] \in Nat
      /\ tries[c]["primary"] \in Nat /\ tries[c]["fallback"] \in Nat
  BY <1>1 DEF Fail, Try, TypeOK
<1>4. reply[c] = 0 /\ tries[c][leg[c]] < Attempts(c)
  BY <1>1, <1>3 DEF CallInv
<1>5. CASE MayRetry(c, status)
  <2>1. /\ pc' = [pc EXCEPT ![c] = "backoff"] /\ UNCHANGED <<primaryErr, served, reply>>
        /\ status \in Retryable /\ tries[c][leg[c]] + 1 < Attempts(c)
    BY <1>5 DEF Fail, MayRetry
  <2>2. OnlyMoves(c) /\ TypeOK'
    BY <1>1, <1>2, <1>3, <2>1 DEF OnlyMoves, TypeOK
  <2>3. CallInv(c)'
    BY <1>1, <1>2, <1>3, <1>4, <2>1 DEF CallInv, Attempts, Registered, TypeOK
  <2> QED BY <2>2, <2>3, OthersKeep
<1>6. CASE ~MayRetry(c, status) /\ leg[c] = "primary" /\ MayFailOver(c, status)
  <2>1. /\ pc' = [pc EXCEPT ![c] = "failover"]
        /\ primaryErr' = [primaryErr EXCEPT ![c] = status]
        /\ UNCHANGED <<served, reply>>
        /\ status \in Retryable /\ Kind[c] # "embed" /\ Fallback[Want[c]] # None
        /\ tries[c]["primary"] + 1 = Attempts(c)
    BY <1>1, <1>3, <1>4, <1>6 DEF Fail, LeaveLeg, MayFailOver, MayRetry
  <2>2. OnlyMoves(c) /\ TypeOK'
    BY <1>1, <1>2, <1>3, <2>1 DEF OnlyMoves, TypeOK
  <2>3. CallInv(c)'
    BY <1>1, <1>2, <1>3, <1>4, <1>6, <2>1 DEF CallInv, Attempts, Registered, TypeOK
  <2> QED BY <2>2, <2>3, OthersKeep
<1>7. CASE ~MayRetry(c, status) /\ ~(leg[c] = "primary" /\ MayFailOver(c, status))
  <2>1. /\ pc' = [pc EXCEPT ![c] = "done"] /\ UNCHANGED <<served, primaryErr>>
        /\ reply' = [reply EXCEPT ![c] = FinalStatus(c, status)]
    BY <1>7 DEF Fail, LeaveLeg, Raise
  <2>2. FinalStatus(c, status) \in Errors
    BY DEF FinalStatus, Errors
  <2>3. OnlyMoves(c) /\ TypeOK'
    BY <1>1, <1>2, <1>3, <2>1, <2>2 DEF OnlyMoves, TypeOK
  <2>4. reply'[c] = (IF leg[c] = "fallback" THEN 502 ELSE status) /\ pc'[c] = "done"
        /\ primaryErr'[c] = primaryErr[c]
    BY <1>1, <2>1 DEF FinalStatus, TypeOK
  <2>5. CallInv(c)'
    <3>1. CASE leg[c] = "primary"
      BY <1>1, <1>2, <1>3, <1>4, <2>4, <3>1 DEF CallInv, Attempts, Registered
    <3>2. CASE leg[c] = "fallback"
      BY <1>1, <1>2, <1>3, <1>4, <2>4, <3>2 DEF CallInv, Attempts, Registered
    <3> QED BY <1>3, <3>1, <3>2
  <2> QED BY <2>3, <2>5, OthersKeep
<1> QED BY <1>5, <1>6, <1>7

(* the end of a backoff,                                                   *)
LEMMA WakeStep ==
  ASSUME Inv, NEW c \in Calls, Wake(c)
  PROVE  Inv'
<1>1. CallInv(c) /\ TypeOK
  BY InvIsPerCall DEF Inv
<1>2. OnlyMoves(c) /\ TypeOK'
  BY <1>1 DEF Wake, OnlyMoves, TypeOK
<1>3. CallInv(c)'
  BY <1>1 DEF Wake, CallInv, Attempts, Registered, TypeOK
<1> QED BY <1>2, <1>3, OthersKeep

(* the lookup of the fallback,                                             *)
LEMMA FailOverStep ==
  ASSUME Inv, NEW c \in Calls, FailOver(c)
  PROVE  Inv'
<1>1. CallInv(c) /\ TypeOK /\ Attempts(c) \in Nat \ {0}
  BY InvIsPerCall, AttemptsPositive DEF Inv
<1>2. /\ pc[c] = "failover" /\ leg[c] = "primary" /\ primaryErr[c] \in Retryable
      /\ primaryErr[c] = err[c] /\ tries[c]["primary"] = Attempts(c)
      /\ tries[c]["fallback"] = 0 /\ Kind[c] # "embed" /\ Fallback[Want[c]] # None
      /\ UNCHANGED <<registry, tries, err, primaryErr>> /\ reply[c] = 0
  BY <1>1 DEF FailOver, CallInv
<1>3. CASE Registered(Fallback[Want[c]])
  <2>1. /\ pc' = [pc EXCEPT ![c] = "trying"] /\ leg' = [leg EXCEPT ![c] = "fallback"]
        /\ UNCHANGED <<served, reply>>
    BY <1>3 DEF FailOver
  <2>2. OnlyMoves(c) /\ TypeOK'
    BY <1>1, <1>2, <2>1 DEF OnlyMoves, TypeOK
  <2>3. CallInv(c)'
    BY <1>1, <1>2, <1>3, <2>1 DEF CallInv, Attempts, Registered, TypeOK
  <2> QED BY <2>2, <2>3, OthersKeep
<1>4. CASE ~Registered(Fallback[Want[c]])
  <2>1. /\ pc' = [pc EXCEPT ![c] = "done"] /\ UNCHANGED <<served, leg>>
        /\ reply' = [reply EXCEPT ![c] = primaryErr[c]]
    BY <1>4 DEF FailOver, Raise
  <2>2. primaryErr[c] \in Errors
    BY <1>1, <1>2 DEF TypeOK, Retryable
  <2>3. OnlyMoves(c) /\ TypeOK'
    BY <1>1, <1>2, <2>1, <2>2 DEF OnlyMoves, TypeOK
  <2>4. CallInv(c)'
    BY <1>1, <1>2, <2>1 DEF CallInv, Attempts, Registered, TypeOK
  <2> QED BY <2>3, <2>4, OthersKeep
<1> QED BY <1>3, <1>4

(* and the end of a stream.                                                *)
LEMMA StreamEndsStep ==
  ASSUME Inv, NEW c \in Calls, StreamEnds(c)
  PROVE  Inv'
<1>1. CallInv(c) /\ TypeOK
  BY InvIsPerCall DEF Inv
<1>2. OnlyMoves(c) /\ TypeOK'
  BY <1>1 DEF StreamEnds, OnlyMoves, TypeOK, Errors
<1>3. CallInv(c)'
  BY <1>1 DEF StreamEnds, CallInv, Attempts, Registered, TypeOK
<1> QED BY <1>2, <1>3, OthersKeep

\* An administrator's step never takes a model out of the registry.
LEMMA RegistryStep ==
  ASSUME Inv, NEW m \in Models, CreateModel(m) \/ ToggleModel(m)
  PROVE  Inv'
<1>1. /\ UNCHANGED <<pc, leg, tries, err, primaryErr, served, reply>>
      /\ registry' \in [Models -> {"absent", "active", "inactive"}]
      /\ \A n \in Models : registry[n] # "absent" => registry'[n] # "absent"
  BY DEF CreateModel, ToggleModel, Inv, TypeOK
<1>2. TypeOK'
  BY <1>1 DEF Inv, TypeOK
<1>3. \A n \in Models \cup {None} : Registered(n) => Registered(n)'
  BY <1>1 DEF Registered
<1>4. ASSUME NEW c \in Calls PROVE CallInv(c)'
  <2>1. CallInv(c) /\ Fallback[Want[c]] \in Models \cup {None}
    BY InvIsPerCall DEF Inv
  <2> QED BY <1>1, <1>3, <2>1 DEF CallInv, Attempts
<1>5. LoopInv' /\ ErrorIsFaithful'
  BY <1>4 DEF LoopInv, ErrorIsFaithful, CallInv
<1> QED BY <1>2, <1>5 DEF Inv

(* Every step keeps the invariant.                                         *)
LEMMA InvStep ==
  ASSUME Inv, [Next]_vars
  PROVE  Inv'
<1>1. ASSUME NEW c \in Calls, Misconfigured(c) \/ ProviderFails(c) PROVE Inv'
  <2>1. PICK status \in Errors : Fail(c, status)
    BY <1>1 DEF Misconfigured, ProviderFails, Errors
  <2> QED BY <2>1, FailStep
<1>2. ASSUME NEW c \in Calls, Step(c) PROVE Inv'
  BY <1>1, <1>2, RouteStep, SucceedStep, WakeStep, FailOverStep, StreamEndsStep DEF Step
<1>3. CASE UNCHANGED vars
  BY <1>3 DEF vars, Inv, TypeOK, LoopInv, ErrorIsFaithful, Attempts, Registered
<1> QED BY <1>2, <1>3, LookupStep, RegistryStep DEF Next

(* The retry loop's invariant holds in every behaviour.                    *)
THEOREM RouterInvariant == Spec => []Inv
<1>1. Inv /\ [Next]_vars => Inv'
  BY InvStep
<1> QED BY <1>1, InitInv, PTL DEF Spec

(* The router's state has its type.                                        *)
THEOREM RouterTypeCorrect == Spec => []TypeOK
<1>1. Inv => TypeOK
  BY DEF Inv
<1> QED BY <1>1, RouterInvariant, PTL

(* A call costs at most MaxRetries executions on each of two legs, however *)
(* providers fail and models name each other as fallbacks.                 *)
THEOREM TriesAreBounded == Spec => []TriesBounded
<1>1. Inv => TriesBounded
  <2> SUFFICES ASSUME Inv, NEW c \in Calls
               PROVE  /\ tries[c]["primary"] <= Attempts(c)
                      /\ tries[c]["fallback"] <= Attempts(c)
                      /\ Kind[c] = "embed" => tries[c]["fallback"] = 0
    BY DEF TriesBounded
  <2> QED BY InvIsPerCall, AttemptsPositive DEF Inv, CallInv, TypeOK
<1> QED BY <1>1, RouterInvariant, PTL

(* The fallback is contacted only after the primary had all its tries and  *)
(* failed for a reason that may pass.                                      *)
THEOREM FailoverCorrect == Spec => []FailoverIsJustified
<1>1. Inv => FailoverIsJustified
  BY InvIsPerCall DEF Inv, CallInv, TypeOK, FailoverIsJustified
<1> QED BY <1>1, RouterInvariant, PTL

(* The status a caller gets is the one the failing leg accounts for.       *)
THEOREM ErrorsAreFaithful == Spec => []ErrorIsFaithful
<1>1. Inv => ErrorIsFaithful
  BY DEF Inv
<1> QED BY <1>1, RouterInvariant, PTL

(* No execution follows, on its leg, an error that will not pass.          *)
THEOREM NoRepeat == Spec => NoRepeatAfterFinal
<1>1. Inv /\ [Next]_vars =>
        [\A c \in Calls : \A l \in Legs :
           (tries'[c][l] # tries[c][l] /\ tries[c][l] > 0) =>
              err[c] \in Retryable /\ reply[c] = 0]_vars
  <2> SUFFICES ASSUME Inv, [Next]_vars, NEW c \in Calls, NEW l \in Legs,
                      tries'[c][l] # tries[c][l], tries[c][l] > 0
               PROVE  err[c] \in Retryable /\ reply[c] = 0
    OBVIOUS
  <2>1. CASE Try(c)
    <3>1. l = leg[c]
      BY <2>1, TryCounts DEF Inv
    <3> QED BY <2>1, <3>1, InvIsPerCall DEF Inv, CallInv, Try
  <2>2. ASSUME NEW d \in Calls, Try(d), d # c PROVE FALSE
    BY <2>2, TryCounts DEF Inv
  <2>3. ASSUME NEW d \in Calls, Step(d) PROVE Try(d) \/ tries' = tries
    BY <2>3 DEF Step, Route, Succeed, Misconfigured, ProviderFails, Fail, Wake,
                FailOver, StreamEnds
  <2>4. (\E d \in Calls : Try(d)) \/ tries' = tries
    BY <2>3 DEF Next, LookupFails, CreateModel, ToggleModel, vars
  <2> QED BY <2>1, <2>2, <2>4
<1> QED BY <1>1, RouterInvariant, PTL DEF Spec, NoRepeatAfterFinal

-----------------------------------------------------------------------------
(* The abstract dispatch: retries and backoffs are stuttering steps.       *)

\* A step of c moves the abstract stage of c only.
LEMMA StageMoves ==
  ASSUME TypeOK, TypeOK', NEW c \in Calls, NEW s,
         \A q \in Calls \ {c} : pc'[q] = pc[q] /\ leg'[q] = leg[q],
         stageBar'[c] = s
  PROVE  stageBar' = [stageBar EXCEPT ![c] = s]
<1>1. \A q \in Calls \ {c} : Stage(q)' = Stage(q)
  BY DEF Stage
<1>2. stageBar \in [Calls -> {"idle", "primary", "fallback", "done"}]
      /\ stageBar' \in [Calls -> {"idle", "primary", "fallback", "done"}]
  BY DEF stageBar, Stage, TypeOK
<1>3. \A q \in Calls \ {c} : stageBar'[q] = stageBar[q]
  BY <1>1 DEF stageBar
<1>4. ASSUME NEW T, NEW f \in [Calls -> T], NEW g \in [Calls -> T], g[c] = s,
             \A q \in Calls \ {c} : g[q] = f[q]
      PROVE  g = [f EXCEPT ![c] = s]
  BY <1>4
<1> QED BY <1>2, <1>3, <1>4

(* No call is dispatched initially.                                        *)
LEMMA DispatchInit == Init => AbstractDispatch!Init
BY DEF Init, AbstractDispatch!Init, stageBar, Stage

(* Every step is a dispatch step or a stutter.                             *)
LEMMA DispatchStep ==
  ASSUME Inv, Inv', [Next]_vars
  PROVE  [AbstractDispatch!Next]_(AbstractDispatch!vars)
<1> USE DEF AbstractDispatch!Next, AbstractDispatch!vars
<1> DEFINE Goal == [AbstractDispatch!Next]_(AbstractDispatch!vars)
<1>0. TypeOK /\ TypeOK'
  BY DEF Inv
<1>1. CASE UNCHANGED <<pc, leg, served, reply>>
  BY <1>1 DEF stageBar, Stage
<1>2. ASSUME NEW c \in Calls, NEW status \in Errors, Raise(c, status),
             pc[c] \in {"new", "trying", "failover"}, leg' = leg,
             leg[c] = "fallback" => status = 502 /\ pc[c] = "trying"
      PROVE  Goal
  <2>1. pc' = [pc EXCEPT ![c] = "done"] /\ reply' = [reply EXCEPT ![c] = status]
        /\ served' = served
    BY <1>2 DEF Raise
  <2>2. stageBar'[c] = "done" /\ stageBar[c] \in {"idle", "primary", "fallback"}
        /\ (stageBar[c] = "fallback" => leg[c] = "fallback")
    BY <1>0, <1>2, <2>1 DEF stageBar, Stage, TypeOK
  <2>3. stageBar' = [stageBar EXCEPT ![c] = "done"]
    BY <1>0, <1>2, <2>1, <2>2, StageMoves DEF TypeOK
  <2>4. AbstractDispatch!GiveUp(c, status)
    BY <1>2, <2>1, <2>2, <2>3 DEF AbstractDispatch!GiveUp
  <2> QED BY <2>4
<1>3. ASSUME NEW c \in Calls, Route(c) PROVE Goal
  <2>1. CASE Registered(Want[c])
    <3>1. stageBar[c] = "idle" /\ stageBar'[c] = "primary"
      BY <1>0, <1>3, <2>1, InvIsPerCall DEF Inv, CallInv, Route, stageBar, Stage, TypeOK
    <3>2. stageBar' = [stageBar EXCEPT ![c] = "primary"]
      BY <1>0, <1>3, <2>1, <3>1, StageMoves DEF Route, TypeOK
    <3>3. AbstractDispatch!Begin(c)
      BY <1>3, <2>1, <3>1, <3>2 DEF Route, AbstractDispatch!Begin
    <3> QED BY <3>3
  <2>2. CASE ~Registered(Want[c])
    <3>1. leg[c] = "primary"
      BY <1>3, InvIsPerCall DEF Inv, CallInv, Route
    <3> QED BY <1>2, <1>3, <2>2, <3>1 DEF Route, Errors
  <2> QED BY <2>1, <2>2
<1>4. ASSUME NEW c \in Calls, Succeed(c) PROVE Goal
  <2>1. stageBar[c] = leg[c] /\ stageBar'[c] = "done"
    BY <1>0, <1>4 DEF Succeed, Try, stageBar, Stage, TypeOK
  <2>2. stageBar' = [stageBar EXCEPT ![c] = "done"]
    BY <1>0, <1>4, <2>1, StageMoves DEF Succeed, Try, TypeOK
  <2>3. AbstractDispatch!ModelAt(c) = Target(c)
    BY <1>0, <2>1 DEF AbstractDispatch!ModelAt, Target, TypeOK
  <2>4. AbstractDispatch!Answer(c)
    BY <1>0, <1>4, <2>1, <2>2, <2>3 DEF Succeed, AbstractDispatch!Answer, TypeOK
  <2> QED BY <2>4
<1>5. ASSUME NEW c \in Calls, NEW status \in Errors, Fail(c, status) PROVE Goal
  <2>1. pc[c] = "trying" /\ leg' = leg
    BY <1>5 DEF Fail, Try
  <2>2. CASE ~MayRetry(c, status) /\ ~(leg[c] = "primary" /\ MayFailOver(c, status))
    <3>1. Raise(c, FinalStatus(c, status))
      BY <1>5, <2>2 DEF Fail, LeaveLeg
    <3>2. FinalStatus(c, status) \in Errors
          /\ (leg[c] = "fallback" => FinalStatus(c, status) = 502)
      BY DEF FinalStatus, Errors
    <3> QED BY <1>2, <2>1, <3>1, <3>2
  <2>3. CASE MayRetry(c, status) \/ (leg[c] = "primary" /\ MayFailOver(c, status))
    <3>1. PICK p \in {"backoff", "failover"} : pc' = [pc EXCEPT ![c] = p]
      BY <1>5, <2>3 DEF Fail, LeaveLeg
    <3>2. UNCHANGED <<served, reply>>
      BY <1>5, <2>3 DEF Fail, LeaveLeg
    <3>3. stageBar' = stageBar
      BY <1>0, <2>1, <3>1 DEF stageBar, Stage, TypeOK
    <3> QED BY <3>2, <3>3
  <2> QED BY <2>2, <2>3
<1>6. ASSUME NEW c \in Calls, Wake(c) PROVE Goal
  <2>1. stageBar' = stageBar
    BY <1>0, <1>6 DEF Wake, stageBar, Stage, TypeOK
  <2> QED BY <1>6, <2>1 DEF Wake
<1>7. ASSUME NEW c \in Calls, FailOver(c) PROVE Goal
  <2>1. leg[c] = "primary" /\ Kind[c] # "embed" /\ Fallback[Want[c]] # None
        /\ primaryErr[c] \in Retryable /\ pc[c] = "failover"
    BY <1>7, InvIsPerCall DEF Inv, CallInv, FailOver
  <2>2. CASE Registered(Fallback[Want[c]])
    <3>1. stageBar[c] = "primary" /\ stageBar'[c] = "fallback"
      BY <1>0, <1>7, <2>1, <2>2 DEF FailOver, stageBar, Stage, TypeOK
    <3>2. stageBar' = [stageBar EXCEPT ![c] = "fallback"]
      BY <1>0, <1>7, <2>2, <3>1, StageMoves DEF FailOver, TypeOK
    <3>3. AbstractDispatch!FailOver(c)
      BY <1>7, <2>1, <2>2, <3>1, <3>2 DEF FailOver, AbstractDispatch!FailOver
    <3> QED BY <3>3
  <2>3. CASE ~Registered(Fallback[Want[c]])
    <3>1. primaryErr[c] \in Errors
      BY <1>0, <2>1 DEF TypeOK, Retryable
    <3> QED BY <1>2, <1>7, <2>1, <2>3, <3>1 DEF FailOver
  <2> QED BY <2>2, <2>3
<1>8. ASSUME NEW c \in Calls, StreamEnds(c) PROVE Goal
  <2>1. stageBar' = stageBar
    BY <1>0, <1>8 DEF StreamEnds, stageBar, Stage, TypeOK
  <2> QED BY <1>8, <2>1 DEF StreamEnds
<1>9. ASSUME NEW c \in Calls, Misconfigured(c) \/ ProviderFails(c) PROVE Goal
  <2>1. PICK status \in Errors : Fail(c, status)
    BY <1>9 DEF Misconfigured, ProviderFails, Errors
  <2> QED BY <1>5, <2>1
<1>10. ASSUME NEW c \in Calls, Step(c) PROVE Goal
  BY <1>3, <1>4, <1>6, <1>7, <1>8, <1>9, <1>10 DEF Step
<1>11. ASSUME NEW c \in Calls, LookupFails(c) PROVE Goal
  <2>1. leg[c] = "primary"
    BY <1>11, InvIsPerCall DEF Inv, CallInv, LookupFails
  <2>2. LookupStatus(c) \in Errors
    BY DEF LookupStatus, Errors
  <2> QED BY <1>2, <1>11, <2>1, <2>2 DEF LookupFails
<1> QED
  BY <1>1, <1>10, <1>11 DEF Next, CreateModel, ToggleModel, vars

(* The router implements the abstract dispatch: one hand-over at most, one *)
(* reply, from the model asked for or its fallback.                        *)
THEOREM RouterImplementsDispatch == Spec => ImplementsDispatch
<1>1. Inv /\ Inv' /\ [Next]_vars => [AbstractDispatch!Next]_(AbstractDispatch!vars)
  BY DispatchStep
<1> QED
  BY <1>1, DispatchInit, RouterInvariant, PTL
  DEF Spec, ImplementsDispatch, AbstractDispatch!Spec
=============================================================================
