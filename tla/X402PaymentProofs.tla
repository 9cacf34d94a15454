------------------------- MODULE X402PaymentProofs --------------------------
(***************************************************************************)
(* Proofs about X402Payment: whatever requests share whatever payments,    *)
(* none is served unpaid and none that is told 402 is charged.             *)
(***************************************************************************)
EXTENDS X402Payment, TLAPS

\* What a request past the middleware has to show.
ForwardedIsSettled ==
  \A r \in Requests :
    Price[r] > 0 /\ (pc[r] = "forwarded" \/ r \in receipts \/ reply[r] \notin {0, 400, 402, 502})
      => answer[r] = "settled"

RefusedIsOver ==
  \A r \in Requests :
    reply[r] = 402 /\ r \notin receipts =>
      answer[r] # "settled" /\ (answer[r] # "error" => r \notin sent)

\* Who was paid for and answered without a receipt.
ReceiptInv ==
  \A r \in Requests :
    /\ r \in receipts => answer[r] = "settled"
    /\ answer[r] = "settled" /\ reply[r] # 0 /\ r \notin receipts => reply[r] = 502
    /\ answer[r] = "error" /\ reply[r] # 0 => reply[r] \in {402, 502}
    /\ answer[r] # "none" => Price[r] > 0
    /\ r \in sent /\ reply[r] # 0 => reply[r] \in {402, 502}

Parts == ForwardedIsSettled /\ RefusedIsOver /\ ReceiptInv

IInv == TypeOK /\ SettleInv /\ Parts

(* The invariant holds before anything is received.                        *)
LEMMA InitIInv == Init => IInv
  BY ConstantsAssumption
  DEF Init, IInv, TypeOK, SettleInv, Parts, ForwardedIsSettled, RefusedIsOver, ReceiptInv, RouteReplies, Unhandled

(* The middleware's own steps keep it.                                     *)
LEMMA StepIInv == ASSUME IInv, NEW r \in Requests, Step(r) PROVE IInv'
<1> USE ConstantsAssumption
<1>1. ASSUME Receive(r) PROVE IInv'
  <2>1. CASE Price[r] = 0 /\ pc' = [pc EXCEPT ![r] = "forwarded"] /\ UNCHANGED reply
    BY <1>1, <2>1
    DEF Receive, IInv, TypeOK, SettleInv, Parts, ForwardedIsSettled, RefusedIsOver, ReceiptInv, RouteReplies, Unhandled
  <2>2. CASE Respond(r, 402) \/ Respond(r, 400)
    BY <1>1, <2>2
    DEF Receive, Respond, IInv, TypeOK, SettleInv, Parts, ForwardedIsSettled, RefusedIsOver, ReceiptInv, RouteReplies, Unhandled
  <2>3. CASE /\ Price[r] > 0 /\ Header[r] \in Payments
             /\ pc' = [pc EXCEPT ![r] = "verifying"] /\ UNCHANGED reply
    BY <1>1, <2>3
    DEF Receive, IInv, TypeOK, SettleInv, Parts, ForwardedIsSettled, RefusedIsOver, ReceiptInv, RouteReplies, Unhandled
  <2> QED
    BY <1>1, <2>1, <2>2, <2>3 DEF Receive
<1>2. ASSUME Verified(r) PROVE IInv'
  BY <1>2
  DEF Verified, IInv, TypeOK, SettleInv, Parts, ForwardedIsSettled, RefusedIsOver, ReceiptInv, RouteReplies, Unhandled
<1>3. ASSUME VerifyRefused(r) \/ VerifyFails(r) PROVE IInv'
  BY <1>3
  DEF VerifyRefused, VerifyFails, Respond,
      IInv, TypeOK, SettleInv, Parts, ForwardedIsSettled, RefusedIsOver, ReceiptInv, RouteReplies, Unhandled
<1>4. ASSUME Settled(r) PROVE IInv'
  BY <1>4
  DEF Settled, IInv, TypeOK, SettleInv, Parts, ForwardedIsSettled, RefusedIsOver, ReceiptInv, RouteReplies, Unhandled
<1>5. ASSUME SettleRefused(r) \/ SettleFails(r) PROVE IInv'
  BY <1>5
  DEF SettleRefused, SettleFails, Respond,
      IInv, TypeOK, SettleInv, Parts, ForwardedIsSettled, RefusedIsOver, ReceiptInv, RouteReplies, Unhandled
<1>6. ASSUME Forward(r) PROVE IInv'
  <2> PICK status \in RouteReplies \cup {405, 429} : Respond(r, status) /\ status # 0
    BY <1>6 DEF Forward, Replies, RouteReplies, Unhandled
  <2>1. /\ pc[r] = "forwarded" /\ UNCHANGED <<answer, sent, paidBy>>
        /\ receipts' = IF Price[r] > 0 THEN receipts \cup {r} ELSE receipts
    BY <1>6 DEF Forward
  <2> QED
    BY <2>1
    DEF Respond, IInv, TypeOK, SettleInv, Parts, ForwardedIsSettled, RefusedIsOver, ReceiptInv, RouteReplies, Unhandled
<1> QED
  BY <1>1, <1>2, <1>3, <1>4, <1>5, <1>6 DEF Step

(* So does the facilitator, however late it executes a settlement.         *)
LEMMA ExecuteIInv == ASSUME IInv, NEW r \in Requests, Execute(r) PROVE IInv'
<1> USE ConstantsAssumption
<1>1. /\ r \in sent /\ sent' = sent \ {r} /\ UNCHANGED <<pc, reply, receipts>>
      /\ answer[r] \in {"none", "error"} /\ Price[r] > 0 /\ Header[r] \in Payments
  BY DEF Execute, IInv, SettleInv
<1>2. CASE /\ Acceptable(r)
           /\ paidBy' = [paidBy EXCEPT ![Header[r]] = r]
           /\ Tells(r, "settled")
  BY <1>1, <1>2
  DEF Acceptable, Tells, IInv, TypeOK, SettleInv, Parts, ForwardedIsSettled, RefusedIsOver, ReceiptInv, RouteReplies, Unhandled
<1>3. CASE Tells(r, "refused") /\ UNCHANGED paidBy
  BY <1>1, <1>3
  DEF Tells, IInv, TypeOK, SettleInv, Parts, ForwardedIsSettled, RefusedIsOver, ReceiptInv, RouteReplies, Unhandled
<1> QED
  BY <1>2, <1>3 DEF Execute

(* So does an error from in front of it.                                   *)
LEMMA FrontFailsIInv == ASSUME IInv, NEW r \in Requests, FrontFails(r) PROVE IInv'
<1> USE ConstantsAssumption
<1>1. pc[r] = "settling" /\ Price[r] > 0 /\ reply[r] = 0
  BY DEF FrontFails, IInv, SettleInv
<1> QED
  BY <1>1
  DEF FrontFails, IInv, TypeOK, SettleInv, Parts, ForwardedIsSettled, RefusedIsOver, ReceiptInv, RouteReplies, Unhandled

(* The invariant holds in every behaviour.                                 *)
LEMMA AlwaysIInv == Spec => []IInv
<1>1. IInv /\ [Next]_vars => IInv'
  <2> SUFFICES ASSUME IInv, [Next]_vars PROVE IInv'
    OBVIOUS
  <2>1. CASE Crash
    BY <2>1
    DEF Crash, IInv, TypeOK, SettleInv, Parts, ForwardedIsSettled, RefusedIsOver, ReceiptInv, RouteReplies, Unhandled
  <2>2. CASE UNCHANGED vars
    BY <2>2
    DEF vars, IInv, TypeOK, SettleInv, Parts, ForwardedIsSettled, RefusedIsOver, ReceiptInv, RouteReplies, Unhandled
  <2> QED
    BY <2>1, <2>2, StepIInv, ExecuteIInv, FrontFailsIInv DEF Next
<1> QED
  BY <1>1, InitIInv, PTL DEF Spec

(* The types of the payment state, and the settlement invariant.           *)
THEOREM PaymentTypeCorrect == Spec => []TypeOK
<1>1. IInv => TypeOK
  BY DEF IInv
<1> QED
  BY <1>1, AlwaysIInv, PTL

(* No priced request is served on an unsettled, a borrowed or a too small  *)
(* payment.                                                                *)
THEOREM ServiceCorrect == Spec => []ServiceIsPaid
<1>1. IInv => ServiceIsPaid
  BY DEF IInv, SettleInv, Parts, ForwardedIsSettled, ServiceIsPaid
<1> QED
  BY <1>1, AlwaysIInv, PTL

(* Neither a request that is refused nor a payment whose every request is  *)
(* refused has moved money, or will.                                       *)
THEOREM RefusalCorrect == Spec => []RefusedIsNotCharged
<1>1. ASSUME IInv, NEW r \in Requests, Refused(r)
      PROVE  r \notin sent /\ \A p \in Payments : paidBy[p] # r
  BY <1>1 DEF IInv, SettleInv, Parts, RefusedIsOver, Refused
<1>2. ASSUME IInv, NEW p \in Payments,
             \A r \in Requests : Header[r] = p => pc[r] = "new" \/ Refused(r)
      PROVE  paidBy[p] = NoOne /\ \A r \in sent : Header[r] # p
  <2>1. ASSUME NEW r \in Requests, Header[r] = p PROVE r \notin sent /\ paidBy[p] # r
    <3>1. CASE pc[r] = "new"
      BY <1>2, <2>1, <3>1 DEF IInv, SettleInv
    <3>2. CASE Refused(r)
      BY <1>1, <1>2, <3>2
    <3> QED
      BY <1>2, <2>1, <3>1, <3>2
  <2>2. ASSUME NEW r \in Requests, paidBy[p] = r PROVE Header[r] = p
    BY <1>2, <2>2 DEF IInv, SettleInv
  <2>3. paidBy[p] \in Requests \cup {NoOne} /\ sent \subseteq Requests
    BY <1>2 DEF IInv, TypeOK
  <2> QED
    BY <2>1, <2>2, <2>3
<1>3. IInv => RefusedIsNotCharged
  BY <1>1, <1>2 DEF RefusedIsNotCharged
<1> QED
  BY <1>3, AlwaysIInv, PTL

(* Who has paid is told so, unless the answer of /settle went astray.      *)
THEOREM ReceiptCorrect == Spec => []ChargedIsTold
<1>1. ASSUME IInv, NEW r \in Requests, r \in receipts
      PROVE  \E p \in Payments : paidBy[p] = r
  <2>1. answer[r] = "settled"
    BY <1>1 DEF IInv, Parts, ReceiptInv
  <2>2. Header[r] \in Payments /\ paidBy[Header[r]] = r
    BY <1>1, <2>1 DEF IInv, SettleInv
  <2> QED
    BY <2>2
<1>2. ASSUME IInv, NEW r \in Requests, NEW p \in Payments,
             reply[r] # 0, r \notin receipts, paidBy[p] = r
      PROVE  reply[r] = 502 \/ (reply[r] = 402 /\ answer[r] = "error")
  <2>1. answer[r] \in {"settled", "error"}
    BY <1>2 DEF IInv, SettleInv
  <2> QED
    BY <1>2, <2>1 DEF IInv, Parts, ReceiptInv
<1>3. IInv => ChargedIsTold
  <2> SUFFICES ASSUME IInv, NEW r \in Requests
               PROVE  ChargedIsTold!(r)
    BY DEF ChargedIsTold
  <2> QED
    BY <1>1, <1>2
<1> QED
  BY <1>3, AlwaysIInv, PTL

=============================================================================
