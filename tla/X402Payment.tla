---------------------------- MODULE X402Payment -----------------------------
(***************************************************************************)
(* X402PaymentMiddleware: a request for a priced path carries a signed     *)
(* payment, which the middleware has the facilitator verify and then       *)
(* settle before it passes the request on to the rate limiter and the      *)
(* route. A payment can be sent again, with other requests, at any time.   *)
(* The facilitator is an external service: it settles a payment at most    *)
(* once, and only for what it is worth; its answers may be lost or late,   *)
(* and what stands in front of it may answer in its place.                 *)
(***************************************************************************)
EXTENDS Integers

CONSTANTS
  Requests,     \* requests that reach the middleware
  Payments,     \* signed authorizations
  NoHeader,     \* the header of a request without a payment
  Garbage,      \* a header that is not Base64 of JSON
  NoOne,        \* nobody
  Header,       \* Header[r]: the payment header of request r
  Price,        \* Price[r]: the price of its path; 0 if unpriced or free
  Worth,        \* Worth[p]: the amount payment p authorizes
  Routed,       \* the requests whose method the path has a route for
  Upstream      \* statuses of a provider's errors

ASSUME ConstantsAssumption ==
  /\ {NoHeader, Garbage} \cap Payments = {}
  /\ NoOne \notin Requests
  /\ Header \in [Requests -> Payments \cup {NoHeader, Garbage}]
  /\ Price \in [Requests -> Nat]
  /\ Worth \in [Payments -> Nat]
  /\ Routed \subseteq Requests
  /\ Upstream \subseteq Nat \ {0}

VARIABLES
  pc,      \* pc[r]: where request r is
  reply,   \* reply[r]: 0, then the status it is answered with
  answer,  \* answer[r]: the facilitator's answer to its /settle, if any
  sent,    \* the requests whose /settle the facilitator has yet to execute
  paidBy,  \* paidBy[p]: the request whose /settle moved the money of p
  receipts \* the requests answered with an X-PAYMENT-RESPONSE header

vars == <<pc, reply, answer, sent, paidBy, receipts>>

Init ==
  /\ pc = [r \in Requests |-> "new"]
  /\ reply = [r \in Requests |-> 0]
  /\ answer = [r \in Requests |-> "none"]
  /\ sent = {}
  /\ paidBy = [p \in Payments |-> NoOne]
  /\ receipts = {}

-----------------------------------------------------------------------------
(* The middleware.                                                         *)

Respond(r, status) ==
  /\ pc' = [pc EXCEPT ![r] = "done"]
  /\ reply' = [reply EXCEPT ![r] = status]

\* A free path is passed on; a priced one needs a header, and one that decodes.
Receive(r) ==
  /\ pc[r] = "new"
  /\ CASE Price[r] = 0 ->
            pc' = [pc EXCEPT ![r] = "forwarded"] /\ UNCHANGED reply
       [] Price[r] > 0 /\ Header[r] = NoHeader -> Respond(r, 402)
       [] Price[r] > 0 /\ Header[r] = Garbage -> Respond(r, 400)
       [] OTHER -> pc' = [pc EXCEPT ![r] = "verifying"] /\ UNCHANGED reply
  /\ UNCHANGED <<answer, sent, paidBy, receipts>>

\* The facilitator would accept r's payment now, against the requirements that
\* the middleware sends along.
Acceptable(r) ==
  LET p == Header[r] IN paidBy[p] = NoOne /\ Worth[p] >= Price[r]

\* /verify says isValid, and /settle is called.
Verified(r) ==
  /\ pc[r] = "verifying"
  /\ Acceptable(r)
  /\ pc' = [pc EXCEPT ![r] = "settling"]
  /\ sent' = sent \cup {r}
  /\ UNCHANGED <<reply, answer, paidBy, receipts>>

\* /verify says no, for a reason of the payment's or of its own.
VerifyRefused(r) ==
  /\ pc[r] = "verifying"
  /\ Respond(r, 402)
  /\ UNCHANGED <<answer, sent, paidBy, receipts>>

\* /verify is not answered within ten seconds, or cannot be reached.
VerifyFails(r) ==
  /\ pc[r] = "verifying"
  /\ Respond(r, 502)
  /\ UNCHANGED <<answer, sent, paidBy, receipts>>

\* Mutant: an answer with status 200 is taken for a success.
SettledUnread(r) ==
  /\ pc[r] = "settling"
  /\ answer[r] # "none"
  /\ pc' = [pc EXCEPT ![r] = "forwarded"]
  /\ UNCHANGED <<reply, answer, sent, paidBy, receipts>>

\* /settle says success, and the request is forwarded.
Settled(r) ==
  /\ pc[r] = "settling"
  /\ answer[r] = "settled"
  /\ pc' = [pc EXCEPT ![r] = "forwarded"]
  /\ UNCHANGED <<reply, answer, sent, paidBy, receipts>>

\* /settle says no, or another status than 200 comes back.
SettleRefused(r) ==
  /\ pc[r] = "settling"
  /\ answer[r] \in {"refused", "error"}
  /\ Respond(r, 402)
  /\ UNCHANGED <<answer, sent, paidBy, receipts>>

\* Mutant: an unanswered /settle counts as a refusal.
SettleFailsAs402(r) ==
  /\ pc[r] = "settling"
  /\ Respond(r, 402)
  /\ UNCHANGED <<answer, sent, paidBy, receipts>>

\* Mutant: the client waits for /settle without limit.
SettleNeverTimesOut(r) ==
  /\ pc[r] = "settling"
  /\ r \notin sent
  /\ Respond(r, 502)
  /\ UNCHANGED <<answer, sent, paidBy, receipts>>

\* /settle is not answered within ten seconds; it may still be executed.
SettleFails(r) ==
  /\ pc[r] = "settling"
  /\ Respond(r, 502)
  /\ UNCHANGED <<answer, sent, paidBy, receipts>>

\* TracingMiddleware makes an answer of any exception.
Unhandled == 500

\* What a route answers: its reply, the 400 of an unknown model, the 422 of a
\* body it cannot read, the 502 of providers that all failed, or the status of
\* a provider's error, which the router and the route raise as it is.
RouteReplies == {200, 400, 422, 502, Unhandled} \cup Upstream

\* What comes back from behind the paywall: the rate limiter's 429, a 405 if the
\* path has no such method, or what the route answers.
Replies(r) == {429} \cup (IF r \in Routed THEN RouteReplies ELSE {405})

\* Mutant: only a success carries a receipt.
ForwardUnreceipted(r) ==
  /\ pc[r] = "forwarded"
  /\ \E status \in Replies(r) :
       /\ Respond(r, status)
       /\ receipts' = IF Price[r] > 0 /\ status = 200 THEN receipts \cup {r} ELSE receipts
  /\ UNCHANGED <<answer, sent, paidBy>>

\* The request goes on to the rest of the gateway; if it was paid for, a receipt
\* is added to whatever comes back.
Forward(r) ==
  /\ pc[r] = "forwarded"
  /\ \E status \in Replies(r) : Respond(r, status)
  /\ receipts' = IF Price[r] > 0 THEN receipts \cup {r} ELSE receipts
  /\ UNCHANGED <<answer, sent, paidBy>>

-----------------------------------------------------------------------------
(* The facilitator, and the end of the process.                            *)

\* A call is answered once.
Tells(r, said) == answer' = [answer EXCEPT ![r] = IF @ = "none" THEN said ELSE @]

\* The facilitator executes the /settle of r, in whatever order and however late.
\* It may refuse what it verified.
Execute(r) ==
  /\ r \in sent
  /\ sent' = sent \ {r}
  /\ \/ /\ Acceptable(r)
        /\ paidBy' = [paidBy EXCEPT ![Header[r]] = r]
        /\ Tells(r, "settled")
     \/ /\ Tells(r, "refused")
        /\ UNCHANGED paidBy
  /\ UNCHANGED <<pc, reply, receipts>>

\* Something in front of the facilitator answers /settle with an error of its
\* own, whether or not it has let the call through.
FrontFails(r) ==
  /\ pc[r] = "settling"
  /\ answer[r] = "none"
  /\ answer' = [answer EXCEPT ![r] = "error"]
  /\ sent' \in {sent, sent \ {r}}
  /\ UNCHANGED <<pc, reply, paidBy, receipts>>

\* The process dies: what it had taken up is never answered.
Crash ==
  /\ \E r \in Requests : pc[r] \notin {"new", "done"}
  /\ pc' = [r \in Requests |-> IF pc[r] = "new" THEN "new" ELSE "done"]
  /\ UNCHANGED <<reply, answer, sent, paidBy, receipts>>

Step(r) ==
  \/ Receive(r) \/ Verified(r) \/ VerifyRefused(r) \/ VerifyFails(r)
  \/ Settled(r) \/ SettleRefused(r) \/ SettleFails(r) \/ Forward(r)

Next ==
  \/ \E r \in Requests : Step(r) \/ Execute(r) \/ FrontFails(r)
  \/ Crash

Spec == Init /\ [][Next]_vars

\* The client's timeouts end every call of the facilitator, unless it sends a
\* little now and then: they are per operation. It owes nothing else.
FairSpec == Spec /\ \A r \in Requests : WF_vars(Step(r))

-----------------------------------------------------------------------------
(* Properties.                                                             *)

(* The state has its type.                                                 *)
TypeOK ==
  /\ pc \in [Requests -> {"new", "verifying", "settling", "forwarded", "done"}]
  /\ reply \in [Requests -> RouteReplies \cup {0, 402, 405, 429}]
  /\ answer \in [Requests -> {"none", "settled", "refused", "error"}]
  /\ sent \subseteq Requests
  /\ paidBy \in [Payments -> Requests \cup {NoOne}]
  /\ receipts \subseteq Requests

(* A priced request gets past the middleware only on the strength of a     *)
(* payment that was settled for it, in full, and for no other request,     *)
(* though copies of the payment are verified side by side (x402.py:261).   *)
ServiceIsPaid ==
  \A r \in Requests :
    /\ Price[r] > 0
    /\ pc[r] = "forwarded" \/ r \in receipts \/ reply[r] \notin {0, 400, 402, 502}
    => LET p == Header[r] IN
         p \in Payments /\ paidBy[p] = r /\ Worth[p] >= Price[r]

\* The middleware answers r with a 402: not a route, which gets a receipt, and not
\* for an error of something in front of the facilitator.
Refused(r) == reply[r] = 402 /\ r \notin receipts /\ answer[r] # "error"

(* A caller that is refused may sign a new payment without paying twice:   *)
(* the /settle of the request has not moved the money and never will; and  *)
(* if the payment was sent more than once, and every time refused, nor has *)
(* that of another request (x402.py:254-276).                              *)
RefusedIsNotCharged ==
  /\ \A r \in Requests :
       Refused(r) => r \notin sent /\ \A p \in Payments : paidBy[p] # r
  /\ \A p \in Payments :
       (\A r \in Requests : Header[r] = p => pc[r] = "new" \/ Refused(r))
         => paidBy[p] = NoOne /\ \A r \in sent : Header[r] # p

(* Whoever is charged and answered holds a receipt, be it with a 429, a    *)
(* 405 or an error of the route, unless the answer of /settle was lost or  *)
(* replaced; and a receipt is of money that was moved (x402.py:280-285).   *)
ChargedIsTold ==
  \A r \in Requests :
    /\ r \in receipts => \E p \in Payments : paidBy[p] = r
    /\ reply[r] # 0 /\ r \notin receipts /\ (\E p \in Payments : paidBy[p] = r) =>
         reply[r] = 502 \/ (reply[r] = 402 /\ answer[r] = "error")

(* What makes them inductive: a /settle is under way or executed only for  *)
(* a request that went through /verify, and it is answered as executed.    *)
SettleInv ==
  \A r \in Requests :
    /\ pc[r] \in {"verifying", "settling"} => Price[r] > 0 /\ Header[r] \in Payments
    /\ pc[r] \in {"new", "verifying"} =>
         r \notin sent /\ answer[r] = "none" /\ reply[r] = 0
    /\ pc[r] \in {"settling", "forwarded"} => reply[r] = 0
    /\ r \in sent =>
         answer[r] \in {"none", "error"} /\ Price[r] > 0 /\ Header[r] \in Payments
    /\ \A p \in Payments :
         paidBy[p] = r => answer[r] \in {"settled", "error"} /\ Header[r] = p
    /\ answer[r] = "settled" =>
         LET p == Header[r] IN p \in Payments /\ paidBy[p] = r /\ Worth[p] >= Price[r]

(* Every request is answered, whatever the facilitator says or does not    *)
(* say, as long as the client's timeouts fire, unless the process dies     *)
(* (x402.py:224, timeout=10.0).                                            *)
EveryRequestEnds == \A r \in Requests : pc[r] = "verifying" ~> pc[r] = "done"

=============================================================================
