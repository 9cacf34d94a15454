------------------------------- MODULE Ledger -------------------------------
(***************************************************************************)
(* What the billing subsystem promises, with no sessions, locks or         *)
(* crashes: an account is credited by top-ups and debited by completed     *)
(* calls, a call is billed at most once, and every change of a balance is  *)
(* matched by a change of the ledger totals of the same account.           *)
(***************************************************************************)
EXTENDS Integers

CONSTANTS
  Orgs,            \* the organizations, one billing account each
  Requests,        \* the gateway calls
  Payer,           \* the organization that pays for a call
  Charges,         \* the amounts a call may be billed
  Amounts,         \* the amounts a top-up may be of
  OpeningBalance   \* the credit an account is registered with

VARIABLES
  balance,    \* balance[o]: billing_accounts.balance
  deposited,  \* deposited[o]: sum of the account's "deposit" transactions
  debited,    \* debited[o]: minus the sum of its "usage_charge" transactions
  charged     \* charged[r]: what call r was billed

vars == <<balance, deposited, debited, charged>>

Init ==
  /\ balance = [o \in Orgs |-> OpeningBalance]
  /\ deposited = [o \in Orgs |-> OpeningBalance]
  /\ debited = [o \in Orgs |-> 0]
  /\ charged = [r \in Requests |-> 0]

\* A call is billed c, once; its account and the debit total move together.
Charge(r, c) ==
  LET o == Payer[r] IN
    /\ charged[r] = 0
    /\ charged' = [charged EXCEPT ![r] = c]
    /\ balance' = [balance EXCEPT ![o] = @ - c]
    /\ debited' = [debited EXCEPT ![o] = @ + c]
    /\ UNCHANGED deposited

\* A top-up of a; the account and the credit total move together.
Credit(o, a) ==
  /\ balance' = [balance EXCEPT ![o] = @ + a]
  /\ deposited' = [deposited EXCEPT ![o] = @ + a]
  /\ UNCHANGED <<debited, charged>>

Next ==
  \/ \E r \in Requests, c \in Charges : Charge(r, c)
  \/ \E o \in Orgs, a \in Amounts : Credit(o, a)

Spec == Init /\ [][Next]_vars

=============================================================================
