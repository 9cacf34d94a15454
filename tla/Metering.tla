------------------------------ MODULE Metering ------------------------------
(***************************************************************************)
(* The life of a billed gateway call, from the API-key check to the usage  *)
(* record that charges the organization, with the dashboard's top-ups      *)
(* running beside it.                                                      *)
(*                                                                         *)
(* One action per stretch of code between two awaits that other requests   *)
(* can interleave with: verify_api_key, the rate limiter's refusal, the    *)
(* provider's answer or stream, the SELECT ... FOR UPDATE of               *)
(* record_usage, its COMMIT, and the ways each of them can fail.           *)
(* Amounts are integers in units of 0.000001 dollars, the precision that   *)
(* record_usage rounds a cost to.                                          *)
(***************************************************************************)
EXTENDS GatewayCalls

CONSTANTS
  Orgs,            \* organizations; one billing account each
  TopUps,          \* calls of POST /billing/deposit
  Payer,           \* the organization of a request or a top-up
  Cids,            \* correlation ids a caller may send or the handler draw
  BadCid,          \* one that uuid.UUID() refuses
  Usages,          \* the tokens, and their prices, that calls may come to
  MaxCost,         \* the largest cost of them
  Amounts,         \* the amounts a top-up may be of
  OpeningBalance,  \* the credit an account is registered with
  MaxBalance,      \* what the Numeric(12, 6) column holds
  NoOne            \* the holder of a free row lock

\* Prices are dollars per million tokens with four decimals, so a token of price
\* PriceUnit costs one unit.
PriceUnit == 10000

\* Decimal.quantize: to the nearest unit, and from a half to the even one.
Quantize(n) ==
  LET q == n \div PriceUnit
      r == n % PriceUnit
  IN  IF 2 * r > PriceUnit \/ (2 * r = PriceUnit /\ q % 2 = 1) THEN q + 1 ELSE q

CostOf(usage) ==
  Quantize(usage.prompt * usage.promptPrice + usage.completion * usage.completionPrice)

Costs == {CostOf(usage) : usage \in Usages}

ASSUME ConstantsAssumption ==
  /\ Usages \subseteq [prompt : Nat, promptPrice : Nat,
                       completion : Nat, completionPrice : Nat]
  /\ Requests \cap TopUps = {}
  /\ Payer \in [Requests \cup TopUps -> Orgs]
  /\ MaxCost \in Nat
  /\ Costs \subseteq 0..MaxCost
  /\ Amounts \subseteq Nat \ {0}
  /\ MaxBalance \in Nat
  /\ OpeningBalance \in 1..MaxBalance
  /\ NoOne \notin Requests

\* A call holds the connection of its request session; the second one that a
\* stream asks for when it is metered is the subject of ConnectionPool.

Row == [req : Requests, cid : Cids, ok : BOOLEAN, cost : 0..MaxCost]

VARIABLES
  balance,    \* balance[o]: billing_accounts.balance
  deposited,  \* deposited[o]: sum of the "deposit" billing_transactions
  debited,    \* debited[o]: minus the sum of the "usage_charge" ones
  charged,    \* charged[r]: the "usage_charge" amount written for r
  usageLog,   \* the usage_logs rows
  rowLock,    \* rowLock[o]: who holds the account row's FOR UPDATE lock
  pc,         \* pc[r]: where request r is
  cid,        \* cid[r]: the correlation id r is metered under
  ok,         \* ok[r]: whether record_usage is called with status 200
  cost,       \* cost[r]: the cost record_usage computes
  resp,       \* resp[r]: what the caller was told first
  tpc,        \* tpc[d]: where top-up d is
  seen,       \* the balance a request or a top-up read and will write from
  overwritten \* history only: the accounts a top-up wrote from a stale balance

requestVars == <<pc, cid, ok, cost, resp>>
accountVars == <<balance, deposited, debited, charged, overwritten>>
vars == <<balance, deposited, debited, charged, usageLog, rowLock,
          pc, cid, ok, cost, resp, tpc, seen, overwritten>>

PCs == {"new", "admitted", "streaming", "metering", "locked", "closed"}

\* A request holds its database connection from its first query to its end.
Active(r) == pc[r] \notin {"new", "closed"}
Connected == {r \in Requests : Active(r)}

Init ==
  /\ balance = [o \in Orgs |-> OpeningBalance]
  /\ deposited = [o \in Orgs |-> OpeningBalance]
  /\ debited = [o \in Orgs |-> 0]
  /\ charged = [r \in Requests |-> 0]
  /\ usageLog = {}
  /\ rowLock = [o \in Orgs |-> NoOne]
  /\ pc = [r \in Requests |-> "new"]
  /\ cid \in [Requests -> Cids]
  /\ ok = [r \in Requests |-> FALSE]
  /\ cost = [r \in Requests |-> 0]
  /\ resp = [r \in Requests |-> "none"]
  /\ tpc = [d \in TopUps |-> "new"]
  /\ seen = [x \in Requests \cup TopUps |-> 0]
  /\ overwritten = {}

-----------------------------------------------------------------------------
(* Admission: verify_api_key and check_api_key_limits.                     *)

\* The request ends with the answer `told`, unless its caller has one already.
Close(r, told) ==
  /\ pc' = [pc EXCEPT ![r] = "closed"]
  /\ resp' = [resp EXCEPT ![r] = IF @ = "none" THEN told ELSE @]

\* The key is valid and the balance read now is positive.
HasCredit(r) == balance[Payer[r]] > 0

\* The key and the balance are read on a connection of the pool.
Admit(r) ==
  /\ pc[r] = "new"
  /\ Cardinality(Connected) < PoolSize
  /\ HasCredit(r)
  /\ pc' = [pc EXCEPT ![r] = "admitted"]
  /\ UNCHANGED <<accountVars, usageLog, rowLock, cid, ok, cost, resp, tpc, seen>>

\* 402: the balance is exhausted.
RefuseUnfunded(r) ==
  /\ pc[r] = "new"
  /\ Cardinality(Connected) < PoolSize
  /\ ~HasCredit(r)
  /\ Close(r, "refused")
  /\ UNCHANGED <<accountVars, usageLog, rowLock, cid, ok, cost, tpc, seen>>

\* 401 or a pool timeout: the key is bad, or no connection came free in time.
RefuseKey(r) ==
  /\ pc[r] = "new"
  /\ Close(r, "refused")
  /\ UNCHANGED <<accountVars, usageLog, rowLock, cid, ok, cost, tpc, seen>>

\* 429 from the rate limiter, which runs after the key check; or, for a stream,
\* a routing error, which the handler raises outside its try block.
RefuseAdmitted(r) ==
  /\ pc[r] = "admitted"
  /\ Close(r, "refused")
  /\ UNCHANGED <<accountVars, usageLog, rowLock, cid, ok, cost, tpc, seen>>

-----------------------------------------------------------------------------
(* The provider's answer.                                                  *)

\* record_usage is about to be called with this status and cost.
Meter(r, success, c) ==
  /\ pc' = [pc EXCEPT ![r] = "metering"]
  /\ ok' = [ok EXCEPT ![r] = success]
  /\ cost' = [cost EXCEPT ![r] = c]

\* Non-streaming: the router answered, or raised; both are metered. A failed
\* chat call is logged with the cost of its prompt.
Answer(r) ==
  /\ pc[r] = "admitted"
  /\ r \notin Streams
  /\ \E success \in BOOLEAN, c \in Costs : Meter(r, success, c)
  /\ UNCHANGED <<accountVars, usageLog, rowLock, cid, resp, tpc, seen>>

OpenStream(r) ==
  /\ pc[r] = "admitted"
  /\ r \in Streams
  /\ pc' = [pc EXCEPT ![r] = "streaming"]
  /\ UNCHANGED <<accountVars, usageLog, rowLock, cid, ok, cost, resp, tpc, seen>>

\* The chunks are exhausted: [DONE] is yielded, and only then is r metered.
FinishStream(r) ==
  /\ pc[r] = "streaming"
  /\ \E c \in Costs : Meter(r, TRUE, c)
  /\ resp' = [resp EXCEPT ![r] = "ok"]
  /\ UNCHANGED <<accountVars, usageLog, rowLock, cid, tpc, seen>>

\* The provider failed, before or between chunks.
BreakStream(r) ==
  /\ pc[r] = "streaming"
  /\ \E c \in Costs : Meter(r, FALSE, c)
  /\ UNCHANGED <<accountVars, usageLog, rowLock, cid, resp, tpc, seen>>

-----------------------------------------------------------------------------
(* record_usage: one transaction, committed whole or not at all.           *)

\* Mutant: the charge forgets to ask for status 200.
CostsSomething(r) == cost[r] > 0

NeedsCharge(r) == ok[r] /\ cost[r] > 0

\* uuid.UUID(correlation_id) accepts it.
WellFormed(r) == cid[r] # BadCid

\* Mutant: the column is not UNIQUE.
AnyIdWillDo(r) == cid[r] \in Cids

\* The UNIQUE constraint of usage_logs.correlation_id lets the row in.
Unused(r) == \A row \in usageLog : row.cid # cid[r]

\* Mutant: the SELECT does not wait for the row.
LockAccountNoWait(r) ==
  LET o == Payer[r] IN
    /\ pc[r] = "metering"
    /\ NeedsCharge(r)
    /\ WellFormed(r)
    /\ rowLock' = [rowLock EXCEPT ![o] = r]
    /\ seen' = [seen EXCEPT ![r] = balance[o]]
    /\ pc' = [pc EXCEPT ![r] = "locked"]
    /\ UNCHANGED <<accountVars, usageLog, cid, ok, cost, resp, tpc>>

\* SELECT ... FOR UPDATE: waits for the row, then reads the committed balance.
LockAccount(r) ==
  LET o == Payer[r] IN
    /\ pc[r] = "metering"
    /\ NeedsCharge(r)
    /\ WellFormed(r)
    /\ rowLock[o] = NoOne
    /\ rowLock' = [rowLock EXCEPT ![o] = r]
    /\ seen' = [seen EXCEPT ![r] = balance[o]]
    /\ pc' = [pc EXCEPT ![r] = "locked"]
    /\ UNCHANGED <<accountVars, usageLog, cid, ok, cost, resp, tpc>>

\* Everything is in place for the COMMIT.
AtCommit(r) == pc[r] = IF NeedsCharge(r) THEN "locked" ELSE "metering"

\* Mutant: a session that ends keeps its row lock.
KeepLock(r) == rowLock' = [o \in Orgs |-> rowLock[o]]

Release(r) ==
  rowLock' = [o \in Orgs |-> IF rowLock[o] = r THEN NoOne ELSE rowLock[o]]

\* Mutant: the charge is taken without its ledger transaction.
PersistUnbooked(r) ==
  LET o == Payer[r] IN
    /\ WellFormed(r)
    /\ Unused(r)
    /\ usageLog' = usageLog \cup
         {[req |-> r, cid |-> cid[r], ok |-> ok[r], cost |-> cost[r]]}
    /\ IF NeedsCharge(r)
       THEN /\ balance' = [balance EXCEPT ![o] = seen[r] - cost[r]]
            /\ charged' = [charged EXCEPT ![r] = @ + cost[r]]
            /\ UNCHANGED debited
       ELSE UNCHANGED <<balance, debited, charged>>
    /\ UNCHANGED <<deposited, overwritten>>

\* Mutant: the balance is charged again when the ledger row is written.
PersistTwice(r) ==
  LET o == Payer[r] IN
    /\ WellFormed(r)
    /\ Unused(r)
    /\ usageLog' = usageLog \cup
         {[req |-> r, cid |-> cid[r], ok |-> ok[r], cost |-> cost[r]]}
    /\ IF NeedsCharge(r)
       THEN /\ balance' = [balance EXCEPT ![o] = seen[r] - 2 * cost[r]]
            /\ debited' = [debited EXCEPT ![o] = @ + cost[r]]
            /\ charged' = [charged EXCEPT ![r] = @ + cost[r]]
       ELSE UNCHANGED <<balance, debited, charged>>
    /\ UNCHANGED <<deposited, overwritten>>

\* What a successful COMMIT makes durable: the log row and, for a charge, the
\* balance and the ledger transaction. The account is there: it was created with
\* the organization, and a call without one was refused.
Persist(r) ==
  LET o == Payer[r] IN
    /\ WellFormed(r)
    /\ Unused(r)
    /\ usageLog' = usageLog \cup
         {[req |-> r, cid |-> cid[r], ok |-> ok[r], cost |-> cost[r]]}
    /\ IF NeedsCharge(r)
       THEN /\ balance' = [balance EXCEPT ![o] = seen[r] - cost[r]]
            /\ debited' = [debited EXCEPT ![o] = @ + cost[r]]
            /\ charged' = [charged EXCEPT ![r] = @ + cost[r]]
       ELSE UNCHANGED <<balance, debited, charged>>
    /\ UNCHANGED <<deposited, overwritten>>

CommitUsage(r) ==
  /\ AtCommit(r)
  /\ Persist(r)
  /\ Release(r)
  /\ Close(r, IF ok[r] THEN "ok" ELSE "error")
  /\ UNCHANGED <<cid, ok, cost, tpc, seen>>

\* Mutant: a metering failure does not fail the call.
AnswerAnyway(r) ==
  /\ Close(r, IF ok[r] THEN "ok" ELSE "error")
  /\ UNCHANGED <<ok, cost>>

\* An exception leaves record_usage. A stream whose status was 200 falls into
\* its except clause and meters once more, as a failure, on a fresh session.
\* Any other call ends: a second record_usage on the failed session raises too.
AfterFailure(r) ==
  IF r \in Streams /\ ok[r]
  THEN /\ \E c \in Costs : Meter(r, FALSE, c)
       /\ UNCHANGED resp
  ELSE /\ Close(r, "error")
       /\ UNCHANGED <<ok, cost>>

\* The row cannot be written: its id is malformed or already taken.
RejectRow(r) ==
  /\ \/ pc[r] = "metering" /\ ~WellFormed(r)
     \/ AtCommit(r) /\ ~Unused(r)
  /\ AfterFailure(r)
  /\ Release(r)
  /\ UNCHANGED <<accountVars, usageLog, cid, tpc, seen>>

\* The database fails, or the pool has no connection for a stream's metering
\* session; the transaction is rolled back.
LoseDatabase(r) ==
  /\ pc[r] \in {"metering", "locked"}
  /\ AfterFailure(r)
  /\ Release(r)
  /\ UNCHANGED <<accountVars, usageLog, cid, tpc, seen>>

\* The COMMIT happens but its acknowledgement is lost: the caller of
\* record_usage sees an exception.
LoseCommitAck(r) ==
  /\ AtCommit(r)
  /\ Persist(r)
  /\ AfterFailure(r)
  /\ Release(r)
  /\ UNCHANGED <<cid, tpc, seen>>

\* A stream's caller goes away: the wrapper is cancelled, which its
\* `except Exception` does not catch, and an open transaction rolls back.
Disconnect(r) ==
  /\ r \in Streams
  /\ pc[r] \in {"streaming", "metering", "locked"}
  /\ Close(r, "error")
  /\ Release(r)
  /\ UNCHANGED <<accountVars, usageLog, cid, ok, cost, tpc, seen>>

-----------------------------------------------------------------------------
(* The dashboard's top-up, and the end of the process.                     *)

\* SELECT without FOR UPDATE: no lock is waited for or taken.
ReadTopUp(d) ==
  /\ tpc[d] = "new"
  /\ tpc' = [tpc EXCEPT ![d] = "read"]
  /\ seen' = [seen EXCEPT ![d] = balance[Payer[d]]]
  /\ UNCHANGED <<accountVars, usageLog, rowLock, requestVars>>

\* UPDATE ... SET balance = <what was read> + amount, once the row is free.
CommitTopUp(d, amount) ==
  LET o == Payer[d] IN
    /\ tpc[d] = "read"
    /\ rowLock[o] = NoOne
    /\ seen[d] + amount <= MaxBalance
    /\ tpc' = [tpc EXCEPT ![d] = "done"]
    /\ balance' = [balance EXCEPT ![o] = seen[d] + amount]
    /\ deposited' = [deposited EXCEPT ![o] = @ + amount]
    /\ overwritten' = overwritten \cup {x \in {o} : balance[x] # seen[d]}
    /\ UNCHANGED <<debited, charged, usageLog, rowLock, requestVars, seen>>

\* The sum does not fit the column, or the database fails.
FailTopUp(d) ==
  /\ tpc[d] = "read"
  /\ tpc' = [tpc EXCEPT ![d] = "failed"]
  /\ UNCHANGED <<accountVars, usageLog, rowLock, requestVars, seen>>

\* The process dies: its connections close and what was open rolls back.
Crash ==
  /\ Connected # {}
  /\ pc' = [r \in Requests |-> IF Active(r) THEN "closed" ELSE pc[r]]
  /\ resp' = [r \in Requests |->
               IF Active(r) /\ resp[r] = "none" THEN "error" ELSE resp[r]]
  /\ rowLock' = [o \in Orgs |-> NoOne]
  /\ tpc' = [d \in TopUps |-> IF tpc[d] = "read" THEN "failed" ELSE tpc[d]]
  /\ UNCHANGED <<accountVars, usageLog, cid, ok, cost, seen>>

-----------------------------------------------------------------------------
Serve(r) ==
  \/ Admit(r) \/ RefuseUnfunded(r) \/ RefuseKey(r)
  \/ Answer(r) \/ OpenStream(r) \/ FinishStream(r) \/ BreakStream(r)
  \/ LockAccount(r) \/ CommitUsage(r) \/ RejectRow(r)

Interrupt(r) ==
  \/ RefuseAdmitted(r) \/ LoseDatabase(r) \/ LoseCommitAck(r) \/ Disconnect(r)

TopUp(d) ==
  ReadTopUp(d) \/ (\E amount \in Amounts : CommitTopUp(d, amount)) \/ FailTopUp(d)

Next ==
  \/ \E r \in Requests : Serve(r) \/ Interrupt(r)
  \/ \E d \in TopUps : TopUp(d)
  \/ Crash

Spec == Init /\ [][Next]_vars

\* Every call the process has taken up goes on: the upstream clients have
\* timeouts, streams end, PostgreSQL grants a row lock once it is free. A
\* failure, a disconnection or a crash is never owed to anyone.
Fairness == \A r \in Requests : WF_vars(Serve(r))

FairSpec == Spec /\ Fairness

-----------------------------------------------------------------------------
(* Properties.                                                             *)

(* Every variable holds what its column or local can: in particular a      *)
(* balance never exceeds the Numeric(12, 6) column it is stored in.        *)
TypeOK ==
  /\ balance \in [Orgs -> Int]
  /\ \A o \in Orgs : balance[o] <= MaxBalance
  /\ deposited \in [Orgs -> Nat]
  /\ debited \in [Orgs -> Nat]
  /\ charged \in [Requests -> Nat]
  /\ usageLog \subseteq Row
  /\ rowLock \in [Orgs -> Requests \cup {NoOne}]
  /\ pc \in [Requests -> PCs]
  /\ cid \in [Requests -> Cids]
  /\ ok \in [Requests -> BOOLEAN]
  /\ cost \in [Requests -> Costs \cup {0}]
  /\ resp \in [Requests -> {"none", "ok", "error", "refused"}]
  /\ tpc \in [TopUps -> {"new", "read", "done", "failed"}]
  /\ seen \in [Requests \cup TopUps -> Int]
  /\ \A x \in Requests \cup TopUps : seen[x] <= MaxBalance
  /\ overwritten \subseteq Orgs

(* A row lock is held by exactly the call that is between its SELECT ...   *)
(* FOR UPDATE and its COMMIT, and the balance that call read is still the  *)
(* stored one: nobody, the lock-free top-up included, wrote in between     *)
(* (usage.py:85-96).                                                       *)
LockHolderIsFresh ==
  /\ \A o \in Orgs : \A r \in Requests :
       rowLock[o] = r <=> (pc[r] = "locked" /\ Payer[r] = o)
  /\ \A r \in Requests : pc[r] = "locked" => seen[r] = balance[Payer[r]]

(* The usage log and the ledger tell the same story: a call's charge is    *)
(* the cost of its status-200 row, a call is charged only if it has one,   *)
(* and a failed call is never charged whatever cost its row shows, through *)
(* retries of metering, lost acknowledgements and crashes (usage.py:83).   *)
ChargeMatchesLog ==
  /\ \A row \in usageLog : row.ok => charged[row.req] = row.cost
  /\ \A r \in Requests :
       charged[r] > 0 =>
         \E row \in usageLog : row.req = r /\ row.ok /\ row.cost = charged[r]

(* A call leaves at most one usage row, though a stream whose COMMIT was   *)
(* acknowledged too late meters itself a second time (completions.py:92).  *)
OneRowPerCall ==
  \A row1, row2 \in usageLog : row1.req = row2.req => row1 = row2

(* A non-streaming caller that got its 200 was metered first: its row is   *)
(* in the log as a success and its charge is taken (completions.py:169).   *)
AnsweredCallIsMetered ==
  \A r \in Requests \ Streams :
    resp[r] = "ok" =>
      /\ charged[r] = cost[r]
      /\ [req |-> r, cid |-> cid[r], ok |-> TRUE, cost |-> cost[r]] \in usageLog

(* What makes the three inductive: a row keeps the correlation id its call *)
(* is metered under, no two rows share one, and a call that is not over    *)
(* has told its caller nothing unless it streams.                          *)
RowsKeyedByCid ==
  /\ \A row \in usageLog : row.cid = cid[row.req]
  /\ \A row1, row2 \in usageLog : row1.cid = row2.cid => row1 = row2

AnswerIsLast ==
  \A r \in Requests \ Streams :
    pc[r] # "streaming" /\ (pc[r] # "closed" => resp[r] = "none")

LogInv ==
  /\ RowsKeyedByCid
  /\ ChargeMatchesLog
  /\ AnswerIsLast
  /\ AnsweredCallIsMetered

(* The books of organization o balance.                                    *)
Drift(o) == balance[o] - (deposited[o] - debited[o])

(* The only step that makes a balance and its ledger part is the COMMIT of *)
(* a top-up whose unlocked read is out of date: no interleaving of calls,  *)
(* failures and crashes does (dashboard/routes.py:331).                    *)
StaleTopUpCommits(o) ==
  \E d \in TopUps : /\ Payer[d] = o
                    /\ tpc[d] = "read" /\ tpc'[d] = "done"
                    /\ seen[d] # balance[o]

DriftOnlyFromStaleTopUp ==
  [][\A o \in Orgs : Drift(o)' # Drift(o) => StaleTopUpCommits(o)]_vars

(* The calls that passed the balance check and may still be charged.       *)
MayCharge(o) == {r \in Connected : Payer[r] = o /\ charged[r] = 0}

(* The balance is checked before the call and charged after it, so it may  *)
(* go negative; by less than the largest cost times the connections the    *)
(* pool lends out, since each unfinished call holds one. A stale top-up    *)
(* puts an account at whatever it read, and ends the promise for it.       *)
OverdraftBounded == \A o \in Orgs \ overwritten : balance[o] > -(MaxCost * PoolSize)

(* What makes it inductive: the books of such an account balance, and each *)
(* unfinished call can still take MaxCost.                                 *)
BooksBalance == \A o \in Orgs \ overwritten : Drift(o) = 0

OverdraftReserve ==
  \A o \in Orgs \ overwritten :
    balance[o] > -(MaxCost * (PoolSize - Cardinality(MayCharge(o))))

(* A streaming caller that was told [DONE] is metered once its call is     *)
(* over: the wrapper "commits usage/billing data atomically after stream   *)
(* closes" (completions.py:39).                                            *)
StreamIsMetered ==
  \A r \in Streams :
    (pc[r] = "closed" /\ resp[r] = "ok") =>
      \E row \in usageLog : row.req = r /\ row.ok

(* Every call the process takes up comes to its end: no lock, retry or     *)
(* rejected row keeps one from giving its connection back.                 *)
EveryCallCloses == \A r \in Requests : Active(r) ~> pc[r] = "closed"

(* The accounts implement the abstract ledger: deposits and charges, one   *)
(* at a time, each with its transaction. Where a stale top-up overwrote    *)
(* the balance, its ledger transactions still do.                          *)
BookBalance ==
  [o \in Orgs |->
    IF o \in overwritten THEN deposited[o] - debited[o] ELSE balance[o]]

AbstractLedger ==
  INSTANCE Ledger WITH Charges <- Costs \ {0}, balance <- BookBalance

ImplementsLedger == AbstractLedger!Spec

=============================================================================
