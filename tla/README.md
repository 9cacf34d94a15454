# CortexCloud API: a TLA+ verification project

CortexCloud API is an OpenAI-compatible gateway (FastAPI, PostgreSQL through
SQLAlchemy's asyncio sessions, Redis). Clients call `/v1` with an API key and are
billed per token, or `/x402/v1` with a signed USDC payment. This directory holds TLA+
models of the parts of the gateway whose correctness depends on the order of things:
charging, retrying, limiting, translating conversations and streams, lending
connections, taking payments, and deciding who may call at all. TLC checks them on
small instances; TLAPS proves the main results for all of them.

## Contents

1. The system and its parts
2. The modules and how they correspond to the code
3. Runs: what each asks, its bounds, what it shows
4. Fairness
5. Proofs
6. Disagreements between the code and what it says
7. What is not modelled, and the plan

## 1. The system and its parts

| Part | State it keeps | Operations | Interacts with |
|---|---|---|---|
| API-key check (`auth/dependencies.py`) | none (reads `api_keys`, `billing_accounts`) | `verify_api_key` | sessions, billing accounts |
| Rate limiter (`middleware/rate_limit.py`) | Redis: a sorted set per key, daily and monthly counters | `is_rate_limited`, `check_api_key_limits`, `enforce_ip_limit` | Redis, `usage_logs` |
| Endpoints (`api/v1/completions.py`) | a call's locals | `chat_completions`, `stream_completion_wrapper`, `embeddings` | router, metering |
| Router (`routing/router.py`) | a call's retry loop | `route_*`, `_execute_with_retry` | registry, providers |
| Model registry (`services/models.py`, `admin/routes.py`) | `model_registry` | lookup, create, toggle | router, metering (prices) |
| Metering (`services/usage.py`) | `usage_logs`, `billing_accounts`, `billing_transactions` | `record_usage` | sessions |
| Sessions (`database/session.py`) | a pool of 20 + 10 connections | `get_db`, `AsyncSessionLocal` | everything above |
| Dashboard (`api/dashboard/routes.py`) | users, organizations, keys, accounts | register, login, keys, deposit, reports | metering's tables |
| x402 (`middleware/x402*.py`, `x402/`) | none of its own | challenge, verify, settle, forward | an external facilitator, limiter, router |
| Providers (`providers/`) | none (the client keeps the conversation) | chat, stream, embeddings | upstream HTTP APIs |

What is hard, and what has to hold:

* **Metering.** Calls of one organization run at once; the balance is checked when a
  call starts and charged when it ends; metering can fail, be repeated, or be cut off
  by a disconnection or a crash. The log, the charges and the ledger must tell one
  story, the balance must be the ledger's sum, an overdraft bounded.
* **Router.** Two nested recovery loops around an unreliable provider, while
  administrators change the registry. Tries must be bounded, failover justified, the
  reported error the right one, and every call must end.
* **Limiter.** The clock is read in the gateway and the set is changed in Redis, later
  and perhaps in another order; replies are lost and the limiter fails open.
* **Quotas.** A counter is read, primed and incremented by separate commands, Redis
  may drop it or fail between them, and the database knows only finished calls.
* **Streams.** Each adapter translates an answer twice, whole and event by event; both
  must say the same, and the call must be metered for it.
* **Conversations.** The client keeps the history and sends all of it each time, to
  whichever provider; each adapter translates what the others answered. Nothing may be
  lost, reordered or come apart from its call on the way.
* **Reports.** An organization's costs and the gateway's revenue are summed from
  different tables while calls write both.
* **Accounts.** A name is looked up before it is inserted; a registration is four
  flushes; keys are revoked and users locked out while their requests are under way.
* **Sessions.** A stream needs a second connection while it holds one.
* **x402.** The check, the money and the service are three steps of three parties; the
  same payment may be sent many times, answers may be lost, late or somebody else's,
  and what is behind the paywall may refuse a request that has paid.

`PROJECT.json` lists every component, also those without a model, and the hazards at
their lines.

## 2. The modules

| Module | Models | Notes |
|---|---|---|
| `Ledger` | what billing promises | abstract: charge once, balance and totals move together |
| `GatewayCalls` | the calls and the pool's size | constants that `Metering` and `ConnectionPool` share |
| `Metering` | `verify_api_key`, the endings of a call, `record_usage`, `simulated_deposit` | refines `Ledger`, with the ledger's sum for an account that a stale top-up has overwritten |
| `Reports` | `get_analytics`, `admin_view_revenue` | read `Metering`'s tables at any moment |
| `ConnectionPool` | the sessions of the `/v1` calls | the detail `Metering` leaves out |
| `MeteringProofs` | theorems about `Metering`, `Reports` and `ConnectionPool` | |
| `Dispatch` | what routing promises | abstract: wanted model, then at most once its fallback, one reply |
| `ModelRouter` | `ModelRouter`, `ModelRegistryService`, the admin's create and toggle | refines `Dispatch` |
| `ModelRouterProofs` | theorems about `ModelRouter` | |
| `SlidingWindow` | `RateLimiter.is_rate_limited` on one key | |
| `SlidingWindowProofs` | theorems about `SlidingWindow` | |
| `Quota` | the daily and monthly caps of `check_api_key_limits` | Redis is external |
| `QuotaProofs` | theorems about `Quota` | |
| `ProviderStream` | the Anthropic, Gemini and OpenAI streaming adapters, `stream_completion_wrapper` | compared with the whole translation |
| `ProviderStreamProofs` | theorems about `ProviderStream` | |
| `Conversation` | `_translate_request` and `_translate_response` of the Anthropic and Gemini adapters | the client is external |
| `ConversationProofs` | theorems about `Conversation` | |
| `Accounts` | registration, login, keys, revocation, `verify_api_key`, a model's registration | |
| `AccountsProofs` | theorems about `Accounts` | |
| `X402Payment` | `X402PaymentMiddleware` and what it forwards to | the facilitator is external |
| `X402PaymentProofs` | theorems about `X402Payment` | |
| `MC_*` | instances for TLC | |

One action stands for the code between two `await`s at which other tasks can run and
change what the properties see. Definitions headed "Mutant" are wrong versions of the
definition below them: no specification uses them; they record which plausible mistake
each property catches.

**Metering.** `Admit` is `verify_api_key` reading a positive balance; from then on the
request session holds a connection (`Active`). `Answer`, `FinishStream` and
`BreakStream` are the ways a call arrives at `record_usage`, with the cost it will
compute: `CostOf`, from tokens and prices, rounded half to even to the sixth decimal,
of which all amounts are integers. `Reports` sums what is committed: the dashboard
does not ask whether a row's call succeeded, so it shows failed calls as costs.
`LockAccount` is the `SELECT ... FOR UPDATE`, and `seen` the balance it returned;
`CommitUsage` is the `COMMIT`, which writes the log row and, if the call succeeded and
costs something, the balance and the ledger row. `RejectRow`, `LoseDatabase` and
`LoseCommitAck` are its failures: a malformed or repeated correlation id, a lost
database, a lost acknowledgement. A stream then meters once more, as a failed call;
any other call ends. `Disconnect` cuts a stream off, `Crash` every call. `ReadTopUp`
and `CommitTopUp` are the two halves of `simulated_deposit`, which takes no lock; the
update waits for a row lock but writes what was read before. `overwritten` remembers
the accounts where that lost a charge or another top-up: what is said of balances is
said of the others, and `BookBalance` stands for theirs. The model relies on the
account object that the key check loaded being gone from the session when `FOR UPDATE`
loads it again (SQLAlchemy does not refresh an object still in its identity map):
nothing in the code keeps a reference to it, and CPython frees it at once.

**ModelRouter.** `Fail` is one failed execution: it backs off, hands the call to its
fallback, or raises. A connection error counts as 502, an unsupported or unconfigured
provider as 500, which is retried like any other 500. `LookupFails` is the database
failing in a lookup of either model, which a plain call's handler turns into a 502 and
nothing does for a stream. A stream is executed once and its generator not started:
`StreamEnds` is where the provider is contacted, outside the router. Registry entries
are never deleted.

**SlidingWindow.** `ReadClock` and the `MULTI` (`Apply`) are two steps, up to
`MaxDelay` apart. `LoseReply` is a `MULTI` that ran though its caller saw an
exception; `FailOpen` one that did not run.

**Quota.** One key, both caps. `Get` and `Incr` are the two Redis commands, so other
calls run between them; `Miss`, `CountRows` and `Prime` are the way through the
database when the key is missing. `RedisFails` sends a call to `FallBack`, whether the
command was executed or not. `Expire` is Redis dropping a key that has an expiry, by
time or eviction; `Turn` a new day or month, with which the rows and the calls counted
start again but the keys do not. `Busy` calls each hold a database connection, which
bounds how many can be between `Get` and `Incr`.

**ProviderStream.** `blocks` and `stop` are what the upstream has produced, `out` what
the adapter has yielded, `Assembled(out)` what a client makes of it and `Whole` what
the non-streaming function would return for the same answer. A piece of text or of
arguments stands for one token. `Yield` lets any data line be garbled, in which case
it is skipped. Two kinds of tool calls come out differently, and `StreamFollowsAnswer`
says that exactly these do: several calls of Gemini's, which all go out under index 0
and become one, and Anthropic's without arguments, which are "{}" whole (`Dumped`) and
nothing streamed. Of Gemini's finish reason, which rides on the parts and is missing
for an empty last candidate, a cut-off call and SAFETY, it says nothing. Gemini's
adapter reports a zero where the upstream reports nothing (`Owed`). Its stream is
taken to come as server-sent events, though the URL asks for none (`gemini.py:241`).
`Close` ends at `[DONE]`; `Record` is the metering when the client asks for more,
`Fail` the `except` branch, and `HangUp` a client that leaves, whom no branch meters.
`keyed` tells a call of `/v1` from one of `/x402/v1`, whose wrapper sends the same
chunks and meters nothing.

**Conversation.** `spoken` is what was said and `history` what the client remembers of
it, one message each: a system message (`Instruct`), a user's text or list of parts
(`Ask`), an answer with text, calls or neither (`Answer`), a tool's result (`Report`).
A client that puts together a Gemini stream of several calls is left with one of them
and no arguments it could parse (`Merge`); which answers were streamed is open. The
n-th message says a word of its own, so that no loss or swap goes unnoticed.
`AnthropicMessages` and `GeminiContents` are the two translations. What the first
cannot pass on is named in `ToAnthropic`: links to images, arguments that are no JSON,
merged calls. The second loses the same, the text beside calls, and all ids, so that
Gemini can tell whose result it gets by name and order only: `GeminiPairsResults` says
when that is right. How Gemini pairs them is external, and taken to be: the k-th call
of a tool with the k-th result of its name. Sampling parameters, tool declarations and
`tool_choice` are left out; so is the OpenAI family, which is sent the messages as
they are.

**Accounts.** Users and models share their shape: `Check` is the SELECT by name,
`Insert` the first flush, which waits on the unique index while another transaction
has the same name and fails if that one commits. `Flush` writes a registration's other
rows; nothing of it is seen before `Commit`, which may succeed without its caller
hearing of it. `Send`, `Authenticate`, then `CreateKey`, or `FindKey` and `Revoke`,
are a dashboard request; `Present`, `ReadKey` and `ReadBalance` a call. `late`
remembers which requests came when their key was already revoked or their user locked
out; the keys of such a user go on working, as `verify_api_key` never looks at the
user. `is_active` and `revoked_at` are one state, as they are only ever set together;
no key has an expiry, as no route sets one. `LockOut` is external: the code reads
`users.is_active` and never clears it.

**ConnectionPool.** `at` says what a call holds: one connection from its first query,
two while the wrapper's own session is open. Waits end in `CheckOut` or `TimeOut`.

**X402Payment.** `sent` are the `/settle` requests that the facilitator has yet to
execute; the middleware may have given up on them. The facilitator is taken to settle
a payment once, for no more than it is worth, and to say what it did when it answers;
`FrontFails` is somebody in front of it answering in its place, which the middleware
reads as a refusal. `Forward` is everything behind the paywall: the IP rate limiter's
429, the 405 of a path without such a method, or what the route answers: its own
statuses, those of the upstream, which are re-raised unchanged (`Upstream`; a 402
among them), or `TracingMiddleware`'s 500. A paid answer of the route carries a
receipt, whatever its status; a refusal is a 402 without one (`Refused`). Only priced
paths matter; the bearer bypass never applies to them, since they all start with
`/x402/`. A gateway with x402 switched off has no such routes.

## 3. Runs

| Run | Instance | Shows |
|---|---|---|
| `metering` | 3 calls (1 stream), 2 organizations, 1 top-up, 2 ids and a malformed one, 2 connections, a usage that costs, under fairness | lock, log, charges, ledger and reports agree; only a stale top-up parts the books; overdraft bounded; refinement of `Ledger`; every admitted call ends |
| `router` | a stream for a model without a key; a chat and an embedding, whose model is its own fallback; 2 models, 2 tries, a final and a passing error, failing lookups, under fairness | bounds, failover, errors, refinement of `Dispatch`, every routed call ends |
| `window` | 5 requests, limit 2, window 3, delay 1, clock to 8 | bound over the window less the delay; rejections deserved |
| `quota` | 3 calls, 2 connections, a daily cap and a monthly cap, under fairness | overshoot below the connections; a counter drifts from the calls served, either way, only for named causes; every call gets through |
| `conversation` | up to 6 messages, 2 tools, 4 shapes of a user's message, 5 of an answer, arguments whole or broken, calls merged or not | Anthropic hears all but the named losses, calls stay next to their results, Gemini pairs them exactly when they are named and in order, only what cannot be told becomes empty |
| `stream` | 3 adapters, keyed or paid for, answers of up to 3 blocks of up to 2 pieces, hang-ups | chunks, whole answer and metering agree, but for two named kinds of calls |
| `accounts` | 2 users, a model registered twice, a key, its revocation, a call, under fairness | names have one owner, registrations are whole, revocation and lock-out hold, nobody waits for ever |
| `pool` | 3 streams, 2 plain calls, 3 connections, under fairness | the pool is starved by streams that end together and by nothing else; every call ends even then |
| `x402` | a payment in 2 requests, one too small for its request, a garbled and a free request, an upstream that answers 402, 404 or 503, under fairness | nothing unpaid is served, no refusal is charged, whoever is charged is told, every request is answered |

The three runs that end in a violation (`metering_stream`, `router_stream`,
`quota_ttl`) are the subject of section 6.

The bounds are the least at which the interesting cases happen: two calls of one
organization to contend for a row and a third to be admitted meanwhile; two
correlation ids so that they can collide or not; a retry on either leg before the last
try; a limit of two with enough requests for two windows' worth and a late one; two
connections, so that two calls can pass a cap on one count, and a third call to come
later; three blocks, for two calls with a text beside them, of two pieces each, so
that arguments continue; two users, so that one can try another's key; as many streams
as connections, and plain calls beside them; a payment sent twice; six messages, for a
question, two calls, their results in either order and an instruction between them.
`MaxTime` stops the modelled clock after two windows and a delay. `MaxBalance` is
small so that the column's limit is met. Processes end, so deadlock is not checked in
any run. The quota run sets both caps, so that one can refuse what the other has
counted; the proofs cover any choice of caps. The metering run leaves out usages that
round to nothing, which the proofs cover too (`CostIsFair`).

## 4. Fairness

Safety properties do not depend on fairness; the runs that also check liveness state
it. Each module asks weak fairness of each call's own steps, one condition per call:
provider requests and facilitator calls have timeouts (`httpx` clients) and so has the
wait for a connection (`pool_timeout`), a backoff ends, Redis and PostgreSQL answer, a
free row lock is granted and a unique index blocks no longer than the transaction it
waits for. The timeouts of `httpx` are per operation, so an answer that trickles in
for ever is ruled out by the fairness and not by the code, and the Redis client has no
socket timeout: a Redis that accepts a command and never answers would hold its call,
which the properties take for granted that it does not. Nothing is asked of callers,
administrators, the facilitator or failures. A call may always still fail, but no
property depends on its doing so, except that a pool's or a client's timeout fires
when nothing else ends the wait, which is what it is for; in `Quota` and `Accounts`
failures are left out of the fair steps altogether.

## 5. Proofs

Each `*Proofs` module proves, for every value of the constants that satisfies the
module's assumptions, what its runs show on the small instances.

* `MeteringProofs`. Types; `LockHolderIsFresh` is inductive with them and gives
  `DriftOnlyFromStaleTopUp`, `BooksBalance` (where no stale top-up was, the balance is
  the ledger's sum) and the refinement of `Ledger`. `LogInv` (rows keyed by
  correlation id, charges equal to rows, a plain caller answered last) is inductive
  and gives the properties of the log. `OverdraftReserve` is the strengthening of
  `OverdraftBounded`: each admitted call that has not charged yet reserves `MaxCost`,
  and there is one per connection. `CostIsFair` bounds what rounding can take or give:
  half a unit. `ReportInv`, that the log is finite and that for each organization the
  costs shown are its charges and the prices of its failed calls, is kept by the one
  step that writes the log; the sums over finite sets that it needs are proved first,
  by induction on subsets. For the pool: never more connections lent than there are,
  and that only streams that wait to be metered, one for each connection, starve the
  pool.
* `ModelRouterProofs`. `LoopInv` says where a call stands in its retry loop; it is
  inductive with the types and `ErrorIsFaithful` and gives the rest, and the
  refinement of `Dispatch`.
* `SlidingWindowProofs`. The invariant: readings are recent, members decided, the key
  outlives its members, what is forgotten is old. From it, any two admitted requests
  closer than the window less the delay see each other.
* `QuotaProofs`. `CounterReserve` is the strengthening of `CounterBounded`: every call
  between `Get` and `Incr` reserves one, and holds a connection. `DriftCorrect` says
  what each step can do to the gap between a counter and the calls it let pass.
* `AccountsProofs`. `NameInv`: an open transaction's name is neither taken nor
  contested, which gives `NameHasOneOwner`. `KeyInv`: where a key and the requests
  about it stand, which gives `KeysAreTheirOwners`, with `LateInv` (what makes a
  request late does not go away) `LateIsRefused`, and `RegistrationIsWhole`.
* `X402PaymentProofs`. `SettleInv` ties the facilitator's answers to the money moved;
  with what a forwarded, a refused and a receipted request must show it is inductive.
* `ProviderStreamProofs`. `Assembled`, `Bodies` and `ToolsOf` are recursive functions
  over sequences. Each is first proved to be a fold, and every fold to take one step
  for one element more (`FoldSteps`). `Known` is what a client knows of the answer:
  its text, its calls in order and, for the adapters that send calls in pieces, that
  the block in progress is its last call and no other, under an index that was opened
  (`LastIsLast`). A call without arguments keeps the calls streamed and whole from
  being equal, and is the only thing to. One lemma per kind of event shows that the
  event keeps it. With how the answer ended (`Ended`) and what was said of its tokens
  (`Counted`) it is the inductive invariant `AnswerInv`, which gives
  `StreamFollowsAnswer` and, at `Record`, `MeteredAsProduced`. `ToolArgsFollowStart`
  holds whichever lines are garbled, so it is carried through the same lemmas beside
  `Known`.
* `ConversationProofs`. The translations fold over the messages, so what a longer
  history adds to each is proved first. `TypeInv` ties every message to what it says;
  then each kind of message adds to what Anthropic hears exactly what the transcript
  says it should, which gives `AnthropicHearsAll`. For `CallsAreAnswered` the
  invariant distinguishes three states of the conversation: all calls are answered,
  all of the last message wait, or some of them are answered. `EmptyOnlyIfMute` counts
  the empty messages on both sides.

Induction is over the naturals, sequences and subsets, each as the least element of a
set of counterexamples (`WFMin`), since the library's theorems with an operator as a
parameter cannot be used. Besides the named assumptions of the modules the proofs use
none; those say that constants are of the obvious kinds, that there are finitely many
calls and organizations (`CallsAssumption`, `OrgsFinite`), and that `None` is not one
of the values it stands beside.

Only model-checked: liveness, as fairness and `ENABLED` are out of TLAPS's reach, and
`GeminiPairsResults`, whose counting of calls and results of one name is not proved.
Every other invariant that a run checks is a theorem. Type invariants are proved and
not run again. The strengthenings named above are proved inductive; of those, the runs
check the consequences.

## 6. Disagreements between the code and what it says

| Run | Code | Says |
|---|---|---|
| `metering_stream` | a caller that hangs up on `[DONE]` is never metered | `completions.py:39` "commits usage/billing data atomically after stream closes" |
| `router_stream` | a stream whose provider cannot be reached fails outside the router and is not tried on its fallback | `router.py:130` "attempts immediate fallback lookup if connection setup fails" |
| `quota_ttl` | a counter that expires between GET and INCR is created again without an expiry, and ends up refusing every call | `rate_limit.py:108` "Set TTL to expire at the end of the day" |

Others show in the models without a run of their own:

* A model that was disabled is still served (`router.py:89` says "is not registered or
  active"): `Registered` does not look.
* A top-up overwrites a charge committed since it read the balance
  (`dashboard/routes.py:331`; `services/usage.py:19` says of the other side "charging
  organization billing balances atomically"): `StaleTopUpCommits` is the one step that
  `DriftOnlyFromStaleTopUp` lets part the books.
* As many streams as there are connections, ending together, starve the pool until its
  timeout fails their metering (`session.py:7` says "pools suitable for high
  concurrency"): nothing bounds the streams by the 30 connections, and
  `StarvedByStreams` says that this is the one way to starve it.
* A call that the monthly cap refuses was counted for the day before
  (`rate_limit.py:121`, 160): one of the causes that `DriftHasCause` names.
* An upstream's 402 comes back to a caller who has paid (`x402/routes.py:133`); only
  the receipt tells it from a refusal.
* A 429 comes after the payment has settled (`x402_rate_limit.py:6` says "placed
  BEFORE X402PaymentMiddleware", `main.py:176` "before payment middleware"), and so
  does a 405 (`x402.py:74` says "protected routes must never return 405"): `Forward`
  is both, and `ChargedIsTold` as much as can be said.
* An error status from in front of the facilitator is answered with a 402, though the
  payment may have been settled; `RefusedIsNotCharged` has to except it.
* The costs that the dashboard shows include the prices of failed calls, which were
  never charged: `ReportsAgree` says by how much they exceed the revenue.
* With Gemini, text beside tool calls is lost (`Parts`), and results that their client
  did not name, or sent in another order than the calls of their tool, are taken for
  others: `GeminiPairsResults`. Of several calls in a Gemini stream the client is left
  with one (`gemini.py:339`). A message of nothing but links to images is sent to both
  as an empty one, which they refuse, with every later request of its conversation:
  `EmptyOnlyIfMute`.
* More than the limit can pass within one full window when a `MULTI` is late, which is
  why `WindowBounded` speaks of the window less the delay (`rate_limit.py:36` says
  "precise").

## 7. What is not modelled, and the plan

Not modelled:

* the tokenizer, hashing, configuration, logging, the read-only feeds, the data and
  on-chain proxies, discovery, migrations and seeding: pure functions, pure I/O or
  static text;
* of the adapters, sampling parameters, tool declarations and `tool_choice`, which are
  copied field by field (Anthropic's has no case for "none"), and embeddings, a single
  request;
* of the tracing middleware, the correlation id it draws when the caller sent none:
  the handlers draw another, so the id of a 500 is not the one that was metered under;
* the routes that only read: balances, transactions, lists of keys and models, request
  history. `provider-health` counts final rows, so it does not see failures that a
  failover made good, and counts the others against the wanted model's provider;
* the lower limit of the balance column: the overdraft bound keeps far from it;
* SQLAlchemy's identity map (see Metering), and how long a monthly counter outlives
  its month (`Turn` leaves it in place for as long as `Expire` likes);
* the session pool in `Accounts`.

Done so far, in the order planned: metering with its ledger, the router with its
dispatch, the limiter, the pool, payments, quotas, streams, accounts, conversations,
costs and reports, the proofs about streams, conversations and reports.

What could come next: a `Gateway` that composes accounts, limiter, router and metering
for one call, so that a key's revocation and a quota's fallback race its metering; the
calendar of the monthly counter.

The project is kept to a dozen runs so that all of them, with a mutant for each
property, can be repeated on every change.
