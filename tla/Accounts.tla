------------------------------ MODULE Accounts ------------------------------
(***************************************************************************)
(* Who may use the gateway: registration and login, the API keys of an     *)
(* organization and their revocation, the check of a key at each call, and *)
(* the registration of models, whose names are unique as e-mails are.      *)
(* A row is named after the request that wrote it, and a user, his         *)
(* organization and its billing account after the registration.            *)
(***************************************************************************)
EXTENDS Integers, FiniteSets, Sequences

CONSTANTS
  Registrations,  \* requests to /auth/register
  Creations,      \* requests to /admin/models
  Name,           \* Name[i]: the e-mail or the model name that i asks for
  Keys,           \* requests to create an API key
  Revocations,    \* requests to revoke one
  Calls,          \* requests to /v1
  None            \* no user, no key

Inserts == Registrations \cup Creations
Dashboard == Keys \cup Revocations
Requests == Inserts \cup Dashboard \cup Calls

ASSUME ConstantsAssumption ==
  /\ Registrations \cap Creations = {}
  /\ Inserts \cap (Dashboard \cup Calls) = {}
  /\ Keys \cap Revocations = {}
  /\ Dashboard \cap Calls = {}
  /\ None \notin Requests

VARIABLES
  pc,       \* pc[r]: where request r is
  flushed,  \* flushed[i]: the flushes of i's transaction, not committed yet
  rows,     \* rows[t]: the committed rows of table t
  locked,   \* users whose is_active was cleared
  tokens,   \* users who have been given a JWT
  key,      \* key[k]: "none", "active", "revoked"
  owner,    \* owner[k]: the organization of key k
  bearer,   \* bearer[d]: the user whose JWT a dashboard request carries
  target,   \* target[r]: the key that a call carries, or that is to be revoked
  late      \* the requests that came when their user was locked or their key revoked

tableVars == <<flushed, rows>>
keyVars == <<key, owner>>
requestVars == <<bearer, target, late>>
vars == <<pc, flushed, rows, locked, tokens, key, owner, bearer, target, late>>

Tables == {"users", "organizations", "organization_members", "billing_accounts",
           "billing_transactions", "models"}

\* The rows that a transaction writes, flush by flush.
Flushes(i) ==
  IF i \in Registrations
  THEN <<{"users"}, {"organizations"}, {"organization_members", "billing_accounts"},
         {"billing_transactions"}>>
  ELSE <<{"models"}>>

\* The table in which the name is unique.
Table(i) == IF i \in Registrations THEN "users" ELSE "models"

Taken(i) == \E j \in rows[Table(i)] : Name[j] = Name[i]

\* Those that have inserted the same name and not committed.
Rivals(i) ==
  {j \in Inserts \ {i} : /\ Table(j) = Table(i)
                         /\ Name[j] = Name[i]
                         /\ pc[j] = "open"}

Init ==
  /\ pc = [r \in Requests |-> "new"]
  /\ flushed = [i \in Inserts |-> 0]
  /\ rows = [t \in Tables |-> {}]
  /\ locked = {}
  /\ tokens = {}
  /\ key = [k \in Keys |-> "none"]
  /\ owner = [k \in Keys |-> None]
  /\ bearer = [d \in Dashboard |-> None]
  /\ target = [r \in Revocations \cup Calls |-> None]
  /\ late = {}

Goto(r, place) == pc' = [pc EXCEPT ![r] = place]

-----------------------------------------------------------------------------
(* Rows with a unique name.                                                *)

\* An administrator's token is refused.
Forbid(i) ==
  /\ i \in Creations
  /\ pc[i] = "new"
  /\ Goto(i, "refused")
  /\ UNCHANGED <<tableVars, locked, tokens, keyVars, requestVars>>

\* SELECT by name: 400 if there is one.
Check(i) ==
  /\ pc[i] = "new"
  /\ Goto(i, IF Taken(i) THEN "taken" ELSE "checked")
  /\ UNCHANGED <<tableVars, locked, tokens, keyVars, requestVars>>

\* Mutant: a rival that has not committed counts as a row.
InsertImpatient(i) ==
  /\ pc[i] = "checked"
  /\ IF Taken(i) \/ Rivals(i) # {}
     THEN Goto(i, "taken") /\ UNCHANGED flushed
     ELSE Goto(i, "open") /\ flushed' = [flushed EXCEPT ![i] = 1]
  /\ UNCHANGED <<rows, locked, tokens, keyVars, requestVars>>

\* Mutant: a name that was taken meanwhile is waited for.
InsertPatient(i) ==
  /\ pc[i] = "checked"
  /\ Rivals(i) = {}
  /\ ~Taken(i)
  /\ Goto(i, "open")
  /\ flushed' = [flushed EXCEPT ![i] = 1]
  /\ UNCHANGED <<rows, locked, tokens, keyVars, requestVars>>

\* The first INSERT. The unique index makes it wait for a rival's transaction;
\* if the name is taken by then it fails, and the caller gets a 500.
Insert(i) ==
  /\ pc[i] = "checked"
  /\ Rivals(i) = {}
  /\ IF Taken(i)
     THEN Goto(i, "taken") /\ UNCHANGED flushed
     ELSE Goto(i, "open") /\ flushed' = [flushed EXCEPT ![i] = 1]
  /\ UNCHANGED <<rows, locked, tokens, keyVars, requestVars>>

\* A registration's next rows.
Flush(i) ==
  /\ pc[i] = "open"
  /\ flushed[i] < Len(Flushes(i))
  /\ flushed' = [flushed EXCEPT ![i] = @ + 1]
  /\ UNCHANGED <<pc, rows, locked, tokens, keyVars, requestVars>>

\* The tables that i has written to.
Written(i) == UNION {Flushes(i)[n] : n \in 1..flushed[i]}

\* COMMIT; the caller may not hear of it.
Save(i) ==
  /\ rows' = [t \in Tables |-> IF t \in Written(i) THEN rows[t] \cup {i} ELSE rows[t]]
  /\ flushed' = [flushed EXCEPT ![i] = 0]
  /\ Goto(i, "done") \/ Goto(i, "failed")
  /\ UNCHANGED <<locked, tokens, keyVars, requestVars>>

\* Mutant: what has been flushed is committed at once.
CommitAnytime(i) == pc[i] = "open" /\ Save(i)

Commit(i) ==
  /\ pc[i] = "open"
  /\ flushed[i] = Len(Flushes(i))
  /\ Save(i)

\* The database or the gateway fails before the COMMIT: it is rolled back.
RollBack(i) ==
  /\ pc[i] \in {"checked", "open"}
  /\ Goto(i, "failed")
  /\ flushed' = [flushed EXCEPT ![i] = 0]
  /\ UNCHANGED <<rows, locked, tokens, keyVars, requestVars>>

-----------------------------------------------------------------------------
(* The dashboard.                                                          *)

Login(u) ==
  /\ u \in rows["users"] \ locked
  /\ tokens' = tokens \cup {u}
  /\ UNCHANGED <<pc, tableVars, locked, keyVars, requestVars>>

\* The operator clears users.is_active; no route does.
LockOut(u) ==
  /\ u \in rows["users"] \ locked
  /\ locked' = locked \cup {u}
  /\ UNCHANGED <<pc, tableVars, tokens, keyVars, requestVars>>

\* A request of u's comes, about key k if it is a revocation. Ids are not secret.
Send(d, u, k) ==
  /\ pc[d] = "new"
  /\ u \in tokens
  /\ k \in {j \in Keys : key[j] # "none"} \/ (d \in Keys /\ k = None)
  /\ Goto(d, "sent")
  /\ bearer' = [bearer EXCEPT ![d] = u]
  /\ target' = IF d \in Revocations THEN [target EXCEPT ![d] = k] ELSE target
  /\ late' = IF u \in locked THEN late \cup {d} ELSE late
  /\ UNCHANGED <<tableVars, locked, tokens, keyVars>>

\* get_current_user; the token may have expired.
Authenticate(d) ==
  /\ pc[d] = "sent"
  /\ \/ bearer[d] \in rows["users"] \ locked /\ Goto(d, "known")
     \/ Goto(d, "refused")
  /\ UNCHANGED <<tableVars, locked, tokens, keyVars, requestVars>>

MemberOf(u) == rows["organization_members"] \cap {u}

\* The organization is looked up and the key inserted, or the commit fails.
CreateKey(k) ==
  /\ pc[k] = "known"
  /\ \/ /\ \E o \in MemberOf(bearer[k]) : owner' = [owner EXCEPT ![k] = o]
        /\ key' = [key EXCEPT ![k] = "active"]
        /\ Goto(k, "done") \/ Goto(k, "failed")
     \/ Goto(k, "failed") /\ UNCHANGED keyVars
  /\ UNCHANGED <<tableVars, locked, tokens, requestVars>>

\* Mutant: the key is looked up by its id alone.
FindAnyKey(v) ==
  /\ pc[v] = "known"
  /\ Goto(v, "found")
  /\ UNCHANGED <<tableVars, locked, tokens, keyVars, requestVars>>

\* The key, joined with the user's memberships: 404 if there is none.
FindKey(v) ==
  /\ pc[v] = "known"
  /\ Goto(v, IF owner[target[v]] \in MemberOf(bearer[v]) THEN "found" ELSE "refused")
  /\ UNCHANGED <<tableVars, locked, tokens, keyVars, requestVars>>

\* COMMIT, acknowledged or not; or it fails.
Revoke(v) ==
  /\ pc[v] = "found"
  /\ \/ /\ key' = [key EXCEPT ![target[v]] = "revoked"]
        /\ Goto(v, "done") \/ Goto(v, "failed")
     \/ Goto(v, "failed") /\ UNCHANGED key
  /\ UNCHANGED <<tableVars, locked, tokens, owner, requestVars>>

-----------------------------------------------------------------------------
(* verify_api_key.                                                         *)

\* A call with a key whose text its creator was told.
Present(c, k) ==
  /\ pc[c] = "new"
  /\ pc[k] = "done"
  /\ Goto(c, "sent")
  /\ target' = [target EXCEPT ![c] = k]
  /\ late' = IF key[k] = "revoked" THEN late \cup {c} ELSE late
  /\ UNCHANGED <<tableVars, locked, tokens, keyVars, bearer>>

\* Mutant: neither is_active nor revoked_at is looked at.
ReadKeyBlindly(c) ==
  /\ pc[c] = "sent"
  /\ Goto(c, "found")
  /\ UNCHANGED <<tableVars, locked, tokens, keyVars, requestVars>>

\* SELECT of the active key; revoked_at is set when is_active is cleared.
ReadKey(c) ==
  /\ pc[c] = "sent"
  /\ Goto(c, IF key[target[c]] = "active" THEN "found" ELSE "refused")
  /\ UNCHANGED <<tableVars, locked, tokens, keyVars, requestVars>>

\* SELECT of the billing account: 402 if there is none, or if it is exhausted.
ReadBalance(c) ==
  /\ pc[c] = "found"
  /\ \/ owner[target[c]] \in rows["billing_accounts"] /\ Goto(c, "done")
     \/ Goto(c, "refused")
  /\ UNCHANGED <<tableVars, locked, tokens, keyVars, requestVars>>

-----------------------------------------------------------------------------
\* What a request does once it is there.
Step(r) ==
  \/ r \in Inserts /\ (Check(r) \/ Insert(r) \/ Flush(r) \/ Commit(r))
  \/ r \in Dashboard /\ Authenticate(r)
  \/ r \in Keys /\ CreateKey(r)
  \/ r \in Revocations /\ (FindKey(r) \/ Revoke(r))
  \/ r \in Calls /\ (ReadKey(r) \/ ReadBalance(r))

Next ==
  \/ \E r \in Requests : Step(r)
  \/ \E i \in Inserts : Forbid(i) \/ RollBack(i)
  \/ \E u \in Registrations : Login(u) \/ LockOut(u)
  \/ \E d \in Dashboard, u \in Registrations, k \in Keys \cup {None} : Send(d, u, k)
  \/ \E c \in Calls, k \in Keys : Present(c, k)

Spec == Init /\ [][Next]_vars

\* A failure may end a request, but none is needed to: the database answers.
FairSpec == Spec /\ \A r \in Requests : WF_vars(Step(r))

-----------------------------------------------------------------------------
(* Properties.                                                             *)

(* The state has its type; a request knows whose it is and what about.     *)
TypeOK ==
  /\ pc \in [Requests -> {"new", "refused", "checked", "taken", "open", "failed",
                          "sent", "known", "found", "done"}]
  /\ flushed \in [Inserts -> 0..4]
  /\ rows \in [Tables -> SUBSET Inserts]
  /\ locked \subseteq Registrations
  /\ tokens \subseteq Registrations
  /\ key \in [Keys -> {"none", "active", "revoked"}]
  /\ owner \in [Keys -> Registrations \cup {None}]
  /\ bearer \in [Dashboard -> Registrations \cup {None}]
  /\ target \in [Revocations \cup Calls -> Keys \cup {None}]
  /\ late \subseteq Requests

(* Two that ask for one name both find it free; yet only one has it, and   *)
(* whoever is told it is taken is told so because another has it for good, *)
(* not because of one that was rolled back (routes.py:79, admin 77).       *)
NameHasOneOwner ==
  /\ \A t \in {"users", "models"} : \A i, j \in rows[t] : Name[i] = Name[j] => i = j
  /\ \A i \in Inserts : pc[i] = "taken" => Taken(i)

(* There is no user without an organization he is a member of, its account *)
(* and its first deposit, whichever flush fails; and every key belongs to  *)
(* such an organization (routes.py:86-131).                                *)
RegistrationIsWhole ==
  /\ \A t \in Tables \ {"models"} : rows[t] = rows["users"]
  /\ \A k \in Keys : key[k] # "none" => owner[k] \in rows["billing_accounts"]
  /\ \A i \in Inserts : pc[i] = "done" => i \in rows[Table(i)]

(* No call that comes with a key revoked before it came is admitted, and   *)
(* no creation or revocation of a key by a user who was locked out before  *)
(* changes anything, even though their token still verifies                *)
(* (dependencies.py:45, 94). The keys of a locked-out user go on working:  *)
(* verify_api_key does not look at the user.                               *)
LateIsRefused == \A r \in late : pc[r] \notin {"known", "found", "done"}

(* A key is revoked only by a member of its organization, stays revoked,   *)
(* and keeps its organization (routes.py:242); a second DELETE only writes *)
(* a later revoked_at, which nothing reads but as being there.             *)
KeysAreTheirOwners ==
  [][\A k \in Keys :
       /\ key[k] = "active" /\ key'[k] # "active" =>
            /\ key'[k] = "revoked"
            /\ \E v \in Revocations : /\ pc[v] = "found" /\ pc'[v] # "found"
                                      /\ target[v] = k
                                      /\ bearer[v] = owner[k]
       /\ key[k] = "revoked" => key'[k] = "revoked"
       /\ key[k] # "none" => owner'[k] = owner[k]]_vars

Over(r) == pc[r] \in {"refused", "taken", "failed", "done"}

(* Nobody waits for ever, neither for the lock on a name that another is   *)
(* inserting, nor for anything else (user.py:17, registry.py:14).          *)
EveryRequestEnds == <>[](\A r \in Requests : pc[r] = "new" \/ Over(r))

=============================================================================
