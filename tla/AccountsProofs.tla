--------------------------- MODULE AccountsProofs ---------------------------
(* Theorems about Accounts, for any requests and any names.                *)
EXTENDS Accounts, TLAPS

\* What separates the kinds of requests.
LEMMA Kinds ==
  /\ Registrations \cap Creations = {}
  /\ Inserts \cap (Dashboard \cup Calls) = {}
  /\ Keys \cap Revocations = {}
  /\ Dashboard \cap Calls = {}
  /\ None \notin Requests
  /\ Inserts \cup Dashboard \cup Calls = Requests
BY ConstantsAssumption DEF Requests

-----------------------------------------------------------------------------
(* Types.                                                                  *)

LEMMA FlushCount == ASSUME NEW i \in Inserts PROVE Len(Flushes(i)) \in 1..4
<1>1. CASE i \in Registrations BY <1>1 DEF Flushes
<1>2. CASE i \notin Registrations BY <1>2 DEF Flushes
<1> QED BY <1>1, <1>2

LEMMA OneMore == ASSUME NEW m \in 0..4, NEW n \in 1..4, m < n PROVE m + 1 \in 0..4
OBVIOUS

LEMMA TypeInit == Init => TypeOK
BY DEF Init, TypeOK, Inserts, Dashboard, Requests

LEMMA TypeStep == TypeOK /\ [Next]_vars => TypeOK'
<1> SUFFICES ASSUME TypeOK, [Next]_vars PROVE TypeOK' OBVIOUS
<1> USE DEF Inserts, Dashboard, Requests
<1>1. ASSUME NEW i \in Inserts, Check(i) \/ Forbid(i) \/ RollBack(i) PROVE TypeOK'
  BY <1>1 DEF TypeOK, Check, Forbid, RollBack, Goto, tableVars, keyVars, requestVars
<1>2. ASSUME NEW i \in Inserts, Insert(i) PROVE TypeOK'
  BY <1>2 DEF TypeOK, Insert, Goto, keyVars, requestVars
<1>3. ASSUME NEW i \in Inserts, Flush(i) PROVE TypeOK'
  <2>1. flushed[i] \in 0..4 /\ flushed[i] < Len(Flushes(i))
    BY <1>3 DEF Flush, TypeOK
  <2>2. Len(Flushes(i)) \in 1..4 BY <1>3, FlushCount DEF Flush
  <2>3. flushed[i] + 1 \in 0..4 BY <2>1, <2>2, OneMore
  <2> QED BY <1>3, <2>3 DEF TypeOK, Flush, keyVars, requestVars
<1>4. ASSUME NEW i \in Inserts, Commit(i) PROVE TypeOK'
  BY <1>4 DEF TypeOK, Commit, Save, Goto, keyVars, requestVars
<1>5. ASSUME NEW r \in Dashboard, Authenticate(r) PROVE TypeOK'
  BY <1>5 DEF TypeOK, Authenticate, Goto, tableVars, keyVars, requestVars
<1>6. ASSUME NEW k \in Keys, CreateKey(k) PROVE TypeOK'
  <2>1. MemberOf(bearer[k]) \subseteq Registrations \cup {None}
    BY DEF MemberOf, TypeOK
  <2> QED BY <1>6, <2>1 DEF TypeOK, CreateKey, Goto, tableVars, keyVars, requestVars
<1>7. ASSUME NEW v \in Revocations, FindKey(v) \/ Revoke(v) PROVE TypeOK'
  <2>1. CASE FindKey(v)
    BY <2>1 DEF TypeOK, FindKey, Goto, tableVars, keyVars, requestVars
  <2>2. CASE Revoke(v)
    BY <2>2 DEF TypeOK, Revoke, Goto, tableVars, keyVars, requestVars
  <2> QED BY <1>7, <2>1, <2>2
<1>8. ASSUME NEW c \in Calls, ReadKey(c) \/ ReadBalance(c) PROVE TypeOK'
  BY <1>8 DEF TypeOK, ReadKey, ReadBalance, Goto, tableVars, keyVars, requestVars
<1>9. ASSUME NEW u \in Registrations, Login(u) \/ LockOut(u) PROVE TypeOK'
  BY <1>9 DEF TypeOK, Login, LockOut, tableVars, keyVars, requestVars
<1>10. ASSUME NEW d \in Dashboard, NEW u \in Registrations, NEW k \in Keys \cup {None},
              Send(d, u, k)
       PROVE TypeOK'
  BY <1>10 DEF TypeOK, Send, Goto, tableVars, keyVars
<1>11. ASSUME NEW c \in Calls, NEW k \in Keys, Present(c, k) PROVE TypeOK'
  BY <1>11 DEF TypeOK, Present, Goto, tableVars, keyVars
<1>12. CASE UNCHANGED vars BY <1>12 DEF TypeOK, vars
<1> QED BY <1>1, <1>2, <1>3, <1>4, <1>5, <1>6, <1>7, <1>8, <1>9, <1>10, <1>11, <1>12
        DEF Next, Step

(* The state has its type (Accounts.TypeOK).                               *)
THEOREM AccountsTypeCorrect == Spec => []TypeOK
<1>1. Init => TypeOK BY TypeInit
<1>2. TypeOK /\ [Next]_vars => TypeOK' BY TypeStep
<1> QED BY <1>1, <1>2, PTL DEF Spec

-----------------------------------------------------------------------------
(* Rows.                                                                   *)

\* A COMMIT writes every row of a registration, or the model's row.
LEMMA AllWritten ==
  ASSUME NEW i \in Inserts, flushed[i] = Len(Flushes(i))
  PROVE  Written(i) = IF i \in Registrations THEN Tables \ {"models"} ELSE {"models"}
<1>1. CASE i \in Registrations
  <2>1. /\ Len(Flushes(i)) = 4
        /\ Flushes(i)[1] = {"users"}
        /\ Flushes(i)[2] = {"organizations"}
        /\ Flushes(i)[3] = {"organization_members", "billing_accounts"}
        /\ Flushes(i)[4] = {"billing_transactions"}
    BY <1>1 DEF Flushes
  <2>2. Written(i) = UNION {Flushes(i)[n] : n \in {1, 2, 3, 4}}
    <3>1. 1..flushed[i] = {1, 2, 3, 4} BY <2>1
    <3> QED BY <3>1 DEF Written
  <2>3. Written(i) = Flushes(i)[1] \cup Flushes(i)[2] \cup Flushes(i)[3] \cup Flushes(i)[4]
    BY <2>2
  <2> QED BY <1>1, <2>1, <2>3 DEF Tables
<1>2. CASE i \notin Registrations
  <2>1. Len(Flushes(i)) = 1 /\ Flushes(i)[1] = {"models"} BY <1>2 DEF Flushes
  <2>2. 1..flushed[i] = {1} BY <2>1
  <2>3. Written(i) = UNION {Flushes(i)[n] : n \in {1}} BY <2>2 DEF Written
  <2> QED BY <1>2, <2>1, <2>3
<1> QED BY <1>1, <1>2

\* What a COMMIT does to the tables.
LEMMA CommitRows ==
  ASSUME NEW i \in Inserts, TypeOK, Commit(i)
  PROVE  /\ i \in Registrations =>
              /\ \A t \in Tables \ {"models"} : rows'[t] = rows[t] \cup {i}
              /\ rows'["models"] = rows["models"]
         /\ i \notin Registrations =>
              /\ \A t \in Tables \ {"models"} : rows'[t] = rows[t]
              /\ rows'["models"] = rows["models"] \cup {i}
<1>1. rows' = [t \in Tables |-> IF t \in Written(i) THEN rows[t] \cup {i} ELSE rows[t]]
  BY DEF Commit, Save
<1>2. flushed[i] = Len(Flushes(i)) BY DEF Commit
<1>3. Written(i) = IF i \in Registrations THEN Tables \ {"models"} ELSE {"models"}
  BY <1>2, AllWritten
<1>4. "models" \in Tables BY DEF Tables
<1> QED BY <1>1, <1>3, <1>4

\* Every other step leaves the tables alone.
LEMMA OnlyCommitWrites ==
  ASSUME TypeOK, [Next]_vars, \A i \in Inserts : ~Commit(i)
  PROVE  rows' = rows
<1>1. ASSUME NEW r \in Requests, Step(r) PROVE rows' = rows
  BY <1>1 DEF Step, Check, Insert, Flush, Authenticate, CreateKey, FindKey, Revoke, ReadKey,
     ReadBalance, tableVars
<1>2. ASSUME NEW i \in Inserts, Forbid(i) \/ RollBack(i) PROVE rows' = rows
  BY <1>2 DEF Forbid, RollBack, tableVars
<1>3. ASSUME NEW u \in Registrations, Login(u) \/ LockOut(u) PROVE rows' = rows
  BY <1>3 DEF Login, LockOut, tableVars
<1>4. ASSUME NEW d \in Dashboard, NEW u \in Registrations, NEW k \in Keys \cup {None},
             Send(d, u, k)
      PROVE rows' = rows
  BY <1>4 DEF Send, tableVars
<1>5. ASSUME NEW c \in Calls, NEW k \in Keys, Present(c, k) PROVE rows' = rows
  BY <1>5 DEF Present, tableVars
<1>6. CASE UNCHANGED vars BY <1>6 DEF vars
<1> QED BY <1>1, <1>2, <1>3, <1>4, <1>5, <1>6 DEF Next

\* Rows are never deleted.
LEMMA RowsGrow ==
  ASSUME TypeOK, [Next]_vars, NEW t \in Tables
  PROVE  rows[t] \subseteq rows'[t]
<1>1. ASSUME NEW i \in Inserts, Commit(i) PROVE rows[t] \subseteq rows'[t]
  BY <1>1, CommitRows
<1>2. CASE \A i \in Inserts : ~Commit(i) BY <1>2, OnlyCommitWrites
<1> QED BY <1>1, <1>2

-----------------------------------------------------------------------------
(* Names.                                                                  *)

\* What makes NameHasOneOwner inductive: an open transaction has its name alone.
NameInv ==
  /\ rows["users"] \subseteq Registrations
  /\ rows["models"] \subseteq Creations
  /\ \A i \in Inserts : pc[i] = "open" => ~Taken(i) /\ Rivals(i) = {}

\* A name that is taken stays so.
LEMMA TakenStays ==
  ASSUME TypeOK, [Next]_vars, NEW i \in Inserts, Taken(i)
  PROVE  Taken(i)'
<1>1. Table(i) \in Tables BY DEF Table, Tables
<1>2. rows[Table(i)] \subseteq rows'[Table(i)] BY <1>1, RowsGrow
<1> QED BY <1>2 DEF Taken, Table

\* Who opens a transaction, and where the others stay.
LEMMA OpensByInsert ==
  ASSUME TypeOK, [Next]_vars, NEW i \in Inserts
  PROVE  /\ pc'[i] = "open" /\ pc[i] # "open" => Insert(i)
         /\ pc'[i] = "taken" /\ pc[i] # "taken" => Check(i) \/ Insert(i)
         /\ pc'[i] = "done" /\ pc[i] # "done" => Commit(i)
<1> DEFINE Goal == /\ pc'[i] = "open" /\ pc[i] # "open" => Insert(i)
                   /\ pc'[i] = "taken" /\ pc[i] # "taken" => Check(i) \/ Insert(i)
                   /\ pc'[i] = "done" /\ pc[i] # "done" => Commit(i)
<1>t. pc \in [Requests -> {"new", "refused", "checked", "taken", "open", "failed",
                          "sent", "known", "found", "done"}]
  BY DEF TypeOK
<1>1. ASSUME NEW j \in Inserts, Check(j) \/ Forbid(j) \/ RollBack(j) \/ Insert(j) PROVE Goal
  <2>1. CASE j = i
    BY <1>1, <2>1, <1>t DEF Check, Forbid, RollBack, Insert, Goto, Requests
  <2>2. CASE j # i
    BY <1>1, <2>2, <1>t DEF Check, Forbid, RollBack, Insert, Goto, Requests
  <2> QED BY <2>1, <2>2
<1>2. ASSUME NEW j \in Inserts, Flush(j) \/ Commit(j) PROVE Goal
  <2>1. CASE Flush(j) BY <2>1 DEF Flush
  <2>2. CASE Commit(j) /\ j = i BY <2>2, <1>t DEF Commit, Save, Goto, Requests
  <2>3. CASE Commit(j) /\ j # i BY <2>3, <1>t DEF Commit, Save, Goto, Requests
  <2> QED BY <1>2, <2>1, <2>2, <2>3
<1>o. \A d \in Dashboard \cup Calls : d # i BY Kinds
<1>3. ASSUME NEW d \in Dashboard, Authenticate(d) PROVE Goal
  BY <1>3, <1>t, <1>o DEF Authenticate, Goto, Requests
<1>4. ASSUME NEW k \in Keys, CreateKey(k) PROVE Goal
  BY <1>4, <1>t, <1>o DEF CreateKey, Goto, Requests, Dashboard
<1>5. ASSUME NEW v \in Revocations, FindKey(v) \/ Revoke(v) PROVE Goal
  BY <1>5, <1>t, <1>o DEF FindKey, Revoke, Goto, Requests, Dashboard
<1>6. ASSUME NEW c \in Calls, ReadKey(c) \/ ReadBalance(c) PROVE Goal
  BY <1>6, <1>t, <1>o DEF ReadKey, ReadBalance, Goto, Requests
<1>7. ASSUME NEW u \in Registrations, Login(u) \/ LockOut(u) PROVE Goal
  BY <1>7 DEF Login, LockOut
<1>8. ASSUME NEW d \in Dashboard, NEW u \in Registrations, NEW k \in Keys \cup {None},
             Send(d, u, k)
      PROVE Goal
  BY <1>8, <1>t DEF Send, Goto, Requests
<1>9. ASSUME NEW c \in Calls, NEW k \in Keys, Present(c, k) PROVE Goal
  BY <1>9, <1>t DEF Present, Goto, Requests
<1>10. CASE UNCHANGED vars BY <1>10 DEF vars
<1> QED BY <1>1, <1>2, <1>3, <1>4, <1>5, <1>6, <1>7, <1>8, <1>9, <1>10 DEF Next, Step

LEMMA NameStep ==
  ASSUME TypeOK, NameInv, NameHasOneOwner, [Next]_vars
  PROVE  NameInv' /\ NameHasOneOwner'
<1>1. (rows["users"] \subseteq Registrations /\ rows["models"] \subseteq Creations)'
  <2>1. ASSUME NEW i \in Inserts, Commit(i)
        PROVE (rows["users"] \subseteq Registrations /\ rows["models"] \subseteq Creations)'
    BY <2>1, CommitRows DEF NameInv, Inserts, Tables
  <2>2. CASE \A i \in Inserts : ~Commit(i) BY <2>2, OnlyCommitWrites DEF NameInv
  <2> QED BY <2>1, <2>2
<1>2. ASSUME NEW i \in Inserts, pc'[i] = "open" PROVE (~Taken(i) /\ Rivals(i) = {})'
  <2>1. pc[i] = "open" \/ Insert(i) BY <1>2, OpensByInsert
  <2>2. ~Taken(i) /\ Rivals(i) = {}
    <3>1. CASE pc[i] = "open" BY <3>1 DEF NameInv
    <3>2. CASE Insert(i) /\ pc[i] # "open"
      <4>1. pc[i] \in {"checked"} /\ i \in Requests
        BY <3>2 DEF Insert, Requests
      <4>2. Taken(i) => pc'[i] = "taken" BY <3>2, <4>1 DEF Insert, Goto, TypeOK
      <4> QED BY <3>2, <4>2, <1>2 DEF Insert
    <3> QED BY <2>1, <3>1, <3>2
  <2>3. ~Taken(i)'
    <3>1. ASSUME NEW j \in Inserts, Commit(j) PROVE ~Taken(i)'
      <4>1. CASE j = i
        <5>1. pc'[j] \in {"done", "failed"}
          BY <3>1 DEF Commit, Save, Goto, TypeOK, Requests
        <5> QED BY <4>1, <5>1, <1>2
      <4>2. CASE j # i
        <5>1. pc[j] = "open" BY <3>1 DEF Commit
        <5>2. Table(j) # Table(i) \/ Name[j] # Name[i]
          BY <2>2, <4>2, <5>1 DEF Rivals
        <5>3. "users" \in Tables \ {"models"} BY DEF Tables
        <5>4. rows'[Table(i)] = rows[Table(i)] \/ Table(j) = Table(i)
          BY <3>1, <5>3, CommitRows DEF Table
        <5>5. rows'[Table(i)] \subseteq rows[Table(i)] \cup {j}
          BY <3>1, <5>3, CommitRows DEF Table
        <5> QED BY <2>2, <5>2, <5>4, <5>5 DEF Taken, Table
      <4> QED BY <4>1, <4>2
    <3>2. CASE \A j \in Inserts : ~Commit(j)
      BY <3>2, <2>2, OnlyCommitWrites DEF Taken, Table
    <3> QED BY <3>1, <3>2
  <2>4. ASSUME NEW j \in Rivals(i)' PROVE FALSE
    <3>1. j \in Inserts /\ j # i /\ Table(j) = Table(i) /\ Name[j] = Name[i] /\ pc'[j] = "open"
      BY <2>4 DEF Rivals, Table
    <3>2. pc[j] # "open" BY <3>1, <2>2 DEF Rivals
    <3>3. Insert(j) BY <3>1, <3>2, OpensByInsert
    <3>4. Rivals(j) = {} BY <3>3 DEF Insert
    <3>5. pc[i] # "open" BY <3>1, <3>4 DEF Rivals
    <3>6. Insert(i) BY <1>2, <3>5, OpensByInsert
    <3>7. pc'[i] = pc[i] BY <3>1, <3>3 DEF Insert, Goto, TypeOK, Requests
    <3> QED BY <3>5, <3>7, <1>2
  <2> QED BY <2>3, <2>4
<1>3. ASSUME NEW i \in Inserts, pc'[i] = "taken" PROVE Taken(i)'
  <2>1. Taken(i)
    <3>1. CASE pc[i] = "taken" BY <3>1 DEF NameHasOneOwner
    <3>2. CASE pc[i] # "taken"
      <4>1. Check(i) \/ Insert(i) BY <3>2, <1>3, OpensByInsert
      <4> QED BY <4>1, <1>3 DEF Check, Insert, Goto, TypeOK, Requests
    <3> QED BY <3>1, <3>2
  <2> QED BY <2>1, TakenStays
<1>4. ASSUME NEW t \in {"users", "models"}, NEW i \in rows'[t], NEW j \in rows'[t],
             Name[i] = Name[j]
      PROVE i = j
  <2>1. ASSUME NEW n \in Inserts, Commit(n) PROVE i = j
    <3>1. ~Taken(n)
      BY <2>1 DEF NameInv, Commit
    <3>2. t \in Tables BY DEF Tables
    <3>3. rows'[t] = rows[t] \/ (t = Table(n) /\ rows'[t] = rows[t] \cup {n})
      BY <2>1, <3>2, CommitRows DEF Table
    <3> QED BY <1>4, <3>1, <3>3 DEF NameHasOneOwner, Taken
  <2>2. CASE \A n \in Inserts : ~Commit(n)
    BY <1>4, <2>2, OnlyCommitWrites DEF NameHasOneOwner
  <2> QED BY <2>1, <2>2
<1> QED BY <1>1, <1>2, <1>3, <1>4 DEF NameInv, NameHasOneOwner

(* Of any number of requests for one e-mail or model name at most one gets *)
(* it, and a refusal means that another has it (NameHasOneOwner).          *)
THEOREM NamesCorrect == Spec => []NameHasOneOwner
<1>1. Init => TypeOK /\ NameInv /\ NameHasOneOwner
  <2>1. Init => TypeOK BY TypeInit
  <2>2. Init => NameInv /\ NameHasOneOwner
    BY DEF Init, NameInv, NameHasOneOwner, Taken, Rivals, Tables, Requests
  <2> QED BY <2>1, <2>2
<1>2. TypeOK /\ NameInv /\ NameHasOneOwner /\ [Next]_vars
        => (TypeOK /\ NameInv /\ NameHasOneOwner)'
  BY TypeStep, NameStep
<1> QED BY <1>1, <1>2, PTL DEF Spec

-----------------------------------------------------------------------------
(* Keys.                                                                   *)

\* Where the keys and the requests about them stand.
KeyInv ==
  /\ \A k \in Keys : pc[k] \in {"new", "sent", "known"} => key[k] = "none"
  /\ \A v \in Revocations : pc[v] # "new" => target[v] \in Keys /\ key[target[v]] # "none"
  /\ \A v \in Revocations : pc[v] = "found" => owner[target[v]] = bearer[v]
  /\ \A c \in Calls : pc[c] # "new" => target[c] \in Keys

\* Why a late request will be refused.
LateInv ==
  /\ \A r \in late : r \in Dashboard => bearer[r] \in locked
  /\ \A r \in late : r \in Calls => target[r] \in Keys /\ key[target[r]] = "revoked"
  /\ \A r \in late : r \notin Inserts /\ pc[r] # "new"

\* The part of Next that is about keys and their requests.
KeyStep(r) ==
  \/ r \in Dashboard /\ Authenticate(r)
  \/ r \in Keys /\ CreateKey(r)
  \/ r \in Revocations /\ (FindKey(r) \/ Revoke(r))
  \/ r \in Calls /\ (ReadKey(r) \/ ReadBalance(r))
  \/ r \in Dashboard /\ \E u \in Registrations, k \in Keys \cup {None} : Send(r, u, k)
  \/ r \in Calls /\ \E k \in Keys : Present(r, k)

\* The other steps leave keys and their requests where they are.
LEMMA OtherSteps ==
  ASSUME TypeOK, [Next]_vars
  PROVE  \/ \E r \in Dashboard \cup Calls : KeyStep(r)
         \/ /\ \A r \in Dashboard \cup Calls : pc'[r] = pc[r]
            /\ UNCHANGED <<key, owner, bearer, target, late>>
            /\ locked \subseteq locked'
<1> DEFINE Same == /\ \A r \in Dashboard \cup Calls : pc'[r] = pc[r]
                   /\ UNCHANGED <<key, owner, bearer, target, late>>
                   /\ locked \subseteq locked'
<1>1. ASSUME NEW i \in Inserts, Check(i) \/ Forbid(i) \/ RollBack(i) \/ Insert(i) PROVE Same
  <2>1. \A r \in Dashboard \cup Calls : r # i BY Kinds
  <2> QED BY <1>1, <2>1
          DEF Check, Forbid, RollBack, Insert, Goto, TypeOK, Requests, keyVars, requestVars
<1>2. ASSUME NEW i \in Inserts, Flush(i) \/ Commit(i) PROVE Same
  <2>1. \A r \in Dashboard \cup Calls : r # i BY Kinds
  <2> QED BY <1>2, <2>1
          DEF Flush, Commit, Save, Goto, TypeOK, Requests, keyVars, requestVars
<1>3. ASSUME NEW u \in Registrations, Login(u) \/ LockOut(u) PROVE Same
  BY <1>3 DEF Login, LockOut, keyVars, requestVars
<1>4. CASE UNCHANGED vars BY <1>4 DEF vars
<1>5. ASSUME NEW r \in Requests, Step(r)
      PROVE (\E d \in Dashboard \cup Calls : KeyStep(d)) \/ r \in Inserts
  BY <1>5 DEF Step, KeyStep, Dashboard
<1>6. ASSUME NEW r \in Inserts, Step(r) PROVE Same
  <2>1. r \notin Dashboard /\ r \notin Calls /\ r \notin Keys /\ r \notin Revocations
    BY Kinds DEF Dashboard
  <2> QED BY <1>1, <1>2, <1>6, <2>1 DEF Step
<1>7. ASSUME NEW d \in Dashboard, NEW u \in Registrations, NEW k \in Keys \cup {None},
             Send(d, u, k)
      PROVE KeyStep(d)
  BY <1>7 DEF KeyStep
<1>8. ASSUME NEW c \in Calls, NEW k \in Keys, Present(c, k) PROVE KeyStep(c)
  BY <1>8 DEF KeyStep
<1> HIDE DEF Same
<1>9. CASE \E r \in Requests : Step(r) BY <1>5, <1>6, <1>9 DEF Same
<1>10. CASE \E i \in Inserts : Forbid(i) \/ RollBack(i) BY <1>1, <1>10 DEF Same
<1>11. CASE \E u \in Registrations : Login(u) \/ LockOut(u) BY <1>3, <1>11 DEF Same
<1>12. CASE \/ \E d \in Dashboard, u \in Registrations, k \in Keys \cup {None} : Send(d, u, k)
            \/ \E c \in Calls, k \in Keys : Present(c, k)
  BY <1>7, <1>8, <1>12
<1> QED BY <1>4, <1>9, <1>10, <1>11, <1>12 DEF Next, Same

\* A user is a member of the organization named after him and of no other.
LEMMA OwnOrganization == \A u : MemberOf(u) \subseteq {u}
BY DEF MemberOf

\* Distinct requests about keys do not disturb each other's places.
LEMMA KeyPlaces ==
  ASSUME TypeOK, NEW r \in Dashboard \cup Calls, KeyStep(r)
  PROVE  /\ \A s \in Requests \ {r} : pc'[s] = pc[s]
         /\ pc'[r] # "new"
         /\ \A s \in Dashboard \ {r} : bearer'[s] = bearer[s]
         /\ \A s \in (Revocations \cup Calls) \ {r} : target'[s] = target[s]
         /\ locked' = locked
         /\ rows' = rows
         /\ late' \subseteq late \cup {r}
<1> DEFINE Goal == /\ \A s \in Requests \ {r} : pc'[s] = pc[s]
                   /\ pc'[r] # "new"
                   /\ \A s \in Dashboard \ {r} : bearer'[s] = bearer[s]
                   /\ \A s \in (Revocations \cup Calls) \ {r} : target'[s] = target[s]
                   /\ locked' = locked
                   /\ rows' = rows
                   /\ late' \subseteq late \cup {r}
<1>r. r \in Requests BY DEF Requests
<1>t. pc \in [Requests -> {"new", "refused", "checked", "taken", "open", "failed",
                          "sent", "known", "found", "done"}]
  BY DEF TypeOK
<1>b. /\ bearer \in [Dashboard -> Registrations \cup {None}]
      /\ target \in [Revocations \cup Calls -> Keys \cup {None}]
  BY DEF TypeOK
<1>1. CASE Authenticate(r) BY <1>1, <1>r, <1>t DEF Authenticate, Goto, tableVars, requestVars
<1>2. CASE CreateKey(r) BY <1>2, <1>r, <1>t DEF CreateKey, Goto, tableVars, requestVars
<1>3. CASE FindKey(r) \/ Revoke(r)
  BY <1>3, <1>r, <1>t DEF FindKey, Revoke, Goto, tableVars, requestVars
<1>4. CASE ReadKey(r) \/ ReadBalance(r)
  BY <1>4, <1>r, <1>t DEF ReadKey, ReadBalance, Goto, tableVars, requestVars
<1>5. ASSUME NEW u \in Registrations, NEW k \in Keys \cup {None}, Send(r, u, k) PROVE Goal
  BY <1>5, <1>r, <1>t, <1>b DEF Send, Goto, tableVars
<1>6. ASSUME NEW k \in Keys, Present(r, k) PROVE Goal
  BY <1>6, <1>r, <1>t, <1>b DEF Present, Goto, tableVars
<1> QED BY <1>1, <1>2, <1>3, <1>4, <1>5, <1>6 DEF KeyStep

\* What each request does to the keys.
LEMMA KeyEffects ==
  ASSUME TypeOK, KeyInv, NEW r \in Dashboard \cup Calls, KeyStep(r), NEW k \in Keys
  PROVE  \/ key'[k] = key[k] /\ owner'[k] = owner[k]
         \/ /\ r = k /\ CreateKey(k) /\ key[k] = "none" /\ key'[k] = "active"
            /\ owner'[k] \in MemberOf(bearer[k]) /\ pc'[k] \in {"done", "failed"}
         \/ /\ r \in Revocations /\ Revoke(r) /\ target[r] = k /\ key[k] # "none"
            /\ owner[k] = bearer[r] /\ key'[k] = "revoked" /\ owner'[k] = owner[k]
<1> DEFINE Goal ==
      \/ key'[k] = key[k] /\ owner'[k] = owner[k]
      \/ /\ r = k /\ CreateKey(k) /\ key[k] = "none" /\ key'[k] = "active"
         /\ owner'[k] \in MemberOf(bearer[k]) /\ pc'[k] \in {"done", "failed"}
      \/ /\ r \in Revocations /\ Revoke(r) /\ target[r] = k /\ key[k] # "none"
         /\ owner[k] = bearer[r] /\ key'[k] = "revoked" /\ owner'[k] = owner[k]
<1>t. /\ key \in [Keys -> {"none", "active", "revoked"}]
      /\ owner \in [Keys -> Registrations \cup {None}]
      /\ pc \in [Requests -> {"new", "refused", "checked", "taken", "open", "failed",
                             "sent", "known", "found", "done"}]
  BY DEF TypeOK
<1>1. CASE Authenticate(r) \/ FindKey(r) \/ ReadKey(r) \/ ReadBalance(r)
  BY <1>1 DEF Authenticate, FindKey, ReadKey, ReadBalance, keyVars
<1>2. CASE r \in Keys /\ CreateKey(r)
  <2>1. r \in Requests BY DEF Requests
  <2>2. key[r] = "none" BY <1>2 DEF CreateKey, KeyInv
  <2>3. CASE UNCHANGED keyVars BY <2>3 DEF keyVars
  <2>4. CASE /\ \E o \in MemberOf(bearer[r]) : owner' = [owner EXCEPT ![r] = o]
             /\ key' = [key EXCEPT ![r] = "active"]
             /\ Goto(r, "done") \/ Goto(r, "failed")
    <3>1. CASE r = k BY <1>2, <1>t, <2>1, <2>2, <2>4, <3>1 DEF Goto
    <3>2. CASE r # k BY <1>t, <2>4, <3>2
    <3> QED BY <3>1, <3>2
  <2> QED BY <1>2, <2>3, <2>4 DEF CreateKey
<1>3. CASE r \in Revocations /\ Revoke(r)
  <2>1. /\ target[r] \in Keys /\ key[target[r]] # "none" /\ owner[target[r]] = bearer[r]
        /\ owner' = owner
    BY <1>3 DEF Revoke, KeyInv
  <2>2. key' = key \/ key' = [key EXCEPT ![target[r]] = "revoked"] BY <1>3 DEF Revoke
  <2>3. CASE target[r] = k BY <1>3, <1>t, <2>1, <2>2, <2>3
  <2>4. CASE target[r] # k BY <1>t, <2>1, <2>2, <2>4
  <2> QED BY <2>3, <2>4
<1>4. ASSUME NEW u \in Registrations, NEW j \in Keys \cup {None}, Send(r, u, j) PROVE Goal
  BY <1>4 DEF Send, keyVars
<1>5. ASSUME NEW j \in Keys, Present(r, j) PROVE Goal BY <1>5 DEF Present, keyVars
<1> QED BY <1>1, <1>2, <1>3, <1>4, <1>5 DEF KeyStep

\* A key that exists goes on to exist, with its organization.
LEMMA KeysStay ==
  ASSUME TypeOK, KeyInv, NEW r \in Dashboard \cup Calls, KeyStep(r),
         NEW k \in Keys, key[k] # "none"
  PROVE  key'[k] # "none" /\ owner'[k] = owner[k]
BY KeyEffects

LEMMA KeyInvStep == TypeOK /\ KeyInv /\ [Next]_vars => KeyInv'
<1> SUFFICES ASSUME TypeOK, KeyInv, [Next]_vars PROVE KeyInv' OBVIOUS
<1>d. /\ \A k \in Keys : k \in Requests /\ k \notin Revocations /\ k \notin Calls
      /\ \A v \in Revocations : v \in Requests /\ v \notin Keys /\ v \notin Calls
      /\ \A c \in Calls : c \in Requests /\ c \notin Keys /\ c \notin Revocations
      /\ \A c \in Calls : c \notin Dashboard
  BY Kinds DEF Requests, Dashboard
<1>t. /\ pc \in [Requests -> {"new", "refused", "checked", "taken", "open", "failed",
                             "sent", "known", "found", "done"}]
      /\ bearer \in [Dashboard -> Registrations \cup {None}]
      /\ target \in [Revocations \cup Calls -> Keys \cup {None}]
  BY DEF TypeOK
<1>1. ASSUME NEW r \in Dashboard \cup Calls, KeyStep(r) PROVE KeyInv'
  <2>p. /\ \A s \in Requests \ {r} : pc'[s] = pc[s]
        /\ pc'[r] # "new"
        /\ \A s \in Dashboard \ {r} : bearer'[s] = bearer[s]
        /\ \A s \in (Revocations \cup Calls) \ {r} : target'[s] = target[s]
    BY <1>1, KeyPlaces
  <2>k. \A k \in Keys : key[k] # "none" => key'[k] # "none" /\ owner'[k] = owner[k]
    BY <1>1, KeysStay
  <2>1. ASSUME NEW k \in Keys, pc'[k] \in {"new", "sent", "known"} PROVE key'[k] = "none"
    <3>1. pc[k] \in {"new", "sent", "known"} /\ ~(r = k /\ CreateKey(k))
      <4>1. CASE r # k
        BY <2>1, <2>p, <4>1, <1>d
      <4>2. CASE r = k
        <5>1. ~CreateKey(k) BY <2>1, <1>t, <1>d DEF CreateKey, Goto
        <5>2. Authenticate(k) \/ \E u \in Registrations, j \in Keys \cup {None} : Send(k, u, j)
          BY <1>1, <4>2, <5>1, <1>d DEF KeyStep
        <5> QED BY <5>1, <5>2 DEF Authenticate, Send
      <4> QED BY <4>1, <4>2
    <3>2. key[k] = "none" BY <3>1 DEF KeyInv
    <3> QED BY <1>1, <3>1, <3>2, KeyEffects
  <2>2. ASSUME NEW v \in Revocations, pc'[v] # "new"
        PROVE target'[v] \in Keys /\ key'[target'[v]] # "none"
    <3>1. CASE r # v \/ ~\E u \in Registrations, k \in Keys \cup {None} : Send(v, u, k)
      <4>1. target'[v] = target[v] /\ pc[v] # "new"
        <5>1. CASE r # v BY <2>2, <2>p, <5>1, <1>d
        <5>2. CASE r = v
          <6>1. Authenticate(v) \/ FindKey(v) \/ Revoke(v)
            BY <1>1, <3>1, <5>2, <1>d DEF KeyStep
          <6> QED BY <6>1 DEF Authenticate, FindKey, Revoke, requestVars
        <5> QED BY <5>1, <5>2
      <4> QED BY <4>1, <2>k DEF KeyInv
    <3>2. ASSUME NEW u \in Registrations, NEW k \in Keys \cup {None}, Send(v, u, k)
          PROVE target'[v] \in Keys /\ key'[target'[v]] # "none"
      BY <3>2, <1>d, <1>t DEF Send, keyVars
    <3> QED BY <3>1, <3>2
  <2>3. ASSUME NEW v \in Revocations, pc'[v] = "found"
        PROVE owner'[target'[v]] = bearer'[v]
    <3>1. CASE r # v
      <4>1. pc[v] = "found" /\ target'[v] = target[v] /\ bearer'[v] = bearer[v]
        BY <2>3, <2>p, <3>1, <1>d DEF Dashboard
      <4> QED BY <4>1, <2>k DEF KeyInv
    <3>2. CASE r = v
      <4>1. FindKey(v)
        <5>1. ~Authenticate(v) BY <2>3, <1>t, <1>d DEF Authenticate, Goto
        <5>2. ~Revoke(v) BY <2>3, <1>t, <1>d DEF Revoke, Goto
        <5>3. \A u \in Registrations, k \in Keys \cup {None} : ~Send(v, u, k)
          BY <2>3, <1>t, <1>d DEF Send, Goto
        <5> QED BY <1>1, <3>2, <5>1, <5>2, <5>3, <1>d DEF KeyStep
      <4>2. owner[target[v]] \in MemberOf(bearer[v])
        BY <4>1, <2>3, <1>t, <1>d DEF FindKey, Goto
      <4> QED BY <4>1, <4>2, OwnOrganization DEF FindKey, keyVars, requestVars
    <3> QED BY <3>1, <3>2
  <2>4. ASSUME NEW c \in Calls, pc'[c] # "new" PROVE target'[c] \in Keys
    <3>1. CASE r # c BY <2>4, <2>p, <3>1, <1>d DEF KeyInv
    <3>2. CASE r = c
      <4>1. CASE ReadKey(c) \/ ReadBalance(c)
        BY <4>1 DEF ReadKey, ReadBalance, requestVars, KeyInv
      <4>2. ASSUME NEW k \in Keys, Present(c, k) PROVE target'[c] \in Keys
        BY <4>2, <1>t DEF Present
      <4> QED BY <1>1, <3>2, <4>1, <4>2, <1>d DEF KeyStep
    <3> QED BY <3>1, <3>2
  <2> QED BY <2>1, <2>2, <2>3, <2>4 DEF KeyInv
<1>2. ASSUME \A r \in Dashboard \cup Calls : pc'[r] = pc[r],
             UNCHANGED <<key, owner, bearer, target, late>>
      PROVE KeyInv'
  BY <1>2 DEF KeyInv, Dashboard
<1> QED BY <1>1, <1>2, OtherSteps

\* A request that came late is refused.
LEMMA LateStep ==
  TypeOK /\ KeyInv /\ LateInv /\ LateIsRefused /\ [Next]_vars
    => LateInv' /\ LateIsRefused'
<1> SUFFICES ASSUME TypeOK, KeyInv, LateInv, LateIsRefused, [Next]_vars,
                    NEW s \in late'
             PROVE  /\ s \in Dashboard => bearer'[s] \in locked'
                    /\ s \in Calls => target'[s] \in Keys /\ key'[target'[s]] = "revoked"
                    /\ s \notin Inserts /\ pc'[s] # "new"
                    /\ pc'[s] \notin {"known", "found", "done"}
  BY DEF LateInv, LateIsRefused
<1> DEFINE Goal == /\ s \in Dashboard => bearer'[s] \in locked'
                   /\ s \in Calls => target'[s] \in Keys /\ key'[target'[s]] = "revoked"
                   /\ s \notin Inserts /\ pc'[s] # "new"
                   /\ pc'[s] \notin {"known", "found", "done"}
<1>d. /\ \A r \in Dashboard \cup Calls : r \in Requests /\ r \notin Inserts
      /\ \A r \in Dashboard : r \notin Calls
      /\ Keys \subseteq Dashboard /\ Revocations \subseteq Dashboard
  BY Kinds DEF Requests, Dashboard
<1>t. /\ pc \in [Requests -> {"new", "refused", "checked", "taken", "open", "failed",
                             "sent", "known", "found", "done"}]
      /\ bearer \in [Dashboard -> Registrations \cup {None}]
      /\ target \in [Revocations \cup Calls -> Keys \cup {None}]
      /\ key \in [Keys -> {"none", "active", "revoked"}]
  BY DEF TypeOK
<1>s. ASSUME s \in late
      PROVE  s \in Dashboard \cup Calls
  BY <1>s DEF LateInv, TypeOK, Requests
<1>1. ASSUME NEW r \in Dashboard \cup Calls, KeyStep(r) PROVE Goal
  <2>p. /\ \A q \in Requests \ {r} : pc'[q] = pc[q]
        /\ \A q \in Dashboard \ {r} : bearer'[q] = bearer[q]
        /\ \A q \in (Revocations \cup Calls) \ {r} : target'[q] = target[q]
        /\ locked' = locked
        /\ late' \subseteq late \cup {r}
    BY <1>1, KeyPlaces
  <2>k. \A k \in Keys : key[k] = "revoked" => key'[k] = "revoked"
    BY <1>1, KeyEffects
  <2>1. CASE s # r
    BY <2>1, <2>p, <2>k, <1>s, <1>d DEF LateInv, LateIsRefused
  <2>2. CASE s = r /\ s \in late
    <3>1. pc[s] # "new" /\ pc[s] \notin {"known", "found", "done"}
      BY <2>2 DEF LateInv, LateIsRefused
    <3>2. CASE s \in Dashboard
      <4>1. Authenticate(s)
        BY <1>1, <2>2, <3>1, <3>2, <1>d
           DEF KeyStep, CreateKey, FindKey, Revoke, Send
      <4>2. bearer[s] \in locked BY <2>2, <3>2 DEF LateInv
      <4>3. pc'[s] = "refused"
        BY <4>1, <4>2, <1>t, <1>d, <3>2 DEF Authenticate, Goto
      <4> QED BY <4>1, <4>2, <4>3, <2>p, <3>2, <1>d DEF Authenticate, requestVars
    <3>3. CASE s \in Calls
      <4>1. ReadKey(s)
        BY <1>1, <2>2, <3>1, <3>3, <1>d DEF KeyStep, ReadBalance, Present
      <4>2. target[s] \in Keys /\ key[target[s]] = "revoked" BY <2>2, <3>3 DEF LateInv
      <4>3. pc'[s] = "refused"
        BY <4>1, <4>2, <1>t, <1>d, <3>3 DEF ReadKey, Goto
      <4> QED BY <4>1, <4>2, <4>3, <3>3, <1>d DEF ReadKey, keyVars, requestVars
    <3> QED BY <2>2, <3>2, <3>3, <1>s
  <2>3. CASE s = r /\ s \notin late
    <3>1. ASSUME NEW u \in Registrations, NEW k \in Keys \cup {None}, Send(s, u, k),
                 s \in Dashboard
          PROVE Goal
      <4>1. u \in locked BY <3>1, <2>3 DEF Send
      <4> QED BY <3>1, <4>1, <2>p, <1>t, <1>d DEF Send, Goto
    <3>2. ASSUME NEW k \in Keys, Present(s, k), s \in Calls PROVE Goal
      <4>1. key[k] = "revoked" BY <3>2, <2>3 DEF Present
      <4> QED BY <3>2, <4>1, <1>t, <1>d DEF Present, Goto, keyVars
    <3>3. ~\/ Authenticate(s) \/ CreateKey(s) \/ FindKey(s) \/ Revoke(s)
           \/ ReadKey(s) \/ ReadBalance(s)
      BY <2>3 DEF Authenticate, CreateKey, FindKey, Revoke, ReadKey, ReadBalance, requestVars
    <3> QED BY <1>1, <2>3, <3>1, <3>2, <3>3 DEF KeyStep
  <2> QED BY <2>1, <2>2, <2>3
<1>2. ASSUME \A r \in Dashboard \cup Calls : pc'[r] = pc[r],
             UNCHANGED <<key, owner, bearer, target, late>>,
             locked \subseteq locked'
      PROVE Goal
  BY <1>2, <1>s DEF LateInv, LateIsRefused
<1> QED BY <1>1, <1>2, OtherSteps

(* No call with a key revoked before it came is admitted, and no request   *)
(* of a user locked out before is obeyed (LateIsRefused).                  *)
THEOREM LateCorrect == Spec => []LateIsRefused
<1>1. Init => TypeOK /\ KeyInv /\ LateInv /\ LateIsRefused
  <2>1. Init => TypeOK BY TypeInit
  <2>2. Init => KeyInv /\ LateInv /\ LateIsRefused
    BY DEF Init, KeyInv, LateInv, LateIsRefused, Requests, Dashboard
  <2> QED BY <2>1, <2>2
<1>2. TypeOK /\ KeyInv /\ LateInv /\ LateIsRefused /\ [Next]_vars
        => (TypeOK /\ KeyInv /\ LateInv /\ LateIsRefused)'
  BY TypeStep, KeyInvStep, LateStep
<1> QED BY <1>1, <1>2, PTL DEF Spec

(* A key is revoked only by its organization's member, for good, and never *)
(* changes hands (KeysAreTheirOwners).                                     *)
THEOREM OwnersCorrect == Spec => KeysAreTheirOwners
<1> DEFINE Theirs ==
      \A k \in Keys :
        /\ key[k] = "active" /\ key'[k] # "active" =>
             /\ key'[k] = "revoked"
             /\ \E v \in Revocations : /\ pc[v] = "found" /\ pc'[v] # "found"
                                       /\ target[v] = k
                                       /\ bearer[v] = owner[k]
        /\ key[k] = "revoked" => key'[k] = "revoked"
        /\ key[k] # "none" => owner'[k] = owner[k]
<1>1. Init => TypeOK /\ KeyInv
  <2>1. Init => TypeOK BY TypeInit
  <2>2. Init => KeyInv BY DEF Init, KeyInv, Requests, Dashboard
  <2> QED BY <2>1, <2>2
<1>2. TypeOK /\ KeyInv /\ [Next]_vars => (TypeOK /\ KeyInv)' BY TypeStep, KeyInvStep
<1>3. TypeOK /\ KeyInv /\ [Next]_vars => [Theirs]_vars
  <2> SUFFICES ASSUME TypeOK, KeyInv, [Next]_vars PROVE Theirs OBVIOUS
  <2>1. ASSUME NEW r \in Dashboard \cup Calls, KeyStep(r), NEW k \in Keys
        PROVE /\ key[k] = "active" /\ key'[k] # "active" =>
                   /\ key'[k] = "revoked"
                   /\ \E v \in Revocations : /\ pc[v] = "found" /\ pc'[v] # "found"
                                             /\ target[v] = k
                                             /\ bearer[v] = owner[k]
              /\ key[k] = "revoked" => key'[k] = "revoked"
              /\ key[k] # "none" => owner'[k] = owner[k]
    <3>1. ASSUME r \in Revocations, Revoke(r) PROVE pc[r] = "found" /\ pc'[r] # "found"
      BY <3>1 DEF Revoke, Goto, TypeOK, Requests, Dashboard
    <3> QED BY <2>1, <3>1, KeyEffects
  <2>2. CASE UNCHANGED <<key, owner, bearer, target, late>> BY <2>2
  <2> QED BY <2>1, <2>2, OtherSteps
<1> QED BY <1>1, <1>2, <1>3, PTL DEF Spec, KeysAreTheirOwners

-----------------------------------------------------------------------------
(* Registrations.                                                          *)

LEMMA WholeStep ==
  TypeOK /\ KeyInv /\ RegistrationIsWhole /\ [Next]_vars => RegistrationIsWhole'
<1> SUFFICES ASSUME TypeOK, KeyInv, RegistrationIsWhole, [Next]_vars
             PROVE  RegistrationIsWhole'
  OBVIOUS
<1>t. {"users", "organization_members", "billing_accounts"} \subseteq Tables \ {"models"}
  BY DEF Tables
<1>1. ASSUME NEW t \in Tables \ {"models"} PROVE rows'[t] = rows'["users"]
  <2>1. ASSUME NEW i \in Inserts, Commit(i) PROVE rows'[t] = rows'["users"]
    BY <2>1, <1>t, CommitRows DEF RegistrationIsWhole
  <2>2. CASE \A i \in Inserts : ~Commit(i)
    BY <2>2, OnlyCommitWrites DEF RegistrationIsWhole
  <2> QED BY <2>1, <2>2
<1>2. ASSUME NEW k \in Keys, key'[k] # "none"
      PROVE owner'[k] \in rows'["billing_accounts"]
  <2>1. rows["billing_accounts"] \subseteq rows'["billing_accounts"] BY <1>t, RowsGrow
  <2>2. ASSUME NEW r \in Dashboard \cup Calls, KeyStep(r)
        PROVE owner'[k] \in rows["billing_accounts"]
    <3>1. MemberOf(bearer[k]) \subseteq rows["billing_accounts"]
      BY <1>t DEF MemberOf, RegistrationIsWhole
    <3> QED BY <1>2, <2>2, <3>1, KeyEffects DEF RegistrationIsWhole
  <2>3. ASSUME UNCHANGED <<key, owner, bearer, target, late>>
        PROVE owner'[k] \in rows["billing_accounts"]
    BY <1>2, <2>3 DEF RegistrationIsWhole
  <2> QED BY <2>1, <2>2, <2>3, OtherSteps
<1>3. ASSUME NEW i \in Inserts, pc'[i] = "done" PROVE i \in rows'[Table(i)]
  <2>1. CASE pc[i] = "done"
    <3>1. i \in rows[Table(i)] BY <2>1 DEF RegistrationIsWhole
    <3>2. Table(i) \in Tables BY DEF Table, Tables
    <3> QED BY <3>1, <3>2, RowsGrow
  <2>2. CASE pc[i] # "done"
    <3>1. Commit(i) BY <1>3, <2>2, OpensByInsert
    <3> QED BY <3>1, <1>t, CommitRows DEF Table
  <2> QED BY <2>1, <2>2
<1> QED BY <1>1, <1>2, <1>3 DEF RegistrationIsWhole, Table

(* A user never lacks his organization, account or first deposit, and a    *)
(* key never lacks its account (RegistrationIsWhole).                      *)
THEOREM RegistrationCorrect == Spec => []RegistrationIsWhole
<1>1. Init => TypeOK /\ KeyInv /\ RegistrationIsWhole
  <2>1. Init => TypeOK BY TypeInit
  <2>2. Init => KeyInv /\ RegistrationIsWhole
    BY DEF Init, KeyInv, RegistrationIsWhole, Tables, Requests, Dashboard
  <2> QED BY <2>1, <2>2
<1>2. TypeOK /\ KeyInv /\ RegistrationIsWhole /\ [Next]_vars
        => (TypeOK /\ KeyInv /\ RegistrationIsWhole)'
  BY TypeStep, KeyInvStep, WholeStep
<1> QED BY <1>1, <1>2, PTL DEF Spec

=============================================================================
