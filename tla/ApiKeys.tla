------------------------------ MODULE ApiKeys ------------------------------
(***************************************************************************)
(* API keys: authentication of a request by its key, and the three         *)
(* operations that change keys (create, rotate, revoke), each an audited   *)
(* transaction.  Many requests run at once, on any number of API           *)
(* processes; they meet only in the rows of api_keys.                      *)
(*                                                                         *)
(*   http/authentication.ts      onRequest and preHandler hooks            *)
(*   api-keys/api-key.service.ts create, rotate, revoke, authenticate      *)
(*   audit/audit.ts              audited: work and its entries in one tx   *)
(*                                                                         *)
(* A request without a well-formed Authorization header ends before any of *)
(* this and is left out. A request that issues a key issues one, with a    *)
(* fresh id: the new key is named by the request. Permissions, coverage    *)
(* and application of a key never change after its insert, so one read of  *)
(* them stands for the two statements (row, then projects) of findById. No *)
(* code of the system suspends or deletes a tenant, an application, a      *)
(* project or a key: they exist, active, throughout. Provisioning gives    *)
(* every application a tenant of its own, so a key of another application  *)
(* is also a key of another tenant: both predicates refuse it.             *)
(***************************************************************************)
EXTENDS Naturals, FiniteSets

CONSTANTS
  Roots,         \* the bootstrap keys that provisioning issued
  Requests,      \* the requests, and the keys they may issue
  Applications,  \* the applications, each of a tenant of its own
  ProjectsOf,    \* ProjectsOf[a]: the projects of application a
  AllProjects,   \* a coverage: every project of the key's application
  Grants,        \* the grants that keys are asked for (a bound)
  Overlaps,      \* the overlap windows that rotations ask for (a bound)
  System,        \* the system context, which provisioning runs in
  Unknown,       \* a presented string that is no key of the table
  Nobody,        \* no request
  Never,         \* SQL null in expires_at
  MaxClock,      \* bound: the clock stops here
  Faults         \* what may go wrong: "db", "commit_unacked", "crash"

Keys == Roots \cup Requests
Ops == {"create", "rotate", "revoke"}
Needs == [o \in Ops |-> CASE o = "create" -> "api-key:create"
                          [] o = "rotate" -> "api-key:update"
                          [] o = "revoke" -> "api-key:delete"]

ASSUME NamesAssumption ==
  /\ Roots \cap Requests = {}
  /\ System \notin Keys /\ Unknown \notin Keys \cup {System}
  /\ Nobody \notin Keys /\ Never \notin Nat
ASSUME ClockAssumption == MaxClock \in Nat /\ Overlaps \subseteq Nat
ASSUME FaultsAssumption == Faults \subseteq {"db", "commit_unacked", "crash"}

Projects == UNION {ProjectsOf[a] : a \in Applications}
Coverage == {AllProjects} \cup SUBSET Projects
Grant == [permissions : SUBSET {Needs[o] : o \in Ops}, projects : Coverage]

ASSUME GrantsAssumption == Grants \subseteq Grant


VARIABLES
  clock,    \* Date.now(), the same for every process
  status,   \* status[k]: absent, active or revoked (committed)
  appOf,    \* appOf[k]: the application of key k
  grant,    \* grant[k]: permissions and project coverage of key k
  expires,  \* expires[k]: expires_at of key k
  issuer,   \* issuer[k]: the actor of the context that inserted k (history)
  audit,    \* audit[r]: the entry the transaction of request r wrote
  lock,     \* lock[k]: the request whose open transaction updated row k
  pc,       \* pc[r]: where request r is
  op,       \* op[r]: what it asks for
  caller,   \* caller[r]: the key it presents
  app,      \* app[r]: the application in its path
  target,   \* target[r]: the key in its path
  overlap,  \* overlap[r]: overlap_seconds
  issue,    \* issue[r]: the grant of the row it inserts
  until,    \* until[r]: oldExpiresAt of a rotation
  answer,   \* answer[r]: what the client was told
  barred    \* barred[r]: when r was sent, some request had been told that
            \* the key it presents is revoked (history)

rows == <<status, appOf, grant, expires, issuer, audit>>
inputs == <<op, caller, app, target, overlap, barred>>
vars == <<clock, rows, lock, pc, inputs, issue, until, answer>>

-----------------------------------------------------------------------------
(***************************************************************************)
(* Types                                                                   *)
(***************************************************************************)
TxPc == {"create", "rotate", "rotate_insert", "rotate_expire",
         "revoke_update", "commit"}
RunPc == {"authenticate", "revoke", "read_back"} \cup TxPc
Pc == {"idle", "done", "crashed"} \cup RunPc

Code == {"api_key_invalid", "rate_limited", "permission_denied", "not_found",
         "invalid_state", "service_unavailable", "internal"}
Answer == Code \cup {"none", "issued", "revoked"}

NoGrant == [permissions |-> {}, projects |-> {}]
Entry == [action : {"none", "created", "rotated", "revoked"},
          key    : Keys \cup {Unknown},
          actor  : Keys \cup {System, Nobody},
          until  : Nat]
NoEntry == [action |-> "none", key |-> Unknown, actor |-> Nobody, until |-> 0]

\* Types, and: only an open transaction holds a row lock.
TypeOK ==
  /\ clock \in 0..MaxClock
  /\ status \in [Keys -> {"absent", "active", "revoked"}]
  /\ appOf \in [Keys -> Applications \cup {Nobody}]
  /\ grant \in [Keys -> Grant]
  /\ expires \in [Keys -> Nat \cup {Never}]
  /\ issuer \in [Keys -> Keys \cup {System, Nobody}]
  /\ audit \in [Requests -> Entry]
  /\ lock \in [Keys -> Requests \cup {Nobody}]
  /\ \A k \in Keys : lock[k] # Nobody => pc[lock[k]] = "commit"
  /\ pc \in [Requests -> Pc]
  /\ op \in [Requests -> Ops]
  /\ caller \in [Requests -> Keys \cup {System, Unknown}]
  /\ app \in [Requests -> Applications \cup {Nobody}]
  /\ target \in [Requests -> Keys \cup {Unknown}]
  /\ overlap \in [Requests -> Nat]
  /\ issue \in [Requests -> Grant]
  /\ until \in [Requests -> Nat]
  /\ answer \in [Requests -> Answer]
  /\ barred \in [Requests -> BOOLEAN]

(***************************************************************************)
(* provisionTenant has issued the roots: keys for all projects of a new    *)
(* application, with the permissions the operator chose.                   *)
(***************************************************************************)
Init ==
  /\ clock = 0
  /\ status = [k \in Keys |-> IF k \in Roots THEN "active" ELSE "absent"]
  /\ \E a \in [Roots -> Applications], g \in [Roots -> Grants] :
       /\ \A k \in Roots : g[k].projects = AllProjects
       /\ appOf = [k \in Keys |-> IF k \in Roots THEN a[k] ELSE Nobody]
       /\ grant = [k \in Keys |-> IF k \in Roots THEN g[k] ELSE NoGrant]
  /\ expires = [k \in Keys |-> Never]
  /\ issuer = [k \in Keys |-> IF k \in Roots THEN System ELSE Nobody]
  /\ audit = [r \in Requests |-> NoEntry]
  /\ lock = [k \in Keys |-> Nobody]
  /\ pc = [r \in Requests |-> "idle"]
  /\ op = [r \in Requests |-> "create"]
  /\ caller = [r \in Requests |-> Unknown]
  /\ app = [r \in Requests |-> Nobody]
  /\ target = [r \in Requests |-> Unknown]
  /\ overlap = [r \in Requests |-> 0]
  /\ issue = [r \in Requests |-> NoGrant]
  /\ until = [r \in Requests |-> 0]
  /\ answer = [r \in Requests |-> "none"]
  /\ barred = [r \in Requests |-> FALSE]

-----------------------------------------------------------------------------
(***************************************************************************)
(* Helpers                                                                 *)
(***************************************************************************)
Goto(r, label) == pc' = [pc EXCEPT ![r] = label]

Reply(r, code) ==
  /\ Goto(r, "done")
  /\ answer' = [answer EXCEPT ![r] = code]

\* assertWithinCallerGrant: a grant no broader than the caller's.
Within(inner, outer) ==
  /\ inner.permissions \subseteq outer.permissions
  /\ outer.projects # AllProjects =>
       /\ inner.projects # AllProjects
       /\ inner.projects \subseteq outer.projects

\* assertApplicationInScope
InScope(r) == appOf[caller[r]] = app[r]

\* requireKey, and the findById of rotate, find the row.
Found(r) ==
  /\ target[r] \in Keys
  /\ status[target[r]] # "absent"
  /\ appOf[target[r]] = app[r]

\* A plausible slip: a rotated key is refused when it expires, a revoked
\* one is not refused.
Usable_AnyStatus(k) ==
  /\ k \in Keys
  /\ status[k] # "absent"
  /\ expires[k] # Never => clock < expires[k]

\* What authenticate decides on besides the secret.
Usable(k) ==
  /\ k \in Keys
  /\ status[k] = "active"
  /\ expires[k] # Never => clock < expires[k]

\* A plausible slip: the expiry is set, not shortened.
Least_Set(e, t) == t

\* SQL least(), which ignores null.
Least(e, t) == IF e = Never \/ t < e THEN t ELSE e

\* A plausible slip: the connection goes back to the pool with its
\* transaction still open.
Unlock_Never(r) == UNCHANGED lock

\* The end of a transaction releases its row locks.
Unlock(r) == lock' = [k \in Keys |-> IF lock[k] = r THEN Nobody ELSE lock[k]]

-----------------------------------------------------------------------------
(***************************************************************************)
(* Arrival and authentication                                              *)
(***************************************************************************)
\* The plaintexts that some client holds.
Disclosed == Roots \cup {s \in Requests : answer[s] = "issued"}

Arrive(r) ==
  /\ pc[r] = "idle"
  /\ Goto(r, "authenticate")
  /\ \E k \in Disclosed \cup {Unknown}, a \in Applications :
       /\ caller' = [caller EXCEPT ![r] = k]
       /\ app' = [app EXCEPT ![r] = a]
       /\ barred' = [barred EXCEPT ![r] = \E s \in Requests :
                                answer[s] = "revoked" /\ target[s] = k]
  /\ \/ \E g \in Grants :
          /\ op' = [op EXCEPT ![r] = "create"]
          /\ issue' = [issue EXCEPT ![r] = g]
          /\ UNCHANGED <<target, overlap>>
     \/ \E k \in {j \in Keys : status[j] # "absent"}, w \in Overlaps :
          /\ op' = [op EXCEPT ![r] = "rotate"]
          /\ target' = [target EXCEPT ![r] = k]
          /\ overlap' = [overlap EXCEPT ![r] = w]
          /\ UNCHANGED issue
     \/ \E k \in {j \in Keys : status[j] # "absent"} :
          /\ op' = [op EXCEPT ![r] = "revoke"]
          /\ target' = [target EXCEPT ![r] = k]
          /\ UNCHANGED <<overlap, issue>>
  /\ UNCHANGED <<clock, rows, lock, until, answer>>

(***************************************************************************)
(* The two hooks: one read of the row, then the permission of the route.   *)
(* The context they build is the caller's grant and application.  The      *)
(* failure limiter comes first: failed authentications from the same       *)
(* address may have filled it, and it looks up no key.                     *)
(***************************************************************************)
Authenticate(r) ==
  /\ pc[r] = "authenticate"
  /\ LET k == caller[r]
     IN \/ /\ \E s \in Requests : answer[s] = "api_key_invalid"
           /\ Reply(r, "rate_limited")
        \/ /\ ~Usable(k)
           /\ Reply(r, "api_key_invalid")
        \/ /\ Usable(k)
           /\ Needs[op[r]] \notin grant[k].permissions
           /\ Reply(r, "permission_denied")
        \/ /\ Usable(k)
           /\ Needs[op[r]] \in grant[k].permissions
           /\ Goto(r, op[r])
           /\ UNCHANGED answer
  /\ UNCHANGED <<clock, rows, lock, inputs, issue, until>>

-----------------------------------------------------------------------------
(***************************************************************************)
(* create                                                                  *)
(***************************************************************************)
Create(r) ==
  /\ pc[r] = "create"
  /\ LET mine == grant[caller[r]]
         present == issue[r].projects # AllProjects =>
                      issue[r].projects \subseteq ProjectsOf[app[r]]
     IN \/ /\ ~InScope(r)
           /\ Reply(r, "not_found")
        \/ /\ InScope(r) /\ ~Within(issue[r], mine)
           /\ Reply(r, "permission_denied")
        \/ /\ InScope(r) /\ Within(issue[r], mine) /\ ~present
           /\ Reply(r, "not_found")
        \/ /\ InScope(r) /\ Within(issue[r], mine) /\ present
           /\ Goto(r, "commit")
           /\ UNCHANGED answer
  /\ UNCHANGED <<clock, rows, lock, inputs, issue, until>>

-----------------------------------------------------------------------------
(***************************************************************************)
(* rotate: the old key is read without a lock; its row is locked only by   *)
(* the UPDATE of expireBy, which waits for another transaction's.          *)
(***************************************************************************)
\* A plausible slip: the grant of the old key is not held against the
\* caller's.
Rotate_AnyGrant(r) ==
  /\ pc[r] = "rotate"
  /\ \/ /\ ~InScope(r) \/ ~Found(r)
        /\ Reply(r, "not_found")
        /\ UNCHANGED issue
     \/ /\ InScope(r) /\ Found(r)
        /\ issue' = [issue EXCEPT ![r] = grant[target[r]]]
        /\ Goto(r, "rotate_insert")
        /\ UNCHANGED answer
  /\ UNCHANGED <<clock, rows, lock, inputs, until>>

Rotate(r) ==
  /\ pc[r] = "rotate"
  /\ LET k == target[r]
         mine == grant[caller[r]]
     IN \/ /\ ~InScope(r) \/ ~Found(r)
           /\ Reply(r, "not_found")
           /\ UNCHANGED issue
        \/ /\ InScope(r) /\ Found(r) /\ ~Within(grant[k], mine)
           /\ Reply(r, "permission_denied")
           /\ UNCHANGED issue
        \/ /\ InScope(r) /\ Found(r) /\ Within(grant[k], mine)
           /\ status[k] # "active"
           /\ Reply(r, "invalid_state")
           /\ UNCHANGED issue
        \/ /\ InScope(r) /\ Found(r) /\ Within(grant[k], mine)
           /\ status[k] = "active"
           /\ issue' = [issue EXCEPT ![r] = grant[k]]
           /\ Goto(r, "rotate_insert")
           /\ UNCHANGED answer
  /\ UNCHANGED <<clock, rows, lock, inputs, until>>

RotateInsert(r) ==
  /\ pc[r] = "rotate_insert"
  /\ until' = [until EXCEPT ![r] = clock + overlap[r]]
  /\ Goto(r, "rotate_expire")
  /\ UNCHANGED <<clock, rows, lock, inputs, issue, answer>>

RotateExpire(r) ==
  /\ pc[r] = "rotate_expire"
  /\ lock[target[r]] = Nobody
  /\ lock' = [lock EXCEPT ![target[r]] = r]
  /\ Goto(r, "commit")
  /\ UNCHANGED <<clock, rows, inputs, issue, until, answer>>

-----------------------------------------------------------------------------
(***************************************************************************)
(* revoke                                                                  *)
(***************************************************************************)
Revoke(r) ==
  /\ pc[r] = "revoke"
  /\ \/ /\ ~InScope(r) \/ ~Found(r)
        /\ Reply(r, "not_found")
     \/ /\ InScope(r) /\ Found(r)
        /\ Goto(r, "revoke_update")
        /\ UNCHANGED answer
  /\ UNCHANGED <<clock, rows, lock, inputs, issue, until>>

\* A plausible slip: the UPDATE without its "status <> 'revoked'".
RevokeUpdate_Always(r) ==
  /\ pc[r] = "revoke_update"
  /\ lock[target[r]] = Nobody
  /\ lock' = [lock EXCEPT ![target[r]] = r]
  /\ Goto(r, "commit")
  /\ UNCHANGED <<clock, rows, inputs, issue, until, answer>>

\* A row that is revoked already does not match and is not waited for.
RevokeUpdate(r) ==
  /\ pc[r] = "revoke_update"
  /\ \/ /\ status[target[r]] = "revoked"
        /\ UNCHANGED lock
     \/ /\ status[target[r]] # "revoked"
        /\ lock[target[r]] = Nobody
        /\ lock' = [lock EXCEPT ![target[r]] = r]
  /\ Goto(r, "commit")
  /\ UNCHANGED <<clock, rows, inputs, issue, until, answer>>

ReadBack(r) ==
  /\ pc[r] = "read_back"
  /\ Reply(r, "revoked")
  /\ UNCHANGED <<clock, rows, lock, inputs, issue, until>>

-----------------------------------------------------------------------------
(***************************************************************************)
(* The end of an audited transaction: the change and its entry appear      *)
(* together.                                                               *)
(***************************************************************************)
InsertKey(r) ==
  /\ status' = [status EXCEPT ![r] = "active"]
  /\ appOf' = [appOf EXCEPT ![r] = app[r]]
  /\ grant' = [grant EXCEPT ![r] = issue[r]]
  /\ issuer' = [issuer EXCEPT ![r] = caller[r]]

WriteEntry(r, action, key, time) ==
  audit' = [audit EXCEPT ![r] = [action |-> action, key |-> key,
                                 actor |-> caller[r], until |-> time]]

\* A plausible slip: the rotation writes back the whole row it read.
Effects_WriteBack(r) ==
  \/ /\ op[r] = "create"
     /\ InsertKey(r)
     /\ WriteEntry(r, "created", r, 0)
     /\ UNCHANGED expires
  \/ /\ op[r] = "rotate"
     /\ status' = [status EXCEPT ![r] = "active", ![target[r]] = "active"]
     /\ appOf' = [appOf EXCEPT ![r] = app[r]]
     /\ grant' = [grant EXCEPT ![r] = issue[r]]
     /\ issuer' = [issuer EXCEPT ![r] = caller[r]]
     /\ expires' = [expires EXCEPT ![target[r]] = Least(@, until[r])]
     /\ WriteEntry(r, "rotated", target[r], until[r])
  \/ /\ op[r] = "revoke"
     /\ status' = [status EXCEPT ![target[r]] = "revoked"]
     /\ WriteEntry(r, "revoked", target[r], 0)
     /\ UNCHANGED <<appOf, grant, expires, issuer>>

Effects(r) ==
  \/ /\ op[r] = "create"
     /\ InsertKey(r)
     /\ WriteEntry(r, "created", r, 0)
     /\ UNCHANGED expires
  \/ /\ op[r] = "rotate"
     /\ InsertKey(r)
     /\ expires' = [expires EXCEPT ![target[r]] = Least(@, until[r])]
     /\ WriteEntry(r, "rotated", target[r], until[r])
  \/ /\ op[r] = "revoke" /\ lock[target[r]] = r
     /\ status' = [status EXCEPT ![target[r]] = "revoked"]
     /\ WriteEntry(r, "revoked", target[r], 0)
     /\ UNCHANGED <<appOf, grant, expires, issuer>>
  \/ /\ op[r] = "revoke" /\ lock[target[r]] # r
     /\ UNCHANGED rows

Commit(r) ==
  /\ pc[r] = "commit"
  /\ Effects(r)
  /\ Unlock(r)
  /\ \/ op[r] = "revoke" /\ Goto(r, "read_back") /\ UNCHANGED answer
     \/ op[r] # "revoke" /\ Reply(r, "issued")
  /\ UNCHANGED <<clock, inputs, issue, until>>

CommitUnacked(r) ==
  /\ "commit_unacked" \in Faults
  /\ pc[r] = "commit"
  /\ Effects(r)
  /\ Unlock(r)
  /\ Reply(r, "internal")
  /\ UNCHANGED <<clock, inputs, issue, until>>

\* A statement fails, or the COMMIT rolls back.
StatementFails(r) ==
  /\ "db" \in Faults
  /\ pc[r] \in RunPc
  /\ Unlock(r)
  /\ Reply(r, IF pc[r] = "authenticate" THEN "service_unavailable"
                                        ELSE "internal")
  /\ UNCHANGED <<clock, rows, inputs, issue, until>>

-----------------------------------------------------------------------------
(***************************************************************************)
(* The environment                                                         *)
(***************************************************************************)
Crash(r) ==
  /\ "crash" \in Faults
  /\ pc[r] \in RunPc
  /\ Goto(r, "crashed")
  /\ Unlock(r)
  /\ UNCHANGED <<clock, rows, inputs, issue, until, answer>>

Tick ==
  /\ clock < MaxClock
  /\ clock' = clock + 1
  /\ UNCHANGED <<rows, lock, pc, inputs, issue, until, answer>>

-----------------------------------------------------------------------------
\* A request goes on, with a statement that takes effect.
Proceed(r) ==
  \/ Authenticate(r) \/ Create(r)
  \/ Rotate(r) \/ RotateInsert(r) \/ RotateExpire(r)
  \/ Revoke(r) \/ RevokeUpdate(r) \/ ReadBack(r)
  \/ Commit(r) \/ CommitUnacked(r)

Step(r) == Proceed(r) \/ StatementFails(r)

AllServed ==
  /\ \A r \in Requests : pc[r] \in {"done", "crashed"}
  /\ UNCHANGED vars

Next ==
  \/ \E r \in Requests : Arrive(r) \/ Step(r) \/ Crash(r)
  \/ Tick
  \/ AllServed

Spec == Init /\ [][Next]_vars

(***************************************************************************)
(* Node runs the continuations of a request, and Postgres runs each of its *)
(* statements that has the row it needs.  Nothing is asked of failures: a  *)
(* statement that waits for a row lock has only the end of the transaction *)
(* that holds it to hope for, although statement_timeout would end the     *)
(* wait as well.                                                           *)
(***************************************************************************)
Fairness == \A r \in Requests : WF_vars(Proceed(r))

-----------------------------------------------------------------------------
(***************************************************************************)
(* Properties                                                              *)
(***************************************************************************)
Issued(k) == status[k] # "absent"
Rotations(k) == {r \in Requests : audit[r].action = "rotated"
                                    /\ audit[r].key = k}
Revocations(k) == {r \in Requests : audit[r].action = "revoked"
                                      /\ audit[r].key = k}

\* What a client without a valid key may be told.
Uninformed == {"none", "api_key_invalid", "rate_limited", "service_unavailable"}

\* What a coverage lets a key touch; AllProjects also covers later projects.
Covered(g) ==
  IF g.projects = AllProjects THEN Projects \cup {AllProjects} ELSE g.projects

(***************************************************************************)
(* "A key can only issue, or rotate, within its own grant": a key that     *)
(* another key issued belongs to the issuer's application and grants no    *)
(* more, along every chain of creates and rotations.                       *)
(***************************************************************************)
NoEscalation ==
  \A k \in Keys : Issued(k) /\ issuer[k] \in Keys =>
    /\ Issued(issuer[k])
    /\ appOf[k] = appOf[issuer[k]]
    /\ grant[k].permissions \subseteq grant[issuer[k]].permissions
    /\ Covered(grant[k]) \subseteq Covered(grant[issuer[k]])

(***************************************************************************)
(* "The change and its record commit together or not at all": each issued  *)
(* key has the one entry of the request that issued it, each revoked key   *)
(* exactly one revocation, however often it was revoked, at once or again. *)
(***************************************************************************)
AuditTellsTheTruth ==
  /\ \A r \in Requests :
       /\ Issued(r) <=> audit[r].action \in {"created", "rotated"}
       /\ Issued(r) => audit[r].actor = issuer[r]
  /\ \A k \in Keys :
       Cardinality(Revocations(k)) = IF status[k] = "revoked" THEN 1 ELSE 0

(***************************************************************************)
(* A key that was rotated, once or by several requests at once, ends with  *)
(* the earliest of the overlaps that the audit trail promises; a key that  *)
(* was not rotated has no end (expireBy).                                  *)
(***************************************************************************)
OverlapIsHonoured ==
  \A k \in Keys :
    IF Rotations(k) = {}
    THEN expires[k] = Never
    ELSE /\ expires[k] \in {audit[r].until : r \in Rotations(k)}
         /\ \A r \in Rotations(k) : expires[k] <= audit[r].until

(***************************************************************************)
(* "Revocation is permanent": no step, of a rotation that read the key     *)
(* before in particular, revives a revoked key, and none lengthens a life. *)
(***************************************************************************)
RevocationIsFinal ==
  [][\A k \in Keys :
       /\ status[k] = "revoked" => status'[k] = "revoked"
       /\ expires[k] # Never => expires'[k] # Never
                                  /\ expires'[k] <= expires[k]]_vars

(***************************************************************************)
(* "Revocation takes effect on the next request": once a client has been   *)
(* told that a key is revoked, a request sent with that key changes        *)
(* nothing and learns nothing.                                             *)
(***************************************************************************)
RevokedKeyIsRefused ==
  \A r \in Requests :
    /\ answer[r] = "revoked" => status[target[r]] = "revoked"
    /\ barred[r] =>
         /\ audit[r] = NoEntry /\ answer[r] \in Uninformed

(***************************************************************************)
(* No request waits for a row lock for ever: rotations and revocations of  *)
(* the same keys, at once, all end, because every way out of a transaction *)
(* gives its locks back, not because a wait is cut short.  (A request runs once, so this says    *)
(* that each that starts is answered or dies; the form costs TLC less.)    *)
(***************************************************************************)
EveryRequestEnds ==
  <>[] \A r \in Requests : pc[r] \notin RunPc
=============================================================================
