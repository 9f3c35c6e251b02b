---------------------------- MODULE ApiKeysProofs ----------------------------
(***************************************************************************)
(* Proofs about ApiKeys for every set of keys, requests, applications and  *)
(* grants, every clock bound and every combination of faults.  Two         *)
(* inductive invariants: the types, and what a request that is under way   *)
(* may rely on although it holds no lock (Underway).  No escalation, the   *)
(* permanence of a revocation and its effect on later requests follow, and *)
(* with a third (Trail), that the audit trail tells the truth: each key    *)
(* has its one entry, each revoked key one revocation, and a rotated key   *)
(* ends with the earliest overlap that the trail promises.                 *)
(***************************************************************************)
EXTENDS ApiKeys, FiniteSetTheorems, TLAPS

-----------------------------------------------------------------------------
(***************************************************************************)
(* Types of the helpers that actions share.                                *)
(***************************************************************************)
\* A reply ends the request with one of the declared answers.
LEMMA ReplyType ==
  ASSUME TypeOK, NEW r \in Requests, NEW code \in Answer, Reply(r, code)
  PROVE  /\ pc' \in [Requests -> Pc]
         /\ answer' \in [Requests -> Answer]
         /\ pc' = [pc EXCEPT ![r] = "done"]
         /\ answer' = [answer EXCEPT ![r] = code]
BY DEF Reply, Goto, TypeOK, Pc

\* The end of a transaction leaves the row locks of the others as they are,
\* and r holds none.
LEMMA UnlockType ==
  ASSUME TypeOK, NEW r \in Requests, Unlock(r)
  PROVE  /\ lock' \in [Keys -> Requests \cup {Nobody}]
         /\ \A k \in Keys : lock'[k] = IF lock[k] = r THEN Nobody ELSE lock[k]
         /\ \A k \in Keys : lock'[k] # r
BY NamesAssumption DEF Unlock, TypeOK, Keys

\* A shortened expiry is an instant.
LEMMA LeastType ==
  ASSUME NEW e \in Nat \cup {Never}, NEW t \in Nat
  PROVE  /\ Least(e, t) \in Nat
         /\ e # Never => Least(e, t) <= e
BY NamesAssumption DEF Least

\* The entries an audited transaction writes are audit entries.
LEMMA EntryType ==
  ASSUME TypeOK, NEW r \in Requests, caller[r] \in Keys,
         NEW action \in {"created", "rotated", "revoked"},
         NEW k \in Keys \cup {Unknown}, NEW t \in Nat,
         WriteEntry(r, action, k, t)
  PROVE  audit' \in [Requests -> Entry]
<1>1. [action |-> action, key |-> k, actor |-> caller[r], until |-> t] \in Entry
  BY DEF Entry
<1> QED BY <1>1 DEF WriteEntry, TypeOK

\* A row that is inserted has the types of the table.
LEMMA InsertType ==
  ASSUME TypeOK, NEW r \in Requests, caller[r] \in Keys, InsertKey(r)
  PROVE  /\ status' \in [Keys -> {"absent", "active", "revoked"}]
         /\ appOf' \in [Keys -> Applications \cup {Nobody}]
         /\ grant' \in [Keys -> Grant]
         /\ issuer' \in [Keys -> Keys \cup {System, Nobody}]
BY DEF InsertKey, TypeOK, Keys

-----------------------------------------------------------------------------
(***************************************************************************)
(* Type correctness.  An entry names the caller as its actor, so the types *)
(* rest on this: beyond authentication the caller is a key of the table.   *)
(***************************************************************************)
Admitted ==
  \A r \in Requests : pc[r] \in RunPc \ {"authenticate"} =>
    caller[r] \in Keys /\ Issued(caller[r])

\* What request r, or the crash of the process it runs in, may do.
Act(r) == Arrive(r) \/ Step(r) \/ Crash(r)

\* Who holds which lock: only the transaction that is about to commit.
LocksHeld == \A k \in Keys : lock[k] # Nobody => pc[lock[k]] = "commit"

\* Every step that neither takes nor ends a transaction starts from a label
\* that holds no lock.
LEMMA LocksStep ==
  ASSUME TypeOK, NEW r \in Requests, pc' \in [Requests -> Pc],
         \A s \in Requests \ {r} : pc'[s] = pc[s],
         \/ pc[r] # "commit" /\ UNCHANGED lock
         \/ Unlock(r)
         \/ pc'[r] = "commit" /\ lock' = [lock EXCEPT ![target[r]] = r]
  PROVE  LocksHeld'
<1>1. CASE pc[r] # "commit" /\ UNCHANGED lock
  BY <1>1 DEF LocksHeld, TypeOK
<1>2. CASE Unlock(r)
  BY <1>2, UnlockType DEF LocksHeld, TypeOK
<1>3. CASE pc'[r] = "commit" /\ lock' = [lock EXCEPT ![target[r]] = r]
  BY <1>3 DEF LocksHeld, TypeOK
<1> QED BY <1>1, <1>2, <1>3

\* The rows and the audit trail keep their types when r commits.
LEMMA EffectsType ==
  ASSUME TypeOK, NEW r \in Requests, caller[r] \in Keys, Effects(r)
  PROVE  /\ status' \in [Keys -> {"absent", "active", "revoked"}]
         /\ appOf' \in [Keys -> Applications \cup {Nobody}]
         /\ grant' \in [Keys -> Grant]
         /\ expires' \in [Keys -> Nat \cup {Never}]
         /\ issuer' \in [Keys -> Keys \cup {System, Nobody}]
         /\ audit' \in [Requests -> Entry]
<1>1. CASE op[r] = "create"
  <2>1. InsertKey(r) /\ WriteEntry(r, "created", r, 0) /\ UNCHANGED expires
    BY <1>1 DEF Effects
  <2> QED BY <2>1, InsertType, EntryType DEF TypeOK, Keys
<1>2. CASE op[r] = "rotate"
  <2>1. /\ InsertKey(r)
        /\ WriteEntry(r, "rotated", target[r], until[r])
        /\ expires' = [expires EXCEPT ![target[r]] = Least(@, until[r])]
    BY <1>2 DEF Effects
  <2>2. expires' \in [Keys -> Nat \cup {Never}]
    BY <2>1, LeastType DEF TypeOK
  <2>3. until[r] \in Nat /\ target[r] \in Keys \cup {Unknown}
    BY DEF TypeOK
  <2> QED BY <2>1, <2>2, <2>3, InsertType, EntryType
<1>3. CASE op[r] = "revoke" /\ lock[target[r]] = r
  <2>1. /\ status' = [status EXCEPT ![target[r]] = "revoked"]
        /\ WriteEntry(r, "revoked", target[r], 0)
        /\ UNCHANGED <<appOf, grant, expires, issuer>>
    BY <1>3 DEF Effects
  <2>2. target[r] \in Keys \cup {Unknown}
    BY DEF TypeOK
  <2>3. audit' \in [Requests -> Entry]
    BY <2>1, <2>2, EntryType
  <2> QED BY <2>1, <2>3 DEF TypeOK
<1>4. CASE op[r] = "revoke" /\ lock[target[r]] # r
  BY <1>4 DEF Effects, rows, TypeOK
<1> QED BY <1>1, <1>2, <1>3, <1>4 DEF TypeOK, Ops

\* Every step of the key operations (service.ts) keeps the types.
LEMMA TypeStep == TypeOK /\ Admitted /\ [Next]_vars => TypeOK'
<1> SUFFICES ASSUME TypeOK, Admitted, [Next]_vars PROVE TypeOK'
  OBVIOUS
<1> USE DEF inputs, rows
<1>1. ASSUME NEW r \in Requests, Arrive(r) PROVE TypeOK'
  <2>1. /\ pc' = [pc EXCEPT ![r] = "authenticate"] /\ pc[r] = "idle"
        /\ UNCHANGED <<clock, rows, lock, until, answer>>
    BY <1>1 DEF Arrive, Goto
  <2>2. pc' \in [Requests -> Pc]
    BY <2>1 DEF TypeOK, Pc, RunPc
  <2>3. LocksHeld'
    BY <2>1, <2>2, LocksStep DEF TypeOK
  <2>4. /\ caller' \in [Requests -> Keys \cup {System, Unknown}]
        /\ app' \in [Requests -> Applications \cup {Nobody}]
        /\ barred' \in [Requests -> BOOLEAN]
    <3>1. PICK k \in Disclosed \cup {Unknown}, a \in Applications :
            /\ caller' = [caller EXCEPT ![r] = k]
            /\ app' = [app EXCEPT ![r] = a]
            /\ barred' = [barred EXCEPT ![r] = \E s \in Requests :
                                answer[s] = "revoked" /\ target[s] = k]
      BY <1>1 DEF Arrive
    <3>2. k \in Keys \cup {System, Unknown}
      BY DEF Disclosed, Keys
    <3> DEFINE told == \E s \in Requests :
                         answer[s] = "revoked" /\ target[s] = k
    <3>3. told \in BOOLEAN
      OBVIOUS
    <3>4. barred' = [barred EXCEPT ![r] = told]
      BY <3>1
    <3> HIDE DEF told
    <3> QED BY <3>1, <3>2, <3>3, <3>4 DEF TypeOK
  <2>5. /\ op' \in [Requests -> Ops]
        /\ target' \in [Requests -> Keys \cup {Unknown}]
        /\ overlap' \in [Requests -> Nat]
        /\ issue' \in [Requests -> Grant]
    BY <1>1, ClockAssumption, GrantsAssumption DEF Arrive, TypeOK, Ops
  <2> QED BY <2>1, <2>2, <2>3, <2>4, <2>5 DEF TypeOK, LocksHeld
<1>2. ASSUME NEW r \in Requests,
             \/ Authenticate(r) \/ Create(r) \/ Revoke(r) \/ ReadBack(r)
      PROVE  TypeOK'
  <2>1. /\ pc[r] # "commit"
        /\ UNCHANGED <<clock, rows, lock, inputs, issue, until>>
    BY <1>2 DEF Authenticate, Create, Revoke, ReadBack
  <2>2. pc' \in [Requests -> Pc] /\ answer' \in [Requests -> Answer]
    BY <1>2, ReplyType DEF Authenticate, Create, Revoke, ReadBack, Goto,
                         TypeOK, Pc, RunPc, TxPc, Ops, Answer, Code
  <2>3. \A s \in Requests \ {r} : pc'[s] = pc[s]
    BY <1>2 DEF Authenticate, Create, Revoke, ReadBack, Goto, Reply, TypeOK
  <2>4. LocksHeld'
    BY <2>1, <2>2, <2>3, LocksStep
  <2> QED BY <2>1, <2>2, <2>4 DEF TypeOK, LocksHeld
<1>3. ASSUME NEW r \in Requests,
             \/ Rotate(r) \/ RotateInsert(r) \/ RotateExpire(r)
             \/ RevokeUpdate(r)
      PROVE  TypeOK'
  <2>1. UNCHANGED <<clock, rows, inputs>>
    BY <1>3 DEF Rotate, RotateInsert, RotateExpire, RevokeUpdate
  <2>2. pc' \in [Requests -> Pc] /\ answer' \in [Requests -> Answer]
    BY <1>3, ReplyType DEF Rotate, RotateInsert, RotateExpire, RevokeUpdate,
                         Goto, TypeOK, Pc, RunPc, TxPc, Answer, Code
  <2>3. \A s \in Requests \ {r} : pc'[s] = pc[s]
    BY <1>3 DEF Rotate, RotateInsert, RotateExpire, RevokeUpdate, Goto,
                Reply, TypeOK
  <2>4. LocksHeld'
    <3>1. \/ pc[r] # "commit" /\ UNCHANGED lock
          \/ pc'[r] = "commit" /\ lock' = [lock EXCEPT ![target[r]] = r]
      BY <1>3 DEF Rotate, RotateInsert, RotateExpire, RevokeUpdate, Goto,
                  TypeOK
    <3> QED BY <2>2, <2>3, <3>1, LocksStep
  <2>5. lock' \in [Keys -> Requests \cup {Nobody}]
    BY <1>3 DEF Rotate, RotateInsert, RotateExpire, RevokeUpdate, TypeOK
  <2>6. until' \in [Requests -> Nat]
    BY <1>3 DEF Rotate, RotateInsert, RotateExpire, RevokeUpdate, TypeOK
  <2>7. issue' \in [Requests -> Grant]
    BY <1>3 DEF Rotate, RotateInsert, RotateExpire, RevokeUpdate, TypeOK,
                Found
  <2> QED BY <2>1, <2>2, <2>4, <2>5, <2>6, <2>7 DEF TypeOK, LocksHeld
<1>4. ASSUME NEW r \in Requests, Commit(r) \/ CommitUnacked(r)
      PROVE  TypeOK'
  <2>1. /\ pc[r] = "commit" /\ Effects(r) /\ Unlock(r)
        /\ UNCHANGED <<clock, inputs, issue, until>>
    BY <1>4 DEF Commit, CommitUnacked
  <2>2. caller[r] \in Keys
    BY <2>1 DEF Admitted, RunPc, TxPc
  <2>3. pc' \in [Requests -> Pc] /\ answer' \in [Requests -> Answer]
    BY <1>4, ReplyType DEF Commit, CommitUnacked, Goto, TypeOK, Pc, RunPc,
                         Answer, Code
  <2>4. \A s \in Requests \ {r} : pc'[s] = pc[s]
    BY <1>4 DEF Commit, CommitUnacked, Goto, Reply, TypeOK
  <2>5. LocksHeld'
    BY <2>1, <2>3, <2>4, LocksStep
  <2> QED BY <2>1, <2>2, <2>3, <2>5, EffectsType, UnlockType
          DEF TypeOK, LocksHeld
<1>5. ASSUME NEW r \in Requests, StatementFails(r) \/ Crash(r)
      PROVE  TypeOK'
  <2>1. Unlock(r) /\ UNCHANGED <<clock, rows, inputs, issue, until>>
    BY <1>5 DEF StatementFails, Crash
  <2>2. pc' \in [Requests -> Pc] /\ answer' \in [Requests -> Answer]
    BY <1>5, ReplyType DEF StatementFails, Crash, Goto, TypeOK, Pc, Answer,
                         Code
  <2>3. \A s \in Requests \ {r} : pc'[s] = pc[s]
    BY <1>5 DEF StatementFails, Crash, Goto, Reply, TypeOK
  <2>4. LocksHeld'
    BY <2>1, <2>2, <2>3, LocksStep
  <2> QED BY <2>1, <2>2, <2>4, UnlockType DEF TypeOK, LocksHeld
<1>6. CASE Tick
  BY <1>6, ClockAssumption DEF Tick, TypeOK
<1>7. CASE UNCHANGED vars
  BY <1>7 DEF vars, TypeOK
<1> QED BY <1>1, <1>2, <1>3, <1>4, <1>5, <1>6, <1>7
        DEF Next, Step, Proceed, AllServed

-----------------------------------------------------------------------------
(***************************************************************************)
(* What a request that is under way may rely on.  It holds no lock while   *)
(* it reads, so all of this has to survive the steps of the others: keys   *)
(* stay issued, a grant never changes, and nobody else inserts its key.    *)
(***************************************************************************)
\* The label tells the operation.
Consistent(r) ==
  /\ pc[r] = "create" => op[r] = "create"
  /\ pc[r] \in {"rotate", "rotate_insert", "rotate_expire"} => op[r] = "rotate"
  /\ pc[r] \in {"revoke", "revoke_update", "read_back"} => op[r] = "revoke"

\* The grant about to be inserted has been held against the caller's.
Checked(r) ==
  \/ pc[r] \in {"rotate_insert", "rotate_expire"}
  \/ pc[r] = "commit" /\ op[r] # "revoke"

\* A transaction on an existing key.
Targeting(r) ==
  \/ pc[r] \in {"rotate_insert", "rotate_expire", "revoke_update", "read_back"}
  \/ pc[r] = "commit" /\ op[r] # "create"

Underway(r) ==
  /\ Consistent(r)
  /\ Checked(r) => /\ appOf[caller[r]] = app[r]
                   /\ Within(issue[r], grant[caller[r]])
  /\ Targeting(r) => target[r] \in Keys /\ Issued(target[r])
  /\ pc[r] # "done" => ~Issued(r)

IInv == Admitted /\ \A r \in Requests : Underway(r)

(***************************************************************************)
(* A step of r leaves another request's part alone.                        *)
(***************************************************************************)
SameAs(s) ==
  /\ pc'[s] = pc[s] /\ op'[s] = op[s] /\ caller'[s] = caller[s]
  /\ app'[s] = app[s] /\ target'[s] = target[s] /\ issue'[s] = issue[s]
  /\ until'[s] = until[s] /\ answer'[s] = answer[s]
  /\ barred'[s] = barred[s] /\ audit'[s] = audit[s]

\* A step of one request (one HTTP call) leaves another request's part alone.
LEMMA Frame ==
  ASSUME TypeOK, NEW r \in Requests, NEW s \in Requests \ {r}, Act(r)
  PROVE  SameAs(s)
<1> USE DEF TypeOK, SameAs, Goto, Reply, inputs, rows
<1>1. ASSUME Arrive(r) PROVE SameAs(s)
  BY <1>1 DEF Arrive
<1>2. ASSUME \/ Authenticate(r) \/ Create(r) \/ Rotate(r) \/ RotateInsert(r)
             \/ RotateExpire(r)
      PROVE  SameAs(s)
  BY <1>2 DEF Authenticate, Create, Rotate, RotateInsert, RotateExpire
<1>3. ASSUME \/ Revoke(r) \/ RevokeUpdate(r) \/ ReadBack(r)
             \/ StatementFails(r) \/ Crash(r)
      PROVE  SameAs(s)
  BY <1>3 DEF Revoke, RevokeUpdate, ReadBack, StatementFails, Crash
<1>4. ASSUME Commit(r) \/ CommitUnacked(r) PROVE SameAs(s)
  BY <1>4 DEF Commit, CommitUnacked, Effects, WriteEntry
<1> QED BY <1>1, <1>2, <1>3, <1>4 DEF Act, Step, Proceed

(***************************************************************************)
(* What a step of r may do to the rows: insert the key it names, or revoke *)
(* the key it holds locked.  Everything else keeps its row.                *)
(***************************************************************************)
Inserts(r) ==
  /\ pc[r] = "commit" /\ pc'[r] = "done" /\ op[r] # "revoke"
  /\ InsertKey(r)

Revokes(r) ==
  /\ pc[r] = "commit" /\ op[r] = "revoke"
  /\ status' = [status EXCEPT ![target[r]] = "revoked"]
  /\ UNCHANGED <<appOf, grant, issuer>>

\* A step leaves the api_keys rows, inserts its own key or revokes its target.
LEMMA RowFrame ==
  ASSUME TypeOK, NEW r \in Requests, Act(r)
  PROVE  \/ UNCHANGED <<status, appOf, grant, issuer>>
         \/ Inserts(r)
         \/ Revokes(r)
<1>1. CASE Commit(r) \/ CommitUnacked(r)
  <2>1. op[r] # "revoke" => pc'[r] = "done"
    BY <1>1 DEF Commit, CommitUnacked, Reply, Goto, TypeOK
  <2> QED BY <1>1, <2>1 DEF Commit, CommitUnacked, Effects, Inserts, Revokes, rows
<1>2. CASE ~(Commit(r) \/ CommitUnacked(r))
  BY <1>2 DEF Act, Step, Proceed, Arrive, Authenticate, Create, Rotate, RotateInsert,
              RotateExpire, Revoke, RevokeUpdate, ReadBack, StatementFails,
              Crash, rows
<1> QED BY <1>1, <1>2

(***************************************************************************)
(* Keys stay issued, and the row of an issued key keeps its application,   *)
(* its grant and its issuer.                                               *)
(***************************************************************************)
KeepsRow(k) ==
  /\ status'[k] # "absent"
  /\ appOf'[k] = appOf[k] /\ grant'[k] = grant[k] /\ issuer'[k] = issuer[k]

\* No key operation deletes a row or rewrites what the key was issued with.
LEMMA RowsAreKept ==
  ASSUME TypeOK, IInv, NEW r \in Requests, Act(r), NEW k \in Keys, Issued(k)
  PROVE  KeepsRow(k)
<1>1. CASE UNCHANGED <<status, appOf, grant, issuer>>
  BY <1>1 DEF KeepsRow, Issued
<1>2. CASE Inserts(r)
  <2>1. k # r
    BY <1>2 DEF Inserts, IInv, Underway
  <2> QED BY <1>2, <2>1 DEF Inserts, InsertKey, KeepsRow, Issued, TypeOK
<1>3. CASE Revokes(r)
  BY <1>3 DEF Revokes, KeepsRow, Issued, TypeOK
<1> QED BY <1>1, <1>2, <1>3, RowFrame

\* A key is issued by the step of its own request that ends it.
LEMMA NewKeys ==
  ASSUME TypeOK, IInv, NEW r \in Requests, Act(r), NEW k \in Keys,
         ~Issued(k), Issued(k)'
  PROVE  k = r /\ Inserts(r)
<1>1. CASE UNCHANGED <<status, appOf, grant, issuer>>
  BY <1>1 DEF Issued
<1>2. CASE Inserts(r)
  BY <1>2 DEF Inserts, InsertKey, Issued, TypeOK
<1>3. CASE Revokes(r)
  <2>1. k # target[r]
    BY <1>3 DEF Revokes, IInv, Underway, Targeting
  <2> QED BY <1>3, <2>1 DEF Revokes, Issued, TypeOK
<1> QED BY <1>1, <1>2, <1>3, RowFrame

-----------------------------------------------------------------------------
(***************************************************************************)
(* The caller, the application and the target of a request do not change   *)
(* once it has been sent; the grant it issues is set by rotate only.       *)
(***************************************************************************)
LEMMA Inputs ==
  ASSUME TypeOK, NEW r \in Requests, Act(r), pc[r] # "idle"
  PROVE  /\ op' = op /\ caller' = caller /\ app' = app /\ target' = target
         /\ barred' = barred
         /\ issue' = issue \/ Rotate(r)
BY DEF Act, Step, Proceed, Arrive, Authenticate, Create, Rotate, RotateInsert,
       RotateExpire, Revoke, RevokeUpdate, ReadBack, Commit, CommitUnacked,
       StatementFails, Crash, inputs

\* A caller passes authentication with a key of the table.
LEMMA AdmittedStep ==
  ASSUME TypeOK, IInv, NEW r \in Requests, Act(r),
         pc'[r] \in RunPc \ {"authenticate"}
  PROVE  caller'[r] \in Keys /\ Issued(caller[r]) /\ caller' = caller
<1>1. ~Arrive(r) /\ ~StatementFails(r) /\ ~Crash(r) /\ ~CommitUnacked(r)
  BY DEF Arrive, StatementFails, Crash, CommitUnacked, Goto, Reply, RunPc,
         TxPc, TypeOK
<1>2. CASE Authenticate(r)
  BY <1>2 DEF Authenticate, Goto, Reply, RunPc, TxPc, TypeOK, Usable, Issued,
              inputs
<1>3. CASE ~Authenticate(r)
  <2>1. pc[r] \in RunPc \ {"authenticate"} /\ caller' = caller
    BY <1>1, <1>3 DEF Act, Step, Proceed, Create, Rotate, RotateInsert, RotateExpire,
                      Revoke, RevokeUpdate, ReadBack, Commit, RunPc, TxPc,
                      inputs
  <2> QED BY <2>1 DEF IInv, Admitted
<1> QED BY <1>2, <1>3

\* The label and the operation of r agree after its step.
LEMMA ConsistentStep ==
  ASSUME TypeOK, NEW r \in Requests, Act(r), Consistent(r)
  PROVE  Consistent(r)'
<1> USE DEF Consistent, Goto, Reply, TypeOK, inputs, Ops
<1>1. ASSUME \/ Arrive(r) \/ StatementFails(r) \/ Crash(r) \/ ReadBack(r)
      PROVE  Consistent(r)'
  BY <1>1 DEF Arrive, StatementFails, Crash, ReadBack
<1>2. ASSUME Authenticate(r) \/ Create(r) \/ Commit(r) \/ CommitUnacked(r)
      PROVE  Consistent(r)'
  BY <1>2 DEF Authenticate, Create, Commit, CommitUnacked
<1>3. ASSUME \/ Rotate(r) \/ RotateInsert(r) \/ RotateExpire(r)
             \/ Revoke(r) \/ RevokeUpdate(r)
      PROVE  Consistent(r)'
  BY <1>3 DEF Rotate, RotateInsert, RotateExpire, Revoke, RevokeUpdate
<1> QED BY <1>1, <1>2, <1>3 DEF Act, Step, Proceed

\* The grant r is about to insert was within the caller's when it was read.
LEMMA CheckedStep ==
  ASSUME TypeOK, NEW r \in Requests, Act(r), Underway(r), Checked(r)'
  PROVE  /\ appOf[caller[r]] = app[r] /\ app' = app /\ caller' = caller
         /\ Within(issue'[r], grant[caller[r]])
<1> USE DEF Goto, Reply, TypeOK, inputs, Checked
<1>1. Create(r) \/ Rotate(r) \/ RotateInsert(r) \/ RotateExpire(r)
  <2>1. ~(Arrive(r) \/ StatementFails(r) \/ Crash(r) \/ ReadBack(r))
    BY DEF Arrive, StatementFails, Crash, ReadBack
  <2>2. ~(Authenticate(r) \/ Commit(r) \/ CommitUnacked(r))
    BY DEF Authenticate, Commit, CommitUnacked, Ops
  <2>3. ~(Revoke(r) \/ RevokeUpdate(r))
    BY DEF Revoke, RevokeUpdate, Underway, Consistent
  <2> QED BY <2>1, <2>2, <2>3 DEF Act, Step, Proceed
<1>2. CASE Create(r)
  BY <1>2 DEF Create, InScope
<1>3. CASE Rotate(r)
  BY <1>3 DEF Rotate, InScope
<1>4. CASE RotateInsert(r)
  BY <1>4 DEF RotateInsert, Underway
<1>5. CASE RotateExpire(r)
  BY <1>5 DEF RotateExpire, Underway
<1> QED BY <1>1, <1>2, <1>3, <1>4, <1>5

\* A transaction on an existing key was begun after the key was found.
LEMMA TargetingStep ==
  ASSUME TypeOK, NEW r \in Requests, Act(r), Underway(r), Targeting(r)'
  PROVE  target[r] \in Keys /\ Issued(target[r]) /\ target' = target
<1> USE DEF Goto, Reply, TypeOK, inputs, Targeting
<1>1. ~(Arrive(r) \/ StatementFails(r) \/ Crash(r) \/ ReadBack(r))
  BY DEF Arrive, StatementFails, Crash, ReadBack
<1>2. ~(Authenticate(r) \/ Create(r))
  BY DEF Authenticate, Create, Underway, Consistent, Ops
<1>3. CASE Rotate(r) \/ Revoke(r)
  BY <1>3 DEF Rotate, Revoke, Found, Issued
<1>4. CASE \/ RotateInsert(r) \/ RotateExpire(r) \/ RevokeUpdate(r)
           \/ Commit(r) \/ CommitUnacked(r)
  BY <1>4 DEF RotateInsert, RotateExpire, RevokeUpdate, Commit,
              CommitUnacked, Underway
<1> QED BY <1>1, <1>2, <1>3, <1>4 DEF Act, Step, Proceed

(***************************************************************************)
(* The invariant of requests under way survives a step of the request      *)
(* itself (<1>1) and of any other (<1>2).                                  *)
(***************************************************************************)
LEMMA UnderwayStep == TypeOK /\ IInv /\ [Next]_vars => IInv'
<1> SUFFICES ASSUME TypeOK, IInv, [Next]_vars,
                    NEW s \in Requests
             PROVE  /\ Underway(s)'
                    /\ (pc[s] \in RunPc \ {"authenticate"} =>
                          caller[s] \in Keys /\ Issued(caller[s]))'
  BY DEF IInv, Admitted
<1> DEFINE Known == pc[s] \in RunPc \ {"authenticate"} =>
                      caller[s] \in Keys /\ Issued(caller[s])
<1>a. Underway(s) /\ Known /\ s \in Keys
  BY DEF IInv, Admitted, Keys
<1>1. ASSUME Act(s) PROVE Underway(s)' /\ Known'
  <2>1. Known'
    BY <1>1, AdmittedStep, RowsAreKept DEF KeepsRow, Issued
  <2>2. Consistent(s)'
    BY <1>1, <1>a, ConsistentStep DEF Underway
  <2>3. ASSUME Checked(s)'
        PROVE  (appOf[caller[s]] = app[s] /\ Within(issue[s], grant[caller[s]]))'
    <3>1. /\ appOf[caller[s]] = app[s] /\ app' = app /\ caller' = caller
          /\ Within(issue'[s], grant[caller[s]])
      BY <1>1, <1>a, <2>3, CheckedStep
    <3>2. caller[s] \in Keys /\ Issued(caller[s])
      BY <1>1, <2>3, AdmittedStep DEF Checked, RunPc, TxPc
    <3>3. KeepsRow(caller[s])
      BY <1>1, <3>2, RowsAreKept
    <3> QED BY <3>1, <3>3 DEF KeepsRow, Within
  <2>4. ASSUME Targeting(s)' PROVE (target[s] \in Keys /\ Issued(target[s]))'
    BY <1>1, <1>a, <2>4, TargetingStep, RowsAreKept DEF KeepsRow, Issued
  <2>5. ASSUME pc'[s] # "done" PROVE ~Issued(s)'
    <3>1. pc[s] # "done"
      BY <1>1, <2>5 DEF Act, Step, Proceed, Arrive, Authenticate, Create, Rotate,
           RotateInsert, RotateExpire, Revoke, RevokeUpdate, ReadBack, Commit,
           CommitUnacked, StatementFails, Crash, RunPc, TxPc
    <3>2. ~Inserts(s)
      BY <2>5 DEF Inserts
    <3> QED BY <1>1, <1>a, <3>1, <3>2, NewKeys DEF Underway
  <2> QED BY <2>1, <2>2, <2>3, <2>4, <2>5 DEF Underway
<1>2. ASSUME NEW r \in Requests \ {s}, Act(r) PROVE Underway(s)' /\ Known'
  <2>1. SameAs(s)
    BY <1>2, Frame
  <2>2. \A k \in Keys : Issued(k) => KeepsRow(k)
    BY <1>2, RowsAreKept
  <2>3. Issued(s)' => Issued(s)
    BY <1>2, <1>a, NewKeys
  <2>4. Known'
    BY <1>a, <2>1, <2>2 DEF SameAs, KeepsRow, Issued
  <2>5. Consistent(s)' /\ (Checked(s)' <=> Checked(s))
        /\ (Targeting(s)' <=> Targeting(s))
    BY <1>a, <2>1 DEF Underway, Consistent, Checked, Targeting, SameAs
  <2>6. ASSUME Checked(s)
        PROVE  (appOf[caller[s]] = app[s] /\ Within(issue[s], grant[caller[s]]))'
    <3>1. KeepsRow(caller[s])
      BY <1>a, <2>2, <2>6 DEF Checked, RunPc, TxPc
    <3> QED BY <1>a, <2>1, <2>6, <3>1 DEF Underway, SameAs, KeepsRow, Within
  <2>7. ASSUME Targeting(s) PROVE (target[s] \in Keys /\ Issued(target[s]))'
    BY <1>a, <2>1, <2>2, <2>7 DEF Underway, SameAs, KeepsRow, Issued
  <2>8. pc'[s] # "done" => ~Issued(s)'
    BY <1>a, <2>1, <2>3 DEF Underway, SameAs
  <2> QED BY <2>4, <2>5, <2>6, <2>7, <2>8 DEF Underway
<1>3. CASE Tick \/ UNCHANGED vars
  BY <1>3, <1>a DEF Tick, vars, rows, inputs, Underway, Consistent, Checked,
                    Targeting, Issued, Within
<1> QED BY <1>1, <1>2, <1>3 DEF Next, AllServed, Act

\* Provisioning leaves only issued roots, and no request under way.
LEMMA InitInvariants == Init => TypeOK /\ IInv
<1> SUFFICES ASSUME Init PROVE TypeOK /\ IInv
  OBVIOUS
<1>1. PICK a \in [Roots -> Applications], g \in [Roots -> Grants] :
        /\ appOf = [k \in Keys |-> IF k \in Roots THEN a[k] ELSE Nobody]
        /\ grant = [k \in Keys |-> IF k \in Roots THEN g[k] ELSE NoGrant]
  BY DEF Init
<1>2. NoGrant \in Grant /\ NoEntry \in Entry
  BY DEF NoGrant, Grant, Coverage, NoEntry, Entry
<1>3. appOf \in [Keys -> Applications \cup {Nobody}] /\ grant \in [Keys -> Grant]
  BY <1>1, <1>2, GrantsAssumption
<1>4. TypeOK
  BY <1>2, <1>3, ClockAssumption
     DEF Init, TypeOK, Pc, Ops, Answer
<1>5. IInv
  BY NamesAssumption DEF Init, IInv, Admitted, Underway, Consistent, Checked,
     Targeting, Issued, RunPc, TxPc, Keys
<1> QED BY <1>4, <1>5

(***************************************************************************)
(* Type correctness (http/authentication.ts, api-key.service.ts): the rows *)
(* of api_keys, the audit trail and every request stay in the declared     *)
(* values, and only a transaction about to commit holds a row lock.        *)
(***************************************************************************)
THEOREM TypeCorrect == Spec => []TypeOK
<1>1. TypeOK /\ IInv /\ [Next]_vars => (TypeOK /\ IInv)'
  BY TypeStep, UnderwayStep DEF IInv
<1> QED BY <1>1, InitInvariants, PTL DEF Spec

\* What a request under way relies on holds throughout.
LEMMA InvariantsHold == Spec => [](TypeOK /\ IInv)
<1>1. TypeOK /\ IInv /\ [Next]_vars => (TypeOK /\ IInv)'
  BY TypeStep, UnderwayStep DEF IInv
<1> QED BY <1>1, InitInvariants, PTL DEF Spec

-----------------------------------------------------------------------------
(***************************************************************************)
(* Escalation.  assertWithinCallerGrant compares coverages by cases; the   *)
(* cases amount to inclusion of what the coverages reach.                  *)
(***************************************************************************)
LEMMA WithinIsInclusion ==
  ASSUME NEW inner \in Grant, NEW outer \in Grant, Within(inner, outer)
  PROVE  /\ inner.permissions \subseteq outer.permissions
         /\ Covered(inner) \subseteq Covered(outer)
BY DEF Within, Covered, Grant, Coverage

\* Every step preserves that a key reaches no further than its issuer.
LEMMA EscalationStep ==
  TypeOK /\ IInv /\ NoEscalation /\ [Next]_vars => NoEscalation'
<1> SUFFICES ASSUME TypeOK, IInv, NoEscalation, [Next]_vars,
                    NEW k \in Keys, Issued(k)', issuer'[k] \in Keys
             PROVE  (/\ Issued(issuer[k])
                     /\ appOf[k] = appOf[issuer[k]]
                     /\ grant[k].permissions \subseteq grant[issuer[k]].permissions
                     /\ Covered(grant[k]) \subseteq Covered(grant[issuer[k]]))'
  BY DEF NoEscalation
<1>1. ASSUME NEW r \in Requests, Act(r), Issued(k)
      PROVE  (/\ Issued(issuer[k])
              /\ appOf[k] = appOf[issuer[k]]
              /\ grant[k].permissions \subseteq grant[issuer[k]].permissions
              /\ Covered(grant[k]) \subseteq Covered(grant[issuer[k]]))'
  <2>1. KeepsRow(k)
    BY <1>1, RowsAreKept
  <2>2. Issued(issuer[k]) /\ issuer[k] \in Keys
    BY <1>1, <2>1 DEF KeepsRow, NoEscalation
  <2>3. KeepsRow(issuer[k])
    BY <1>1, <2>2, RowsAreKept
  <2> QED BY <1>1, <2>1, <2>2, <2>3 DEF KeepsRow, Issued, NoEscalation, Covered
<1>2. ASSUME NEW r \in Requests, Act(r), ~Issued(k)
      PROVE  (/\ Issued(issuer[k])
              /\ appOf[k] = appOf[issuer[k]]
              /\ grant[k].permissions \subseteq grant[issuer[k]].permissions
              /\ Covered(grant[k]) \subseteq Covered(grant[issuer[k]]))'
  <2> DEFINE c == caller[r]
  <2>1. k = r /\ Inserts(r)
    BY <1>2, NewKeys
  <2>2. /\ c \in Keys /\ Issued(c)
        /\ appOf[c] = app[r] /\ Within(issue[r], grant[c])
    BY <2>1 DEF Inserts, IInv, Admitted, Underway, Checked, RunPc, TxPc
  <2>3. KeepsRow(c)
    BY <1>2, <2>2, RowsAreKept
  <2>4. /\ issuer'[k] = c /\ appOf'[k] = app[r] /\ grant'[k] = issue[r]
    BY <2>1 DEF Inserts, InsertKey, TypeOK
  <2>5. /\ issue[r].permissions \subseteq grant[c].permissions
        /\ Covered(issue[r]) \subseteq Covered(grant[c])
    BY <2>2, WithinIsInclusion DEF TypeOK
  <2>6. (Covered(grant[k]) \subseteq Covered(grant[issuer[k]]))'
    <3>1. Covered(grant[k])' = Covered(issue[r])
      BY <2>4 DEF Covered
    <3>2. Covered(grant[issuer[k]])' = Covered(grant[c])
      BY <2>3, <2>4 DEF Covered, KeepsRow
    <3> QED BY <2>5, <3>1, <3>2
  <2>7. Issued(issuer[k])'
    BY <2>3, <2>4 DEF KeepsRow, Issued
  <2>8. (/\ appOf[k] = appOf[issuer[k]]
         /\ grant[k].permissions \subseteq grant[issuer[k]].permissions)'
    <3>1. appOf'[c] = app[r] /\ grant'[c] = grant[c]
      BY <2>2, <2>3 DEF KeepsRow
    <3>2. /\ appOf'[k] = appOf'[issuer'[k]]
          /\ grant'[k].permissions \subseteq grant'[issuer'[k]].permissions
      BY <2>4, <2>5, <3>1
    <3> QED BY <3>2
  <2> QED BY <2>6, <2>7, <2>8
<1>3. CASE Tick \/ UNCHANGED vars
  BY <1>3 DEF Tick, vars, rows, NoEscalation, Issued, Covered
<1> QED BY <1>1, <1>2, <1>3 DEF Next, AllServed, Act

(***************************************************************************)
(* A key grants no more than the key that issued it, and belongs to the    *)
(* same application, along every chain of creates and rotations            *)
(* (api-key.service.ts assertWithinCallerGrant, rotate).                   *)
(***************************************************************************)
THEOREM Escalation == Spec => []NoEscalation
<1>1. Init => NoEscalation
  BY NamesAssumption DEF Init, NoEscalation, Keys
<1> QED BY <1>1, EscalationStep, InvariantsHold, PTL DEF Spec

-----------------------------------------------------------------------------
(***************************************************************************)
(* Revocation.                                                             *)
(***************************************************************************)
\* A step revives no key and lengthens no life.
LEMMA NoRevival ==
  ASSUME TypeOK, IInv, [Next]_vars, NEW k \in Keys
  PROVE  /\ status[k] = "revoked" => status'[k] = "revoked"
         /\ expires[k] # Never => expires'[k] # Never
                                    /\ expires'[k] <= expires[k]
<1> DEFINE Kept == status[k] = "revoked" => status'[k] = "revoked"
           Shortened == expires[k] # Never => expires'[k] # Never
                                              /\ expires'[k] <= expires[k]
<1>0. expires[k] \in Nat \cup {Never}
  BY DEF TypeOK
<1>1. ASSUME NEW r \in Requests, Act(r) PROVE Kept /\ Shortened
  <2>1. Kept
    <3>1. CASE Inserts(r)
      BY <3>1 DEF Inserts, InsertKey, IInv, Underway, Issued, TypeOK
    <3>2. CASE Revokes(r)
      BY <3>2 DEF Revokes, TypeOK
    <3> QED BY <1>1, <3>1, <3>2, RowFrame
  <2>2. \/ UNCHANGED expires
        \/ expires' = [expires EXCEPT ![target[r]] = Least(@, until[r])]
    BY <1>1 DEF Act, Step, Proceed, Arrive, Authenticate, Create, Rotate,
       RotateInsert, RotateExpire, Revoke, RevokeUpdate, ReadBack, Commit,
       CommitUnacked, StatementFails, Crash, Effects, rows
  <2>3. CASE UNCHANGED expires
    BY <1>0, <2>1, <2>3
  <2>4. CASE expires' = [expires EXCEPT ![target[r]] = Least(@, until[r])]
    <3>1. \/ expires'[k] = expires[k]
          \/ expires'[k] = Least(expires[k], until[r])
      BY <2>4 DEF TypeOK
    <3>2. until[r] \in Nat
      BY DEF TypeOK
    <3>3. /\ Least(expires[k], until[r]) \in Nat
          /\ expires[k] # Never => Least(expires[k], until[r]) <= expires[k]
      BY <1>0, <3>2, LeastType
    <3>4. Shortened
      BY <1>0, <3>1, <3>3, NamesAssumption
    <3> QED BY <2>1, <3>4
  <2> QED BY <2>2, <2>3, <2>4
<1>2. CASE Tick \/ UNCHANGED vars
  BY <1>0, <1>2 DEF Tick, vars, rows
<1> QED BY <1>1, <1>2 DEF Next, AllServed, Act

(***************************************************************************)
(* No step revives a revoked key or lengthens the life of a rotated one,   *)
(* whatever rotations and revocations overlap (api-key.service.ts rotate,  *)
(* api-key.repository.ts revoke and expireBy).                             *)
(***************************************************************************)
THEOREM Permanence == Spec => RevocationIsFinal
<1>1. TypeOK /\ IInv /\ [Next]_vars =>
        [\A k \in Keys :
           /\ status[k] = "revoked" => status'[k] = "revoked"
           /\ expires[k] # Never => expires'[k] # Never
                                      /\ expires'[k] <= expires[k]]_vars
  BY NoRevival
<1> QED BY <1>1, InvariantsHold, PTL DEF Spec, RevocationIsFinal

(***************************************************************************)
(* What makes a revocation effective: the transaction that reports it has  *)
(* the row locked or found it revoked, and a request sent afterwards never *)
(* passes the read of authentication.                                      *)
(***************************************************************************)
Refusal(r) ==
  /\ pc[r] \in {"idle", "authenticate"} => audit[r] = NoEntry /\ answer[r] = "none"
  /\ answer[r] = "revoked" => status[target[r]] = "revoked"
  /\ pc[r] = "commit" /\ op[r] = "revoke" =>
       lock[target[r]] = r \/ status[target[r]] = "revoked"
  /\ pc[r] = "read_back" => status[target[r]] = "revoked"
  /\ answer[r] = "revoked" => target[r] \in Keys
  /\ barred[r] =>
       /\ pc[r] \in {"authenticate", "done", "crashed"}
       /\ caller[r] \in Keys /\ status[caller[r]] = "revoked"
       /\ audit[r] = NoEntry
       /\ answer[r] \in Uninformed

\* A row lock is only ever taken from no one, and only its holder lets go.
LEMMA LockFrame ==
  ASSUME TypeOK, NEW r \in Requests, NEW s \in Requests \ {r}, Act(r),
         NEW k \in Keys, lock[k] = s
  PROVE  lock'[k] = s
<1>1. CASE Commit(r) \/ CommitUnacked(r) \/ StatementFails(r) \/ Crash(r)
  BY <1>1, UnlockType DEF Commit, CommitUnacked, StatementFails, Crash
<1>2. CASE RotateExpire(r) \/ RevokeUpdate(r)
  BY <1>2, NamesAssumption DEF RotateExpire, RevokeUpdate, TypeOK, Keys
<1>3. CASE \/ Arrive(r) \/ Authenticate(r) \/ Create(r) \/ Rotate(r)
           \/ RotateInsert(r) \/ Revoke(r) \/ ReadBack(r)
  BY <1>3 DEF Arrive, Authenticate, Create, Rotate, RotateInsert, Revoke,
              ReadBack
<1> QED BY <1>1, <1>2, <1>3 DEF Act, Step, Proceed

\* Sending a request: it is barred if its key is known to be revoked.
LEMMA RefusalArrive ==
  ASSUME TypeOK, \A s \in Requests : Refusal(s),
         NEW r \in Requests, Arrive(r)
  PROVE  Refusal(r)'
<1>1. PICK k \in Disclosed \cup {Unknown} :
        /\ caller' = [caller EXCEPT ![r] = k]
        /\ barred' = [barred EXCEPT ![r] = \E s \in Requests :
                                answer[s] = "revoked" /\ target[s] = k]
  BY DEF Arrive
<1>2. /\ pc[r] = "idle" /\ pc'[r] = "authenticate"
      /\ audit[r] = NoEntry /\ answer[r] = "none"
      /\ audit' = audit /\ answer' = answer /\ status' = status
  BY DEF Arrive, Goto, TypeOK, Refusal, rows
<1>3. ASSUME barred'[r]
      PROVE  caller'[r] \in Keys /\ status[caller'[r]] = "revoked"
  <2>1. \E s \in Requests : answer[s] = "revoked" /\ target[s] = k
    BY <1>1, <1>3 DEF TypeOK
  <2>2. caller'[r] = k
    BY <1>1 DEF TypeOK
  <2> QED BY <2>1, <2>2 DEF Refusal
<1> QED BY <1>2, <1>3 DEF Refusal, Uninformed

\* A barred request gets no further than authentication.
LEMMA RefusalBarred ==
  ASSUME TypeOK, IInv, NEW r \in Requests, Refusal(r), barred[r], Act(r)
  PROVE  /\ pc'[r] \in {"done", "crashed"} /\ barred'[r]
         /\ caller' = caller /\ audit'[r] = NoEntry
         /\ answer'[r] \in Uninformed
<1>1. /\ pc[r] \in {"authenticate", "done", "crashed"}
      /\ status[caller[r]] = "revoked" /\ audit[r] = NoEntry
      /\ answer[r] \in Uninformed
  BY DEF Refusal
<1>2. Authenticate(r) \/ StatementFails(r) \/ Crash(r)
  BY <1>1 DEF Act, Step, Proceed, Arrive, Create, Rotate, RotateInsert, RotateExpire,
     Revoke, RevokeUpdate, ReadBack, Commit, CommitUnacked
<1>3. CASE Authenticate(r)
  BY <1>1, <1>3 DEF Authenticate, Usable, Reply, Goto, TypeOK, Uninformed,
                    inputs, rows
<1>4. CASE StatementFails(r)
  <2>1. pc[r] = "authenticate"
    BY <1>1, <1>4 DEF StatementFails, RunPc, TxPc
  <2> QED BY <1>1, <1>4, <2>1
          DEF StatementFails, Reply, Goto, TypeOK, Uninformed, inputs, rows
<1>5. CASE Crash(r)
  BY <1>1, <1>5 DEF Crash, Goto, TypeOK, inputs, rows
<1> QED BY <1>2, <1>3, <1>4, <1>5

\* The client is told "revoked" by a step that found the key revoked.
LEMMA RefusalTold ==
  ASSUME TypeOK, IInv, NEW r \in Requests, Refusal(r), Act(r), ~Arrive(r)
  PROVE  /\ pc'[r] \notin {"idle", "authenticate"}
         /\ target' = target
         /\ answer'[r] = "revoked" =>
              target[r] \in Keys /\ status[target[r]] = "revoked"
         /\ pc'[r] = "commit" /\ op[r] = "revoke" =>
              lock'[target[r]] = r \/ status[target[r]] = "revoked"
         /\ pc'[r] = "read_back" => status'[target[r]] = "revoked"
<1> USE DEF Goto, Reply, TypeOK, inputs, rows, Refusal
<1>0. Underway(r)
  BY DEF IInv
<1>1. CASE StatementFails(r) \/ Crash(r)
  BY <1>1 DEF StatementFails, Crash
<1>2. CASE Authenticate(r) \/ Create(r) \/ Revoke(r)
  BY <1>0, <1>2 DEF Authenticate, Create, Revoke, Underway, Consistent, Ops
<1>3. CASE Rotate(r) \/ RotateInsert(r) \/ RotateExpire(r)
  BY <1>0, <1>3 DEF Rotate, RotateInsert, RotateExpire, Underway, Consistent
<1>4. CASE RevokeUpdate(r)
  <2>1. target[r] \in Keys
    BY <1>0, <1>4 DEF RevokeUpdate, Underway, Targeting
  <2> QED BY <1>4, <2>1 DEF RevokeUpdate
<1>5. CASE ReadBack(r)
  <2>1. target[r] \in Keys
    BY <1>0, <1>5 DEF ReadBack, Underway, Targeting
  <2> QED BY <1>5, <2>1 DEF ReadBack
<1>6. CASE Commit(r) \/ CommitUnacked(r)
  <2>1. CASE op[r] = "revoke"
    <3>1. target[r] \in Keys /\ pc[r] = "commit"
      BY <1>0, <1>6, <2>1 DEF Commit, CommitUnacked, Underway, Targeting
    <3>2. status'[target[r]] = "revoked"
      BY <1>6, <2>1, <3>1 DEF Commit, CommitUnacked, Effects
    <3> QED BY <1>6, <2>1, <3>1, <3>2 DEF Commit, CommitUnacked
  <2>2. CASE op[r] # "revoke"
    BY <1>6, <2>2 DEF Commit, CommitUnacked
  <2> QED BY <2>1, <2>2
<1> QED BY <1>1, <1>2, <1>3, <1>4, <1>5, <1>6 DEF Act, Step, Proceed

\* Every step preserves that a key revoked before a request is refused to it.
LEMMA RefusalStep ==
  TypeOK /\ IInv /\ (\A s \in Requests : Refusal(s)) /\ [Next]_vars
    => (\A s \in Requests : Refusal(s))'
<1> SUFFICES ASSUME TypeOK, IInv, \A t \in Requests : Refusal(t),
                    [Next]_vars, NEW s \in Requests
             PROVE  Refusal(s)'
  OBVIOUS
<1>a. \A k \in Keys : status[k] = "revoked" => status'[k] = "revoked"
  BY NoRevival
<1>b. Refusal(s)
  OBVIOUS
<1>1. ASSUME Act(s), ~Arrive(s) PROVE Refusal(s)'
  <2>1. /\ pc'[s] \notin {"idle", "authenticate"} /\ target' = target
        /\ answer'[s] = "revoked" =>
             target[s] \in Keys /\ status[target[s]] = "revoked"
        /\ pc'[s] = "commit" /\ op[s] = "revoke" =>
             lock'[target[s]] = s \/ status[target[s]] = "revoked"
        /\ pc'[s] = "read_back" => status'[target[s]] = "revoked"
    BY <1>1, <1>b, RefusalTold
  <2>2. op' = op /\ caller' = caller /\ barred' = barred
    BY <1>1 DEF Act, Step, Proceed, Authenticate, Create, Rotate, RotateInsert,
       RotateExpire, Revoke, RevokeUpdate, ReadBack, Commit, CommitUnacked,
       StatementFails, Crash, inputs
  <2>3. pc'[s] = "commit" /\ op[s] = "revoke" => target[s] \in Keys
    <3>1. IInv'
      BY UnderwayStep
    <3> QED BY <2>1, <2>2, <3>1 DEF IInv, Underway, Targeting
  <2>4. barred'[s] =>
          /\ pc'[s] \in {"authenticate", "done", "crashed"}
          /\ caller'[s] \in Keys /\ status'[caller'[s]] = "revoked"
          /\ audit'[s] = NoEntry
          /\ answer'[s] \in Uninformed
    BY <1>1, <1>a, <1>b, <2>2, RefusalBarred DEF Refusal
  <2> QED BY <1>a, <2>1, <2>2, <2>3, <2>4 DEF Refusal
<1>2. ASSUME NEW r \in Requests \ {s}, Act(r) PROVE Refusal(s)'
  <2>1. SameAs(s)
    BY <1>2, Frame
  <2>2. pc[s] = "commit" /\ op[s] = "revoke" =>
          lock'[target[s]] = s \/ status'[target[s]] = "revoked"
    <3>1. pc[s] = "commit" /\ op[s] = "revoke" => target[s] \in Keys
      BY DEF IInv, Underway, Targeting
    <3> QED BY <1>2, <1>a, <1>b, <3>1, LockFrame DEF Refusal
  <2>3. pc[s] = "read_back" => status'[target[s]] = "revoked"
    <3>1. pc[s] = "read_back" => target[s] \in Keys
      BY DEF IInv, Underway, Targeting
    <3> QED BY <1>a, <1>b, <3>1 DEF Refusal
  <2> QED BY <1>a, <1>b, <2>1, <2>2, <2>3 DEF Refusal, SameAs
<1>3. ASSUME Arrive(s) PROVE Refusal(s)'
  BY <1>3, RefusalArrive
<1>4. CASE Tick \/ UNCHANGED vars
  BY <1>4, <1>b DEF Tick, vars, rows, inputs, Refusal
<1> QED BY <1>1, <1>2, <1>3, <1>4 DEF Next, AllServed, Act

(***************************************************************************)
(* Once a client has been told that a key is revoked, a request sent with  *)
(* that key changes nothing and learns nothing (http/authentication.ts,    *)
(* api-key.service.ts revoke and authenticate).                            *)
(***************************************************************************)
THEOREM Refusals == Spec => []RevokedKeyIsRefused
<1>1. Init => \A s \in Requests : Refusal(s)
  BY DEF Init, Refusal, Uninformed
<1>2. (\A s \in Requests : Refusal(s)) => RevokedKeyIsRefused
  BY DEF Refusal, RevokedKeyIsRefused
<1> QED BY <1>1, <1>2, RefusalStep, InvariantsHold, PTL DEF Spec

-----------------------------------------------------------------------------
(***************************************************************************)
(* What the commit of an audited transaction writes                        *)
(***************************************************************************)
Creates(r) ==
  /\ InsertKey(r)
  /\ WriteEntry(r, "created", r, 0)
  /\ UNCHANGED expires

Rotates(r) ==
  /\ target[r] \in Keys
  /\ InsertKey(r)
  /\ WriteEntry(r, "rotated", target[r], until[r])
  /\ expires' = [expires EXCEPT ![target[r]] = Least(@, until[r])]

Ends(r) ==
  /\ target[r] \in Keys /\ lock[target[r]] = r /\ op[r] = "revoke"
  /\ status' = [status EXCEPT ![target[r]] = "revoked"]
  /\ WriteEntry(r, "revoked", target[r], 0)
  /\ UNCHANGED <<expires, issuer>>

\* A request whose transaction may have committed.
Past(r) == pc[r] \in {"read_back", "done", "crashed"}

\* A step writes nothing, or one of the three pairs of change and entry.
LEMMA Writes ==
  ASSUME TypeOK, IInv, NEW r \in Requests, Act(r)
  PROVE  /\ Past(r) => Past(r)'
         /\ \/ UNCHANGED <<status, expires, issuer, audit>>
            \/ /\ pc[r] = "commit" /\ Past(r)'
               /\ Creates(r) \/ Rotates(r) \/ Ends(r)
<1> USE DEF Past, Goto, Reply, TypeOK
<1>1. CASE Commit(r) \/ CommitUnacked(r)
  <2>1. /\ pc[r] = "commit" /\ pc'[r] \in {"read_back", "done"} /\ Effects(r)
    BY <1>1 DEF Commit, CommitUnacked
  <2>2. op[r] # "create" => target[r] \in Keys
    BY <2>1 DEF IInv, Underway, Targeting
  <2> QED BY <2>1, <2>2 DEF Effects, Creates, Rotates, Ends, rows
<1>2. CASE Arrive(r) \/ Authenticate(r)
  BY <1>2 DEF Arrive, Authenticate, rows
<1>3. CASE Create(r) \/ Rotate(r) \/ RotateInsert(r) \/ RotateExpire(r)
  BY <1>3 DEF Create, Rotate, RotateInsert, RotateExpire, rows
<1>4. CASE \/ Revoke(r) \/ RevokeUpdate(r) \/ ReadBack(r) \/ Crash(r)
           \/ StatementFails(r)
  BY <1>4 DEF Revoke, RevokeUpdate, ReadBack, Crash, StatementFails, rows
<1> QED BY <1>1, <1>2, <1>3, <1>4 DEF Act, Step, Proceed

\* The entry that WriteEntry leaves, and those it leaves alone.
LEMMA EntryWritten ==
  ASSUME TypeOK, NEW r \in Requests, NEW action, NEW k, NEW t,
         WriteEntry(r, action, k, t)
  PROVE  /\ audit'[r].action = action /\ audit'[r].key = k
         /\ audit'[r].actor = caller[r] /\ audit'[r].until = t
         /\ \A s \in Requests : s # r => audit'[s] = audit[s]
BY DEF WriteEntry, TypeOK

-----------------------------------------------------------------------------
(***************************************************************************)
(* The invariant                                                           *)
(***************************************************************************)
\* Before its commit a request has no entry, and a lock it holds to revoke
\* is on a key that is not revoked yet.
Pending(r) ==
  /\ ~Past(r) => audit[r].action = "none"
  /\ pc[r] = "commit" /\ op[r] = "revoke" /\ target[r] \in Keys
       /\ lock[target[r]] = r => status[target[r]] # "revoked"

OwnEntry(r) ==
  /\ Issued(r) <=> audit[r].action \in {"created", "rotated"}
  /\ Issued(r) => audit[r].actor = issuer[r]

OneRevocation(k) ==
  /\ status[k] = "revoked" <=> Revocations(k) # {}
  /\ \A r, s \in Revocations(k) : r = s

ShortestOverlap(k) ==
  IF Rotations(k) = {}
  THEN expires[k] = Never
  ELSE /\ expires[k] \in {audit[r].until : r \in Rotations(k)}
       /\ \A r \in Rotations(k) : expires[k] <= audit[r].until

Trail ==
  /\ \A r \in Requests : Pending(r) /\ OwnEntry(r)
  /\ \A k \in Keys : OneRevocation(k) /\ ShortestOverlap(k)

\* No request has written anything, and no root was rotated or revoked.
LEMMA TrailInit == Init => Trail
BY NamesAssumption
   DEF Init, Trail, Pending, OwnEntry, OneRevocation, ShortestOverlap, Past,
       Issued, Revocations, Rotations, NoEntry, Keys

\* A request that waits to revoke a key still finds it as it locked it.
LEMMA PendingStep ==
  ASSUME TypeOK, IInv, Trail, NEW r \in Requests, Act(r), NEW s \in Requests
  PROVE  Pending(s)'
<1>1. CASE s # r
  <2>1. SameAs(s)
    BY <1>1, Frame
  <2>2. ASSUME pc[s] = "commit", op[s] = "revoke", target[s] \in Keys,
               lock'[target[s]] = s
        PROVE  status'[target[s]] # "revoked"
    <3>1. lock[target[s]] = s
      <4>1. CASE Commit(r) \/ CommitUnacked(r) \/ StatementFails(r) \/ Crash(r)
        BY <1>1, <2>2, <4>1, UnlockType, NamesAssumption
           DEF Commit, CommitUnacked, StatementFails, Crash, Keys
      <4>2. CASE RotateExpire(r) \/ RevokeUpdate(r)
        BY <1>1, <2>2, <4>2 DEF RotateExpire, RevokeUpdate, TypeOK
      <4>3. CASE \/ Arrive(r) \/ Authenticate(r) \/ Create(r) \/ Rotate(r)
                 \/ RotateInsert(r) \/ Revoke(r) \/ ReadBack(r)
        BY <2>2, <4>3 DEF Arrive, Authenticate, Create, Rotate, RotateInsert,
                          Revoke, ReadBack
      <4> QED BY <4>1, <4>2, <4>3 DEF Act, Step, Proceed
    <3>2. status[target[s]] # "revoked"
      BY <2>2, <3>1 DEF Trail, Pending
    <3>3. CASE Creates(r) \/ Rotates(r)
      BY <2>2, <3>2, <3>3 DEF Creates, Rotates, InsertKey, TypeOK
    <3>4. CASE Ends(r)
      BY <1>1, <2>2, <3>1, <3>2, <3>4 DEF Ends, TypeOK
    <3> QED BY <3>2, <3>3, <3>4, Writes
  <2> QED BY <2>1, <2>2 DEF Trail, Pending, Past, SameAs
<1>2. CASE s = r
  <2>1. ~Past(r)' => audit'[r].action = "none"
    BY Writes DEF Trail, Pending
  <2>2. ASSUME pc'[r] = "commit", op'[r] = "revoke", target'[r] \in Keys,
               lock'[target'[r]] = r
        PROVE  status'[target'[r]] # "revoked"
    <3>1. RevokeUpdate(r)
      BY <2>2 DEF Act, Step, Proceed, Arrive, Authenticate, Create, Rotate,
         RotateInsert, RotateExpire, Revoke, ReadBack, Commit, CommitUnacked,
         StatementFails, Crash, Reply, Goto, TypeOK, inputs, IInv, Underway,
         Consistent, Ops
    <3>2. /\ pc[r] = "revoke_update" /\ UNCHANGED <<target, status>>
      BY <3>1 DEF RevokeUpdate, inputs, rows
    <3>3. lock[target[r]] # r
      BY <2>2, <3>2, NamesAssumption DEF TypeOK, Keys
    <3> QED BY <2>2, <3>1, <3>2, <3>3 DEF RevokeUpdate
  <2> QED BY <1>2, <2>1, <2>2 DEF Pending
<1> QED BY <1>1, <1>2

\* The entry is written for the key that is inserted, by the request that
\* inserts it.
LEMMA OwnEntryStep ==
  ASSUME TypeOK, IInv, Trail, NEW r \in Requests, Act(r), NEW s \in Requests
  PROVE  OwnEntry(s)'
<1>0. OwnEntry(s) /\ s \in Keys /\ r \in Keys
  BY DEF Trail, Keys
<1>1. CASE UNCHANGED <<status, expires, issuer, audit>>
  BY <1>0, <1>1 DEF OwnEntry, Issued
<1>2. CASE Creates(r) \/ Rotates(r)
  <2>1. /\ status' = [status EXCEPT ![r] = "active"]
        /\ issuer' = [issuer EXCEPT ![r] = caller[r]]
    BY <1>2 DEF Creates, Rotates, InsertKey
  <2>2. /\ audit'[r].action \in {"created", "rotated"}
        /\ audit'[r].actor = caller[r]
        /\ \A q \in Requests : q # r => audit'[q] = audit[q]
    BY <1>2, EntryWritten DEF Creates, Rotates
  <2>3. CASE s = r
    BY <1>0, <2>1, <2>2, <2>3 DEF OwnEntry, Issued, TypeOK
  <2>4. CASE s # r
    BY <1>0, <2>1, <2>2, <2>4 DEF OwnEntry, Issued, TypeOK
  <2> QED BY <2>3, <2>4
<1>3. CASE Ends(r) /\ pc[r] = "commit"
  <2>1. Issued(target[r]) /\ ~Issued(r)
    BY <1>3 DEF Ends, IInv, Underway, Targeting
  <2>2. \A k \in Keys : Issued(k)' <=> Issued(k)
    BY <1>3, <2>1 DEF Ends, Issued, TypeOK
  <2>3. /\ audit'[r].action = "revoked" /\ issuer' = issuer
        /\ \A q \in Requests : q # r => audit'[q] = audit[q]
    BY <1>3, EntryWritten DEF Ends
  <2> QED BY <1>0, <2>1, <2>2, <2>3 DEF OwnEntry
<1> QED BY <1>1, <1>2, <1>3, Writes

\* A revocation is recorded by the transaction that found the key not
\* revoked and had it locked.
LEMMA OneRevocationStep ==
  ASSUME TypeOK, IInv, Trail, NEW r \in Requests, Act(r), NEW k \in Keys
  PROVE  OneRevocation(k)'
<1>0. OneRevocation(k) /\ r \in Keys
  BY DEF Trail, Keys
<1>1. CASE UNCHANGED <<status, expires, issuer, audit>>
  BY <1>0, <1>1 DEF OneRevocation, Revocations
<1>a. pc[r] = "commit" => audit[r].action = "none" /\ ~Issued(r)
  BY DEF Trail, Pending, Past, IInv, Underway
<1>2. CASE pc[r] = "commit" /\ (Creates(r) \/ Rotates(r))
  <2>1. status'[k] = "revoked" <=> status[k] = "revoked"
    BY <1>2, <1>a DEF Creates, Rotates, InsertKey, Issued, TypeOK
  <2>2. /\ audit'[r].action # "revoked"
        /\ \A s \in Requests : s # r => audit'[s] = audit[s]
    BY <1>2, EntryWritten DEF Creates, Rotates
  <2>3. Revocations(k)' = Revocations(k)
    BY <1>2, <1>a, <2>2 DEF Revocations
  <2> QED BY <1>0, <2>1, <2>3 DEF OneRevocation
<1>3. CASE pc[r] = "commit" /\ Ends(r)
  <2>1. /\ audit'[r].action = "revoked" /\ audit'[r].key = target[r]
        /\ \A s \in Requests : s # r => audit'[s] = audit[s]
    BY <1>3, EntryWritten DEF Ends
  <2>2. CASE k = target[r]
    <3>1. status[k] # "revoked"
      BY <1>3, <2>2 DEF Ends, Trail, Pending
    <3>2. Revocations(k) = {}
      BY <1>0, <3>1 DEF OneRevocation
    <3>3. Revocations(k)' = {r}
      BY <2>1, <2>2, <3>2 DEF Revocations
    <3>4. status'[k] = "revoked"
      BY <1>3, <2>2 DEF Ends, TypeOK
    <3> QED BY <3>3, <3>4 DEF OneRevocation
  <2>3. CASE k # target[r]
    <3>1. status'[k] = status[k]
      BY <1>3, <2>3 DEF Ends, TypeOK
    <3>2. Revocations(k)' = Revocations(k)
      BY <1>3, <1>a, <2>1, <2>3 DEF Revocations
    <3> QED BY <1>0, <3>1, <3>2 DEF OneRevocation
  <2> QED BY <2>2, <2>3
<1> QED BY <1>1, <1>2, <1>3, Writes

\* Only a rotation shortens a life, and it records the instant it asks for.
LEMMA ShortestOverlapStep ==
  ASSUME TypeOK, IInv, Trail, NEW r \in Requests, Act(r), NEW k \in Keys
  PROVE  ShortestOverlap(k)'
<1>0. ShortestOverlap(k)
  BY DEF Trail
<1>1. CASE UNCHANGED <<status, expires, issuer, audit>>
  <2>1. Rotations(k)' = Rotations(k)
    BY <1>1 DEF Rotations
  <2> QED BY <1>0, <1>1, <2>1 DEF ShortestOverlap
<1>a. pc[r] = "commit" => r \notin Rotations(k)
  BY DEF Trail, Pending, Past, Rotations
<1>2. CASE pc[r] = "commit" /\ (Creates(r) \/ Ends(r))
  <2>1. /\ expires' = expires /\ audit'[r].action # "rotated"
        /\ \A s \in Requests : s # r => audit'[s] = audit[s]
    BY <1>2, EntryWritten DEF Creates, Ends
  <2>2. Rotations(k)' = Rotations(k)
    BY <1>2, <1>a, <2>1 DEF Rotations
  <2>3. \A s \in Rotations(k) : audit'[s] = audit[s]
    BY <1>2, <1>a, <2>1 DEF Rotations
  <2> QED BY <1>0, <2>1, <2>2, <2>3 DEF ShortestOverlap
<1>3. CASE pc[r] = "commit" /\ Rotates(r)
  <2>1. /\ audit'[r].action = "rotated" /\ audit'[r].key = target[r]
        /\ audit'[r].until = until[r]
        /\ \A s \in Requests : s # r => audit'[s] = audit[s]
    BY <1>3, EntryWritten DEF Rotates
  <2>2. \A s \in Rotations(k) : audit'[s] = audit[s]
    BY <1>3, <1>a, <2>1 DEF Rotations
  <2>3. CASE k # target[r]
    <3>1. expires'[k] = expires[k]
      BY <1>3, <2>3 DEF Rotates, TypeOK
    <3>2. Rotations(k)' = Rotations(k)
      BY <1>3, <1>a, <2>1, <2>3 DEF Rotations
    <3> QED BY <1>0, <2>2, <3>1, <3>2 DEF ShortestOverlap
  <2>4. CASE k = target[r]
    <3>1. expires'[k] = Least(expires[k], until[r])
      BY <1>3, <2>4 DEF Rotates, TypeOK
    <3>2. Rotations(k)' = Rotations(k) \cup {r}
      BY <2>1, <2>4 DEF Rotations
    <3>3. until[r] \in Nat /\ \A s \in Requests : audit[s].until \in Nat
      BY DEF TypeOK, Entry
    <3>4. CASE Rotations(k) = {}
      <4>1. expires'[k] = until[r]
        BY <1>0, <3>1, <3>4 DEF ShortestOverlap, Least
      <4> QED BY <2>1, <3>2, <3>3, <3>4, <4>1 DEF ShortestOverlap
    <3>5. CASE Rotations(k) # {}
      <4>1. PICK q \in Rotations(k) : expires[k] = audit[q].until
        BY <1>0, <3>5 DEF ShortestOverlap
      <4>2. /\ \A s \in Rotations(k) : expires[k] <= audit[s].until
            /\ expires[k] \in Nat /\ q \in Requests
            /\ \A s \in Rotations(k) : s \in Requests
        BY <1>0, <3>3, <3>5, <4>1 DEF ShortestOverlap, Rotations
      <4>3. CASE until[r] < expires[k]
        <5>1. expires'[k] = until[r]
          BY <3>1, <4>3 DEF Least
        <5>2. \A s \in Rotations(k)' : expires'[k] <= audit'[s].until
          BY <2>1, <2>2, <3>2, <3>3, <4>2, <4>3, <5>1
        <5> QED BY <2>1, <3>2, <5>1, <5>2 DEF ShortestOverlap
      <4>4. CASE ~(until[r] < expires[k])
        <5>1. expires'[k] = expires[k]
          BY <3>1, <4>2, <4>4, NamesAssumption DEF Least
        <5>2. \A s \in Rotations(k)' : expires'[k] <= audit'[s].until
          BY <2>1, <2>2, <3>2, <3>3, <4>2, <4>4, <5>1
        <5>3. q \in Rotations(k)' /\ expires'[k] = audit'[q].until
          BY <2>2, <3>2, <4>1, <5>1
        <5> QED BY <5>2, <5>3 DEF ShortestOverlap
      <4> QED BY <4>3, <4>4
    <3> QED BY <3>4, <3>5
  <2> QED BY <2>3, <2>4
<1> QED BY <1>1, <1>2, <1>3, Writes

\* Every step of every request keeps the trail in line with the rows.
LEMMA TrailStep == TypeOK /\ IInv /\ Trail /\ [Next]_vars => Trail'
<1> SUFFICES ASSUME TypeOK, IInv, Trail, [Next]_vars PROVE Trail'
  OBVIOUS
<1>1. ASSUME NEW r \in Requests, Act(r) PROVE Trail'
  BY <1>1, PendingStep, OwnEntryStep, OneRevocationStep, ShortestOverlapStep
     DEF Trail
<1>2. CASE Tick \/ UNCHANGED vars
  BY <1>2 DEF Tick, vars, rows, inputs, Trail, Pending, OwnEntry,
              OneRevocation, ShortestOverlap, Past, Issued, Revocations,
              Rotations
<1> QED BY <1>1, <1>2 DEF Next, AllServed, Act

\* The trail is in line with the rows in every reachable state.
LEMMA TrailHolds == Spec => []Trail
BY TrailInit, TrailStep, InvariantsHold, PTL DEF Spec

-----------------------------------------------------------------------------
\* A change of the keys and its entry commit together: each issued key has
\* the entry of the request that issued it, each revoked key exactly one
\* revocation, however many requests revoke it (db audited.ts,
\* api-key.service.ts).
THEOREM TruthfulAudit == Spec => []AuditTellsTheTruth
<1>1. Trail => AuditTellsTheTruth
  <2> SUFFICES ASSUME Trail PROVE AuditTellsTheTruth
    OBVIOUS
  <2>1. ASSUME NEW k \in Keys
        PROVE  Cardinality(Revocations(k)) =
                 IF status[k] = "revoked" THEN 1 ELSE 0
    <3>1. OneRevocation(k)
      BY DEF Trail
    <3>2. CASE status[k] = "revoked"
      <4>1. PICK r \in Revocations(k) : Revocations(k) = {r}
        BY <3>1, <3>2 DEF OneRevocation
      <4>2. Cardinality(Revocations(k)) = 1
        BY <4>1, FS_Singleton
      <4> QED BY <3>2, <4>2
    <3>3. CASE status[k] # "revoked"
      BY <3>1, <3>3, FS_EmptySet DEF OneRevocation
    <3> QED BY <3>2, <3>3
  <2> QED BY <2>1 DEF AuditTellsTheTruth, Trail, OwnEntry
<1> QED BY <1>1, TrailHolds, PTL

\* A rotated key ends with the earliest overlap on record, and a key that was
\* never rotated has no end (api-key.repository.ts expireBy).
THEOREM EarliestOverlap == Spec => []OverlapIsHonoured
<1>1. Trail => OverlapIsHonoured
  BY DEF Trail, ShortestOverlap, OverlapIsHonoured
<1> QED BY <1>1, TrailHolds, PTL
=============================================================================
