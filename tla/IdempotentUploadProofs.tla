---------------------- MODULE IdempotentUploadProofs ----------------------
(***************************************************************************)
(* Proofs about IdempotentUpload for every set of requests, keys and       *)
(* payloads and every number of expiries.  Each invariant is stated with   *)
(* the strengthening that makes it inductive; the five of them build on    *)
(* each other: types, claims, transactions, creates, replays; from them    *)
(* follows that an upload implements IdempotentCreate.                     *)
(***************************************************************************)
EXTENDS IdempotentUploadRefinement, TLAPS

-----------------------------------------------------------------------------
(***************************************************************************)
(* Types of the helpers the actions share.                                 *)
(***************************************************************************)
\* Answering a request (HTTP response) leaves a label and an answer of their types.
LEMMA ReplyType ==
  ASSUME TypeOK, NEW r \in Requests,
         NEW code \in ErrorCode \cup {"none", "created", "replayed"},
         NEW asset \in Requests \cup {None},
         Reply(r, code, asset)
  PROVE  /\ pc' = [pc EXCEPT ![r] = "done"]
         /\ pc' \in [Requests -> Pc]
         /\ answer' \in [Requests -> Answer]
BY DEF Reply, Goto, TypeOK, Pc, Answer

\* A thrown error (run's catch) goes on to release a keyed request's row, or answers.
LEMMA ThrowType ==
  ASSUME TypeOK, NEW r \in Requests, NEW code \in ErrorCode, Throw(r, code)
  PROVE  /\ \/ pc' = [pc EXCEPT ![r] = "release"] /\ keyOf[r] \in Keys
            \/ pc' = [pc EXCEPT ![r] = "done"]
         /\ pc' \in [Requests -> Pc]
         /\ answer' \in [Requests -> Answer]
         /\ error' \in [Requests -> ErrorCode \cup {"none"}]
<1>1. CASE Keyed(r)
  BY <1>1 DEF Throw, Goto, Keyed, TypeOK, Pc, RunPc, WorkPc
<1>2. CASE ~Keyed(r)
  BY <1>2, ReplyType DEF Throw, TypeOK
<1> QED BY <1>1, <1>2

\* A rolled back transaction (transaction.ts) leaves no staged rows.
LEMMA RollbackType ==
  ASSUME TypeOK, NEW r \in Requests, Rollback(r)
  PROVE  staged' \in [Requests -> UploadRows]
BY DEF TypeOK, Rollback, UploadRows, NoRows

\* The absence of a row is one of the values a key's row takes.
LEMMA NoRowType == NoRow \in Row
BY DEF Row, NoRow

\* Every statement of idempotency.repository.ts leaves rows of their type.
LEMMA RowTypes ==
  ASSUME keyRow \in [Keys -> Row], NEW k \in Keys
  PROVE  /\ DeleteExpiredRow(k) => keyRow' \in [Keys -> Row]
         /\ ReleaseRow(k) => keyRow' \in [Keys -> Row]
         /\ ExpireRow(k) => keyRow' \in [Keys -> Row]
         /\ \A r \in Requests, h \in Payloads \cup {None} :
              InsertRow(k, r, h) => keyRow' \in [Keys -> Row]
         /\ \A a \in Requests : CompleteRow(k, a) => keyRow' \in [Keys -> Row]
<1>1. DeleteExpiredRow(k) => keyRow' \in [Keys -> Row]
  BY NoRowType DEF DeleteExpiredRow
<1>2. ReleaseRow(k) => keyRow' \in [Keys -> Row]
  BY NoRowType DEF ReleaseRow
<1>3. ExpireRow(k) => keyRow' \in [Keys -> Row]
  <2>1. [keyRow[k] EXCEPT !.expired = TRUE] \in Row
    BY DEF Row
  <2>2. ExpireRow(k) =>
          keyRow' = [keyRow EXCEPT ![k] = [keyRow[k] EXCEPT !.expired = TRUE]]
    BY DEF ExpireRow
  <2> QED BY <2>1, <2>2
<1>4. ASSUME NEW r \in Requests, NEW h \in Payloads \cup {None}, InsertRow(k, r, h)
      PROVE  keyRow' \in [Keys -> Row]
  BY <1>4 DEF InsertRow, Row
<1>5. ASSUME NEW a \in Requests, CompleteRow(k, a)
      PROVE  keyRow' \in [Keys -> Row]
  <2>1. [keyRow[k] EXCEPT !.status = "completed", !.asset = a] \in Row
    BY DEF Row
  <2> QED BY <1>5, <2>1 DEF CompleteRow
<1> QED BY <1>1, <1>2, <1>3, <1>4, <1>5

-----------------------------------------------------------------------------
(***************************************************************************)
(* Type correctness of the upload path (idempotency.service.ts run and     *)
(* asset.service.ts upload): every request stays in the labels, rows and   *)
(* answers declared for it.                                                *)
(***************************************************************************)
LEMMA TypeStep == TypeOK /\ [Next]_vars => TypeOK'
<1> SUFFICES ASSUME TypeOK, [Next]_vars PROVE TypeOK'
  OBVIOUS
<1> USE DEF Pc, RunPc, WorkPc, TxPc, KeyedPc, ErrorCode, inputs, local
<1>1. ASSUME NEW r \in Requests, Arrive(r) PROVE TypeOK'
  <2>1. PICK k \in Keys \cup {NoKey, Malformed} :
          /\ keyOf' = [keyOf EXCEPT ![r] = k]
          /\ \E p \in Payloads : payloadOf' = [payloadOf EXCEPT ![r] = p]
          /\ \/ Reply(r, "validation_failed", None)
             \/ pc' = [pc EXCEPT ![r] = "inspect"] /\ UNCHANGED answer
             \/ /\ pc' = [pc EXCEPT ![r] = "claim_delete"]
                /\ k \in Keys /\ UNCHANGED answer
          /\ UNCHANGED <<keyRow, life, error, staged, assets, objects, expiries>>
    BY <1>1 DEF Arrive, Goto
  <2>2. pc' \in [Requests -> Pc] /\ answer' \in [Requests -> Answer]
    BY <2>1, ReplyType DEF TypeOK
  <2>3. \A s \in Requests : pc'[s] \in KeyedPc => keyOf'[s] \in Keys
    BY <2>1, ReplyType DEF TypeOK
  <2>4. /\ keyOf' \in [Requests -> Keys \cup {NoKey, Malformed}]
        /\ payloadOf' \in [Requests -> Payloads \cup {None}]
    BY <2>1 DEF TypeOK
  <2> QED BY <2>1, <2>2, <2>3, <2>4 DEF TypeOK
<1>2. ASSUME NEW r \in Requests,
             ClaimDelete(r) \/ ClaimInsert(r) \/ ClaimFails(r) \/ Find(r)
      PROVE  TypeOK'
  <2>1. CASE ClaimDelete(r)
    BY <2>1, RowTypes DEF ClaimDelete, Goto, TypeOK
  <2>2. CASE ClaimInsert(r)
    <3>1. keyOf[r] \in Keys /\ payloadOf[r] \in Payloads \cup {None}
      BY <2>2 DEF ClaimInsert, TypeOK
    <3>2. keyRow' \in [Keys -> Row] /\ life' \in [Requests -> Nat]
      BY <2>2, <3>1, RowTypes DEF ClaimInsert, TypeOK
    <3> QED BY <2>2, <3>2 DEF ClaimInsert, Goto, TypeOK
  <2>3. CASE ClaimFails(r)
    <3>1. keyRow' \in [Keys -> Row]
      BY <2>3, RowTypes DEF ClaimFails, TypeOK
    <3> QED BY <2>3, <3>1, ReplyType DEF ClaimFails, TypeOK
  <2>4. CASE Find(r)
    <3>1. keyRow[keyOf[r]].asset \in Requests \cup {None}
      BY <2>4 DEF Find, TypeOK, Row
    <3> QED BY <2>4, <3>1, ReplyType DEF Find, Goto, TypeOK
  <2> QED BY <1>2, <2>1, <2>2, <2>3, <2>4
<1>3. ASSUME NEW r \in Requests,
             \/ Inspect(r) \/ InsertRows(r) \/ Put(r) \/ PutFails(r)
             \/ Activate(r) \/ TxFails(r)
      PROVE  TypeOK'
  <2>1. CASE Inspect(r)
    BY <2>1, ThrowType DEF Inspect, Goto, TypeOK
  <2>2. CASE InsertRows(r)
    BY <2>2 DEF InsertRows, Goto, TypeOK, UploadRows
  <2>3. CASE Put(r)
    BY <2>3 DEF Put, Goto, TypeOK
  <2>4. CASE PutFails(r)
    BY <2>4, ThrowType, RollbackType DEF PutFails, TypeOK
  <2>5. CASE Activate(r)
    BY <2>5 DEF Activate, Goto, TypeOK, UploadRows
  <2>6. CASE TxFails(r)
    BY <2>6, ThrowType, RollbackType DEF TxFails, TypeOK
  <2> QED BY <1>3, <2>1, <2>2, <2>3, <2>4, <2>5, <2>6
<1>4. ASSUME NEW r \in Requests, Commit(r) \/ CommitUnacked(r)
      PROVE  TypeOK'
  <2>1. CASE Commit(r)
    <3>1. /\ assets' \in [Requests -> UploadRows]
          /\ staged' \in [Requests -> UploadRows]
          /\ UNCHANGED <<keyRow, local, objects, expiries>>
      BY <2>1, RollbackType DEF Commit, TypeOK
    <3>2. CASE Keyed(r)
      BY <2>1, <3>1, <3>2 DEF Commit, Goto, Keyed, TypeOK
    <3>3. CASE ~Keyed(r)
      BY <2>1, <3>1, <3>3, ReplyType DEF Commit, TypeOK
    <3> QED BY <3>2, <3>3
  <2>2. CASE CommitUnacked(r)
    BY <2>2, ThrowType, RollbackType DEF CommitUnacked, TypeOK
  <2> QED BY <1>4, <2>1, <2>2
<1>5. ASSUME NEW r \in Requests,
             Complete(r) \/ CompleteFails(r) \/ Release(r) \/ ReleaseFails(r)
      PROVE  TypeOK'
  <2>1. CASE Complete(r)
    BY <2>1, ReplyType, RowTypes DEF Complete, TypeOK
  <2>2. CASE CompleteFails(r)
    BY <2>2, ThrowType, RowTypes DEF CompleteFails, TypeOK
  <2>3. CASE Release(r)
    BY <2>3, ReplyType, RowTypes DEF Release, TypeOK
  <2>4. CASE ReleaseFails(r)
    BY <2>4, ReplyType, RowTypes DEF ReleaseFails, TypeOK
  <2> QED BY <1>5, <2>1, <2>2, <2>3, <2>4
<1>6. ASSUME NEW r \in Requests, Crash(r) PROVE TypeOK'
  BY <1>6, RollbackType DEF Crash, Goto, TypeOK
<1>7. ASSUME NEW k \in Keys, Expire(k) PROVE TypeOK'
  BY <1>7, RowTypes DEF Expire, TypeOK
<1>8. CASE UNCHANGED vars
  BY <1>8 DEF vars, TypeOK
<1> QED BY <1>1, <1>2, <1>3, <1>4, <1>5, <1>6, <1>7, <1>8
        DEF Next, Step, ServerStep, GuardedStep, LateFault, StorageStep,
            AllServed

\* Every variable keeps its type on the upload path, for every set of requests.
THEOREM TypeCorrect == Spec => []TypeOK
<1>1. Init => TypeOK
  BY NoRowType DEF Init, KeysInit, TypeOK, Pc, KeyedPc, NoRows, UploadRows,
                   NoAnswer, Answer
<1> QED BY <1>1, TypeStep, PTL DEF Spec
-----------------------------------------------------------------------------
(***************************************************************************)
(* Claims.  complete, release and the DELETE of an expired row name a row  *)
(* by its key only, so exclusiveness rests on whose row it is: whoever     *)
(* works under a key is the one that inserted the key's row, and that row  *)
(* has not expired.                                                        *)
(***************************************************************************)
HolderOwnsRow ==
  \A r \in Requests : Holds(r) =>
    keyRow[keyOf[r]].owner = r /\ ~keyRow[keyOf[r]].expired

(***************************************************************************)
(* A step of one request leaves what belongs to another request alone, and *)
(* touches no row but that of its own key.                                 *)
(***************************************************************************)
Act(r) == Arrive(r) \/ Step(r) \/ Crash(r)

SameAs(s) ==
  /\ pc'[s] = pc[s] /\ keyOf'[s] = keyOf[s] /\ payloadOf'[s] = payloadOf[s]
  /\ life'[s] = life[s] /\ staged'[s] = staged[s] /\ assets'[s] = assets[s]
  /\ answer'[s] = answer[s]

\* A step of one request (a service call) leaves another request's part alone.
LEMMA Frame ==
  ASSUME TypeOK, NEW r \in Requests, NEW s \in Requests \ {r}, Act(r)
  PROVE  SameAs(s)
<1> USE DEF TypeOK, SameAs, Goto, Reply, Throw, Rollback, inputs, local
<1>1. ASSUME Arrive(r) PROVE SameAs(s)
  BY <1>1 DEF Arrive
<1>2. ASSUME ClaimDelete(r) \/ ClaimInsert(r) \/ ClaimFails(r) \/ Find(r)
      PROVE  SameAs(s)
  BY <1>2 DEF ClaimDelete, ClaimInsert, ClaimFails, Find
<1>3. ASSUME \/ Inspect(r) \/ InsertRows(r) \/ Put(r) \/ PutFails(r)
             \/ Activate(r)
      PROVE  SameAs(s)
  BY <1>3 DEF Inspect, InsertRows, Put, PutFails, Activate
<1>4. ASSUME Commit(r) \/ CommitUnacked(r) \/ TxFails(r) PROVE SameAs(s)
  BY <1>4 DEF Commit, CommitUnacked, TxFails
<1>5. ASSUME \/ Complete(r) \/ CompleteFails(r) \/ Release(r)
             \/ ReleaseFails(r) \/ Crash(r)
      PROVE  SameAs(s)
  BY <1>5 DEF Complete, CompleteFails, Release, ReleaseFails, Crash
<1> QED BY <1>1, <1>2, <1>3, <1>4, <1>5
    DEF Act, Step, ServerStep, GuardedStep, LateFault, StorageStep

(***************************************************************************)
(* What a step of r may do to the row of its key, and the label it needs   *)
(* for it.                                                                 *)
(***************************************************************************)
RowChange(r) ==
  \/ UNCHANGED keyRow
  \/ pc[r] = "claim_delete" /\ DeleteExpiredRow(keyOf[r])
  \/ pc[r] = "claim_insert" /\ InsertRow(keyOf[r], r, payloadOf[r])
  \/ pc[r] = "complete" /\ CompleteRow(keyOf[r], r)
  \/ pc[r] = "release" /\ ReleaseRow(keyOf[r])

\* Only the four statements of idempotency.repository.ts change a key's row.
LEMMA RowFrame ==
  ASSUME NEW r \in Requests, Act(r)
  PROVE  RowChange(r)
BY DEF Act, Step, ServerStep, GuardedStep, LateFault, StorageStep, RowChange,
       Arrive, ClaimDelete, ClaimInsert, ClaimFails, Find, Inspect, InsertRows,
       Put, PutFails, Activate, Commit, CommitUnacked, TxFails, Complete,
       CompleteFails, Release, ReleaseFails, Crash

(***************************************************************************)
(* A request works under a key because it just claimed it or because it    *)
(* did before, and then it keeps the row.                                  *)
(***************************************************************************)
LEMMA HolderSource ==
  ASSUME TypeOK, NEW r \in Requests, Act(r), Holds(r)'
  PROVE  /\ keyOf'[r] = keyOf[r] /\ keyOf[r] \in Keys
         /\ \/ InsertRow(keyOf[r], r, payloadOf[r])
            \/ Holds(r) /\ UNCHANGED keyRow
            \/ Holds(r) /\ CompleteRow(keyOf[r], r)
<1> DEFINE Goal == /\ keyOf'[r] = keyOf[r] /\ keyOf[r] \in Keys
                   /\ \/ InsertRow(keyOf[r], r, payloadOf[r])
                      \/ Holds(r) /\ UNCHANGED keyRow
                      \/ Holds(r) /\ CompleteRow(keyOf[r], r)
<1> USE DEF Goto, Reply, Throw, Holds, Keyed, TypeOK, WorkPc, TxPc, Pc,
            RunPc, KeyedPc, inputs, local
<1>1. ASSUME Arrive(r) PROVE Goal
  BY <1>1, KeyAssumption DEF Arrive
<1>2. ASSUME ClaimDelete(r) \/ ClaimInsert(r) \/ ClaimFails(r) \/ Find(r)
      PROVE  Goal
  BY <1>2 DEF ClaimDelete, ClaimInsert, ClaimFails, Find
<1>3. ASSUME \/ Inspect(r) \/ InsertRows(r) \/ Put(r) \/ PutFails(r)
             \/ Activate(r)
      PROVE  Goal
  BY <1>3 DEF Inspect, InsertRows, Put, PutFails, Activate
<1>4. ASSUME Commit(r) \/ CommitUnacked(r) \/ TxFails(r) PROVE Goal
  BY <1>4 DEF Commit, CommitUnacked, TxFails
<1>5. ASSUME \/ Complete(r) \/ CompleteFails(r) \/ Release(r)
             \/ ReleaseFails(r) \/ Crash(r)
      PROVE  Goal
  BY <1>5 DEF Complete, CompleteFails, Release, ReleaseFails, Crash
<1> QED BY <1>1, <1>2, <1>3, <1>4, <1>5
    DEF Act, Step, ServerStep, GuardedStep, LateFault, StorageStep

\* Whoever works under a key owns its row: every step of run preserves it.
LEMMA ClaimStep ==
  TypeOK /\ HolderOwnsRow /\ [Next]_vars => HolderOwnsRow'
<1> SUFFICES ASSUME TypeOK, HolderOwnsRow, [Next]_vars,
                    NEW h \in Requests, Holds(h)'
             PROVE  (keyRow[keyOf[h]].owner = h /\ ~keyRow[keyOf[h]].expired)'
  BY DEF HolderOwnsRow
<1> DEFINE Owns == keyRow[keyOf[h]].owner = h /\ ~keyRow[keyOf[h]].expired
<1>1. ASSUME Act(h) PROVE Owns'
  <2>1. keyOf'[h] = keyOf[h] /\ keyOf[h] \in Keys
    BY <1>1, HolderSource
  <2>2. CASE InsertRow(keyOf[h], h, payloadOf[h])
    BY <2>1, <2>2 DEF InsertRow, TypeOK
  <2>3. CASE Holds(h) /\ UNCHANGED keyRow
    BY <2>1, <2>3 DEF HolderOwnsRow
  <2>4. CASE Holds(h) /\ CompleteRow(keyOf[h], h)
    BY <2>1, <2>4 DEF HolderOwnsRow, CompleteRow, TypeOK, Row
  <2> QED BY <1>1, <2>2, <2>3, <2>4, HolderSource
<1>2. ASSUME NEW r \in Requests \ {h}, Act(r) PROVE Owns'
  <2> DEFINE k == keyOf[h]
  <2>1. /\ keyOf'[h] = k /\ k \in Keys
        /\ keyRow[k].owner = h /\ ~keyRow[k].expired
    BY <1>2, Frame DEF SameAs, Holds, Keyed, HolderOwnsRow
  <2>2. CASE keyOf[r] # k
    <3>1. keyRow'[k] = keyRow[k]
      BY <1>2, <2>1, <2>2, RowFrame
         DEF RowChange, DeleteExpiredRow, InsertRow, CompleteRow, ReleaseRow,
             TypeOK
    <3> QED BY <2>1, <3>1
  <2>3. CASE keyOf[r] = k
    <3>1. pc[r] # "release" /\ pc[r] # "complete"
      BY <2>1, <2>3 DEF HolderOwnsRow, Holds, Keyed, WorkPc
    <3>2. keyRow[k] # NoRow
      BY <2>1, NoneIsNoValue DEF NoRow
    <3>3. keyRow'[k] = keyRow[k]
      BY <1>2, <2>1, <2>3, <3>1, <3>2, RowFrame
         DEF RowChange, DeleteExpiredRow, InsertRow, TypeOK
    <3> QED BY <2>1, <3>3
  <2> QED BY <2>2, <2>3
<1>3. ASSUME NEW k \in Keys, Expire(k) PROVE Owns'
  <2>1. /\ keyOf'[h] = keyOf[h] /\ keyOf[h] \in Keys /\ pc[h] \in WorkPc
        /\ keyRow[keyOf[h]].owner = h /\ ~keyRow[keyOf[h]].expired
    BY <1>3 DEF Expire, inputs, local, Holds, Keyed, HolderOwnsRow
  <2>2. k # keyOf[h]
    BY <1>3, <2>1 DEF Expire, WorkPc, TxPc
  <2> QED BY <1>3, <2>1, <2>2 DEF Expire, ExpireRow, TypeOK
<1>4. CASE UNCHANGED vars
  BY <1>4 DEF vars, inputs, local, Holds, Keyed, HolderOwnsRow
<1> QED BY <1>1, <1>2, <1>3, <1>4 DEF Next, AllServed, Act

(***************************************************************************)
(* Two requests never work under one key at the same time                  *)
(* (idempotency.service.ts run), whatever fails.                           *)
(***************************************************************************)
THEOREM ClaimExclusion == Spec => []ClaimIsExclusive
<1>1. Init => HolderOwnsRow
  BY DEF Init, HolderOwnsRow, Holds, WorkPc, TxPc
<1>2. HolderOwnsRow => ClaimIsExclusive
  BY DEF HolderOwnsRow, ClaimIsExclusive
<1> QED BY <1>1, <1>2, ClaimStep, TypeCorrect, PTL DEF Spec

-----------------------------------------------------------------------------
(***************************************************************************)
(* Transactions.  Rows are staged before the object is stored, and become  *)
(* visible only after both: the label says how far an upload has come.     *)
(***************************************************************************)
Whole(r) == [asset |-> "processing", current |-> r, version |-> TRUE]

Staging ==
  \A r \in Requests :
    /\ pc[r] = "put" => staged[r].version
    /\ pc[r] = "activate" => staged[r].version /\ r \in objects
    /\ pc[r] = "commit" => staged[r] = Whole(r) /\ r \in objects

\* Every step of upload keeps to its order: rows, object, rows, COMMIT.
LEMMA StagingStep ==
  ASSUME TypeOK, Staging, CommittedUploadIsWhole, [Next]_vars
  PROVE  Staging' /\ CommittedUploadIsWhole'
<1> DEFINE Good(s) ==
      /\ pc[s] = "put" => staged[s].version
      /\ pc[s] = "activate" => staged[s].version /\ s \in objects
      /\ pc[s] = "commit" => staged[s] = Whole(s) /\ s \in objects
      /\ Committed(s) => assets[s] = Whole(s) /\ s \in objects
<1>0. \A s \in Requests : Good(s)
  BY DEF Staging, CommittedUploadIsWhole, Whole
<1>1. ASSUME NEW r \in Requests, Act(r)
      PROVE  \A s \in Requests : Good(s)'
  <2>1. objects \subseteq objects'
    BY <1>1 DEF Act, Step, ServerStep, GuardedStep, LateFault, StorageStep,
                Arrive, ClaimDelete, ClaimInsert, ClaimFails, Find, Inspect,
                InsertRows, Put, PutFails, Activate, Commit, CommitUnacked,
                TxFails, Complete, CompleteFails, Release, ReleaseFails, Crash
  <2>2. ASSUME NEW s \in Requests \ {r} PROVE Good(s)'
    <3>1. SameAs(s)
      BY <1>1, Frame
    <3>2. /\ pc'[s] = pc[s] /\ staged'[s] = staged[s]
          /\ assets'[s] = assets[s] /\ life'[s] = life[s]
      BY <3>1 DEF SameAs
    <3>3. Good(s)
      BY <1>0
    <3> QED BY <2>1, <3>2, <3>3 DEF Committed, Whole
  <2>3. Good(r)'
    <3> USE <1>0 DEF TypeOK, Goto, Reply, Throw, Rollback, Committed, Whole,
                     NoRows, inputs, local
    <3>1. ASSUME \/ Arrive(r) \/ ClaimDelete(r) \/ ClaimInsert(r)
                 \/ ClaimFails(r) \/ Find(r) \/ Inspect(r)
          PROVE  Good(r)'
      <4>1. CASE Arrive(r)
        BY <4>1 DEF Arrive
      <4>2. CASE ClaimDelete(r) \/ ClaimInsert(r) \/ ClaimFails(r)
        BY <4>2 DEF ClaimDelete, ClaimInsert, ClaimFails
      <4>3. CASE Find(r)
        BY <4>3 DEF Find
      <4>4. CASE Inspect(r)
        BY <4>4 DEF Inspect
      <4> QED BY <3>1, <4>1, <4>2, <4>3, <4>4
    <3>2. ASSUME InsertRows(r) PROVE Good(r)'
      BY <3>2 DEF InsertRows
    <3>3. ASSUME Put(r) \/ PutFails(r) PROVE Good(r)'
      BY <3>3 DEF Put, PutFails
    <3>4. ASSUME Activate(r) PROVE Good(r)'
      BY <3>4 DEF Activate
    <3>5. ASSUME Commit(r) \/ CommitUnacked(r) \/ TxFails(r) PROVE Good(r)'
      <4>1. CASE Commit(r)
        BY <4>1 DEF Commit
      <4>2. CASE CommitUnacked(r)
        BY <4>2 DEF CommitUnacked
      <4>3. CASE TxFails(r)
        BY <4>3 DEF TxFails
      <4> QED BY <3>5, <4>1, <4>2, <4>3
    <3>6. ASSUME \/ Complete(r) \/ CompleteFails(r) \/ Release(r)
                 \/ ReleaseFails(r) \/ Crash(r)
          PROVE  Good(r)'
      BY <3>6 DEF Complete, CompleteFails, Release, ReleaseFails, Crash
    <3> QED BY <1>1, <3>1, <3>2, <3>3, <3>4, <3>5, <3>6
        DEF Act, Step, ServerStep, GuardedStep, LateFault, StorageStep
  <2> QED BY <2>2, <2>3
<1>2. ASSUME NEW k \in Keys, Expire(k) PROVE \A s \in Requests : Good(s)'
  BY <1>0, <1>2 DEF Expire, Committed
<1>3. ASSUME UNCHANGED vars PROVE \A s \in Requests : Good(s)'
  BY <1>0, <1>3 DEF vars, Committed
<1>4. \A s \in Requests : Good(s)'
  BY <1>1, <1>2, <1>3 DEF Next, AllServed, Act
<1> QED BY <1>4 DEF Staging, CommittedUploadIsWhole, Whole

(***************************************************************************)
(* A committed asset points at its own ready version, whose object is in   *)
(* the store, whatever fails and in whatever order (asset.service.ts       *)
(* upload).                                                                *)
(***************************************************************************)
THEOREM UploadWholeness == Spec => []CommittedUploadIsWhole
<1>1. Init => Staging /\ CommittedUploadIsWhole
  BY DEF Init, Staging, CommittedUploadIsWhole, Committed
<1> QED BY <1>1, StagingStep, TypeCorrect, PTL DEF Spec

-----------------------------------------------------------------------------
(***************************************************************************)
(* Creates.  When neither COMMIT nor complete can be reported as failed    *)
(* after it took effect, a committed upload never goes through the release *)
(* of its key: the row it claimed stays until it expires, so nobody else   *)
(* claims the key in that life of it.                                      *)
(***************************************************************************)
NoLateFault == Faults \cap {"commit_unacked", "complete"} = {}

CreateKeepsRow ==
  \A r \in Requests :
    /\ Holds(r) => life[r] = expiries[keyOf[r]]
    /\ Committed(r) => pc[r] \in {"complete", "done", "crashed"}
    /\ Committed(r) /\ Keyed(r) =>
         /\ life[r] <= expiries[keyOf[r]]
         /\ life[r] = expiries[keyOf[r]] =>
              keyRow[keyOf[r]].owner = r /\ ~keyRow[keyOf[r]].expired
    /\ Failed(r) => ~Committed(r) /\ pc[r] = "done"

CreateInv == HolderOwnsRow /\ CreateKeepsRow /\ AtMostOncePerKey

(***************************************************************************)
(* A step commits r's upload only from the label "commit".                 *)
(***************************************************************************)
LEMMA CommitSource ==
  ASSUME TypeOK, NoLateFault, NEW r \in Requests, Act(r)
  PROVE  \/ assets'[r] = assets[r]
         \/ Commit(r)
BY DEF Act, Step, ServerStep, GuardedStep, LateFault, StorageStep, Arrive,
       ClaimDelete, ClaimInsert, ClaimFails, Find, Inspect, InsertRows, Put,
       PutFails, Activate, CommitUnacked, TxFails, Complete, CompleteFails,
       Release, ReleaseFails, Crash, NoLateFault

\* Only time expires a row: no step of a request counts an expiry.
LEMMA ExpiriesFrame ==
  ASSUME NEW r \in Requests, Act(r)
  PROVE  UNCHANGED expiries
BY DEF Act, Step, ServerStep, GuardedStep, LateFault, StorageStep, Arrive,
       ClaimDelete, ClaimInsert, ClaimFails, Find, Inspect, InsertRows, Put,
       PutFails, Activate, Commit, CommitUnacked, TxFails, Complete,
       CompleteFails, Release, ReleaseFails, Crash

(***************************************************************************)
(* The four facts of CreateKeepsRow, for one request.                      *)
(***************************************************************************)
Keeps(r) ==
  /\ Holds(r) => life[r] = expiries[keyOf[r]]
  /\ Committed(r) => pc[r] \in {"complete", "done", "crashed"}
  /\ Committed(r) /\ Keyed(r) =>
       /\ life[r] <= expiries[keyOf[r]]
       /\ life[r] = expiries[keyOf[r]] =>
            keyRow[keyOf[r]].owner = r /\ ~keyRow[keyOf[r]].expired
  /\ Failed(r) => ~Committed(r) /\ pc[r] = "done"

\* A step of r preserves what another request s relies on after its create.
LEMMA KeepsOther ==
  ASSUME TypeOK, CreateInv, NEW r \in Requests, NEW s \in Requests \ {r},
         Act(r)
  PROVE  Keeps(s)'
<1>1. SameAs(s) /\ UNCHANGED expiries /\ Keeps(s)
  BY Frame, ExpiriesFrame DEF CreateInv, CreateKeepsRow, Keeps
<1>2. ASSUME Committed(s), Keyed(s), life[s] = expiries[keyOf[s]]
      PROVE  keyRow'[keyOf[s]] = keyRow[keyOf[s]] \/
             (keyRow'[keyOf[s]].owner = s /\ ~keyRow'[keyOf[s]].expired)
  <2> DEFINE k == keyOf[s]
  <2>1. k \in Keys /\ keyRow[k].owner = s /\ ~keyRow[k].expired
    BY <1>1, <1>2 DEF Keeps, Keyed
  <2>2. keyRow[k] # NoRow
    BY <2>1, NoneIsNoValue DEF NoRow
  <2>3. ~(pc[r] = "release" /\ keyOf[r] = k)
    BY <2>1 DEF CreateInv, HolderOwnsRow, Holds, Keyed, WorkPc
  <2>4. ~(pc[r] = "complete" /\ keyOf[r] = k)
    BY <2>1 DEF CreateInv, HolderOwnsRow, Holds, Keyed, WorkPc
  <2> QED BY <2>1, <2>2, <2>3, <2>4, RowFrame
             DEF RowChange, DeleteExpiredRow, InsertRow, CompleteRow,
                 ReleaseRow, TypeOK
<1> QED BY <1>1, <1>2 DEF Keeps, SameAs, Committed, Keyed, Holds, Failed

\* A step of r preserves what r relies on after its create.
LEMMA KeepsSelf ==
  ASSUME TypeOK, CreateInv, NoLateFault, NEW r \in Requests, Act(r)
  PROVE  Keeps(r)'
<1> USE DEF Goto, Reply, Throw, Rollback, inputs, local, Keeps, Committed,
            Keyed, Holds, Failed, TypeOK, KeyedPc, WorkPc, TxPc
<1>1. Keeps(r) /\ UNCHANGED expiries
  BY ExpiriesFrame DEF CreateInv, CreateKeepsRow
<1>2. ASSUME Arrive(r) PROVE Keeps(r)'
  BY <1>1, <1>2, KeyAssumption DEF Arrive
<1>3. ASSUME ClaimDelete(r) \/ ClaimInsert(r) \/ ClaimFails(r) \/ Find(r)
      PROVE  Keeps(r)'
  BY <1>1, <1>3 DEF ClaimDelete, ClaimInsert, ClaimFails, Find, ErrorCode
<1>4. ASSUME \/ Inspect(r) \/ InsertRows(r) \/ Put(r) \/ PutFails(r)
             \/ Activate(r) \/ TxFails(r)
      PROVE  Keeps(r)'
  BY <1>1, <1>4
     DEF Inspect, InsertRows, Put, PutFails, Activate, TxFails, ErrorCode
<1>5. ASSUME Commit(r) PROVE Keeps(r)'
  <2>1. Keyed(r) => keyRow[keyOf[r]].owner = r /\ ~keyRow[keyOf[r]].expired
    BY <1>5 DEF Commit, CreateInv, HolderOwnsRow
  <2> QED BY <1>1, <1>5, <2>1 DEF Commit, ErrorCode
<1>6. ASSUME Complete(r) PROVE Keeps(r)'
  <2>1. /\ pc' = [pc EXCEPT ![r] = "done"] /\ ~Failed(r)'
        /\ UNCHANGED <<keyOf, life, assets>>
    BY <1>6 DEF Complete, ErrorCode
  <2>2. Keyed(r) => keyRow[keyOf[r]].owner = r /\ ~keyRow[keyOf[r]].expired
    BY <1>6 DEF Complete, CreateInv, HolderOwnsRow
  <2>3. Keyed(r) => keyRow'[keyOf[r]].owner = r /\ ~keyRow'[keyOf[r]].expired
    BY <1>6, <2>2 DEF Complete, CompleteRow, Row
  <2> QED BY <1>1, <2>1, <2>3
<1>7. ASSUME Release(r) \/ ReleaseFails(r) \/ Crash(r) PROVE Keeps(r)'
  BY <1>1, <1>7 DEF Release, ReleaseFails, Crash, ErrorCode, RunPc
<1> QED BY <1>2, <1>3, <1>4, <1>5, <1>6, <1>7
        DEF Act, Step, ServerStep, GuardedStep, LateFault, StorageStep,
            CommitUnacked, CompleteFails, NoLateFault

\* A request keeps its key and its life once it is past the claim.
LEMMA InputsFrame ==
  ASSUME NEW r \in Requests, Act(r), pc[r] \notin {"idle", "claim_insert"}
  PROVE  UNCHANGED <<keyOf, life>>
BY DEF Act, Step, ServerStep, GuardedStep, LateFault, StorageStep, Arrive,
       ClaimDelete, ClaimInsert, ClaimFails, Find, Inspect, InsertRows, Put,
       PutFails, Activate, Commit, CommitUnacked, TxFails, Complete,
       CompleteFails, Release, ReleaseFails, Crash, inputs, local

\* A step of r cannot commit a second create in one life of its key.
LEMMA NoSecondCreate ==
  ASSUME TypeOK, CreateInv, NoLateFault, NEW r \in Requests, Act(r),
         NEW q \in Requests \ {r}, Committed(r)', Committed(q)', Keyed(r)',
         keyOf'[r] = keyOf'[q], life'[r] = life'[q]
  PROVE  FALSE
<1>1. SameAs(q) /\ UNCHANGED expiries
  BY Frame, ExpiriesFrame
<1>2. pc[r] \notin {"idle", "claim_insert"}
  BY CommitSource DEF Commit, CreateInv, CreateKeepsRow, Committed
<1>3. /\ UNCHANGED <<keyOf, life>> /\ Committed(q)
      /\ keyOf[r] = keyOf[q] /\ life[r] = life[q] /\ Keyed(r) /\ Keyed(q)
  BY <1>1, <1>2, InputsFrame DEF SameAs, Committed, Keyed
<1>4. CASE assets'[r] = assets[r]
  BY <1>3, <1>4 DEF CreateInv, AtMostOncePerKey, Committed
<1>5. CASE Commit(r)
  <2>1. Holds(r)
    BY <1>3, <1>5 DEF Commit, Holds, WorkPc, TxPc
  <2>2. life[r] = expiries[keyOf[r]] /\ keyRow[keyOf[r]].owner = r
    BY <2>1 DEF CreateInv, CreateKeepsRow, HolderOwnsRow
  <2>3. keyRow[keyOf[q]].owner = q
    BY <1>3, <2>2 DEF CreateInv, CreateKeepsRow
  <2> QED BY <1>3, <2>2, <2>3
<1> QED BY <1>4, <1>5, CommitSource

\* No step of a request makes two creates of one life of a key.
LEMMA AtMostOnceStep ==
  ASSUME TypeOK, CreateInv, NoLateFault, NEW r \in Requests, Act(r)
  PROVE  AtMostOncePerKey'
<1> SUFFICES ASSUME NEW p \in Requests, NEW q \in Requests \ {p},
                    (Committed(p) /\ Committed(q) /\ Keyed(p))',
                    keyOf'[p] = keyOf'[q], life'[p] = life'[q]
             PROVE  FALSE
  BY DEF AtMostOncePerKey
<1>1. CASE p = r
  BY <1>1, NoSecondCreate
<1>2. CASE q = r
  BY <1>2, NoSecondCreate DEF Keyed
<1>3. CASE p # r /\ q # r
  <2>1. SameAs(p) /\ SameAs(q)
    BY <1>3, Frame
  <2> QED BY <2>1 DEF SameAs, CreateInv, AtMostOncePerKey, Committed, Keyed
<1> QED BY <1>1, <1>2, <1>3

\* Every step of the upload path preserves the create invariant.
LEMMA CreateStep ==
  ASSUME NoLateFault
  PROVE  TypeOK /\ CreateInv /\ [Next]_vars => CreateInv'
<1> SUFFICES ASSUME TypeOK, CreateInv, [Next]_vars PROVE CreateInv'
  OBVIOUS
<1>1. HolderOwnsRow'
  BY ClaimStep DEF CreateInv
<1>2. ASSUME NEW r \in Requests, Act(r)
      PROVE  CreateKeepsRow' /\ AtMostOncePerKey'
  <2>1. \A s \in Requests : Keeps(s)'
    BY <1>2, KeepsSelf, KeepsOther
  <2>2. CreateKeepsRow'
    BY <2>1 DEF Keeps, CreateKeepsRow
  <2> QED BY <1>2, <2>2, AtMostOnceStep
<1>3. ASSUME NEW k \in Keys, Expire(k)
      PROVE  CreateKeepsRow' /\ AtMostOncePerKey'
  <2>1. AtMostOncePerKey'
    BY <1>3 DEF Expire, inputs, local, CreateInv, AtMostOncePerKey,
                Committed, Keyed
  <2>2. ASSUME NEW s \in Requests PROVE Keeps(s)'
    <3> USE DEF Keeps, Holds, Keyed, Committed, Failed, TypeOK
    <3>1. Keeps(s)
      BY DEF CreateInv, CreateKeepsRow
    <3>2. /\ UNCHANGED <<pc, keyOf, life, assets, answer>>
          /\ expiries' = [expiries EXCEPT ![k] = @ + 1]
          /\ keyRow' = [keyRow EXCEPT ![k].expired = TRUE]
      BY <1>3 DEF Expire, ExpireRow, inputs, local
    <3>3. CASE keyOf[s] # k
      BY <3>1, <3>2, <3>3
    <3>4. CASE keyOf[s] = k
      <4>1. ~Holds(s)
        BY <1>3, <3>4 DEF Expire, CreateInv, HolderOwnsRow, WorkPc, TxPc
      <4> QED BY <3>1, <3>2, <3>4, <4>1
    <3> QED BY <3>3, <3>4
  <2> QED BY <2>1, <2>2 DEF Keeps, CreateKeepsRow
<1>4. ASSUME UNCHANGED vars PROVE CreateKeepsRow' /\ AtMostOncePerKey'
  <2>1. AtMostOncePerKey'
    BY <1>4 DEF vars, inputs, local, CreateInv, AtMostOncePerKey, Keyed,
                Committed
  <2>2. CreateKeepsRow'
    BY <1>4 DEF vars, inputs, local, CreateInv, CreateKeepsRow, Holds,
                Keyed, Committed, Failed
  <2> QED BY <2>1, <2>2
<1> QED BY <1>1, <1>2, <1>3, <1>4 DEF Next, AllServed, Act, CreateInv

\* Nothing is claimed or committed before the first request arrives.
LEMMA CreateInit == Init => CreateInv
BY DEF Init, CreateInv, HolderOwnsRow, CreateKeepsRow, AtMostOncePerKey,
       Holds, WorkPc, TxPc, Committed, Failed, NoAnswer, ErrorCode

(***************************************************************************)
(* "With an Idempotency-Key, a create runs at most once per key"           *)
(* (idempotency.service.ts): true of every life of a key, as long as no    *)
(* failure is reported after the COMMIT took effect.                       *)
(***************************************************************************)
THEOREM AtMostOneCreate ==
  ASSUME NoLateFault
  PROVE  Spec => []AtMostOncePerKey
<1>1. TypeOK /\ CreateInv /\ [Next]_vars => CreateInv'
  BY CreateStep
<1>2. CreateInv => AtMostOncePerKey
  BY DEF CreateInv
<1> QED BY <1>1, <1>2, CreateInit, TypeCorrect, PTL DEF Spec

(***************************************************************************)
(* An error answer means that nothing was committed, under the same        *)
(* assumption: the client may retry (docs/API/08, "the first request       *)
(* failed").                                                               *)
(***************************************************************************)
THEOREM FailureMeansNothingCommitted ==
  ASSUME NoLateFault
  PROVE  Spec => []FailureLeavesNoRows
<1>1. TypeOK /\ CreateInv /\ [Next]_vars => CreateInv'
  BY CreateStep
<1>2. CreateInv => FailureLeavesNoRows
  BY DEF CreateInv, CreateKeepsRow, FailureLeavesNoRows
<1> QED BY <1>1, <1>2, CreateInit, TypeCorrect, PTL DEF Spec

-----------------------------------------------------------------------------
(***************************************************************************)
(* A replay is faithful: the row of a key holds the fingerprint of the     *)
(* request that works under it, so a completed row names the asset of an   *)
(* equal request that was told so.  The one assumption is that complete    *)
(* does not fail, because its failure releases a key whose response may    *)
(* have been stored.                                                       *)
(***************************************************************************)
CompleteSucceeds == "complete" \notin Faults

\* Request s created its asset under key k and was told so.
Created(s, k, payload) ==
  /\ s \in Requests /\ Committed(s)
  /\ keyOf[s] = k /\ payloadOf[s] = payload
  /\ pc[s] = "done" /\ answer[s].code = "created"

RowIsOfHolder(r) ==
  /\ Holds(r) => keyRow[keyOf[r]].hash = payloadOf[r]
  /\ pc[r] = "complete" => Committed(r)

CompletedRow(k) ==
  keyRow[k].status = "completed" =>
    Created(keyRow[k].asset, k, keyRow[k].hash)

\* Only a request that has ended was answered.
Answered(r) ==
  /\ answer[r].code # "none" => pc[r] = "done"
  /\ answer[r].code = "replayed" =>
       Created(answer[r].asset, keyOf[r], payloadOf[r])

ReplayInv ==
  /\ \A r \in Requests : RowIsOfHolder(r) /\ Answered(r)
  /\ \A k \in Keys : CompletedRow(k)

\* A request that has ended takes no further step.
LEMMA EndedStays ==
  ASSUME NEW r \in Requests, pc[r] = "done"
  PROVE  ~Act(r)
BY DEF Act, Step, ServerStep, GuardedStep, LateFault, StorageStep, Arrive,
       ClaimDelete, ClaimInsert, ClaimFails, Find, Inspect, InsertRows, Put,
       PutFails, Activate, Commit, CommitUnacked, TxFails, Complete,
       CompleteFails, Release, ReleaseFails, Crash, RunPc, WorkPc, TxPc

\* What was created stays created, whoever takes a step.
LEMMA CreatedStays ==
  ASSUME TypeOK, NEW r \in Requests, Act(r)
  PROVE  \A s \in Requests : pc[s] = "done" => SameAs(s)
BY EndedStays, Frame

\* The row of a key somebody works under is left alone by all others.
LEMMA HeldRowStays ==
  ASSUME TypeOK, HolderOwnsRow, NEW h \in Requests, Holds(h),
         NEW r \in Requests \ {h}, Act(r)
  PROVE  keyRow'[keyOf[h]] = keyRow[keyOf[h]]
<1> DEFINE k == keyOf[h]
<1>1. k \in Keys /\ keyRow[k].owner = h /\ ~keyRow[k].expired
  BY DEF Holds, Keyed, HolderOwnsRow
<1>2. keyRow[k] # NoRow
  BY <1>1, NoneIsNoValue DEF NoRow
<1>3. ~(pc[r] \in {"release", "complete"} /\ keyOf[r] = k)
  BY <1>1 DEF HolderOwnsRow, Holds, Keyed, WorkPc
<1>4. RowChange(r)
  BY RowFrame
<1>5. CASE pc[r] \in {"complete", "release"} /\ keyOf[r] # k
  <2>1. /\ keyRow \in [Keys -> Row]
        /\ \/ UNCHANGED keyRow
           \/ \E row : keyRow' = [keyRow EXCEPT ![keyOf[r]] = row]
    BY <1>4, <1>5 DEF RowChange, CompleteRow, ReleaseRow, TypeOK
  <2> QED BY <1>1, <1>5, <2>1
<1>6. CASE pc[r] \notin {"complete", "release"}
  BY <1>1, <1>2, <1>4, <1>6
     DEF RowChange, DeleteExpiredRow, InsertRow, TypeOK
<1> QED BY <1>3, <1>5, <1>6

\* A holder's row carries its fingerprint, and complete follows the COMMIT.
LEMMA RowIsOfHolderStep ==
  ASSUME TypeOK, HolderOwnsRow, Staging, ReplayInv,
         NEW r \in Requests, Act(r), NEW s \in Requests
  PROVE  RowIsOfHolder(s)'
<1>1. CASE s # r
  BY <1>1, Frame, HeldRowStays DEF ReplayInv, RowIsOfHolder, SameAs, Holds,
                                   Keyed, Committed
<1>2. CASE s = r
  <2>1. ASSUME Holds(r)' PROVE keyRow'[keyOf'[r]].hash = payloadOf'[r]
    <3>1. /\ keyOf'[r] = keyOf[r] /\ keyOf[r] \in Keys
          /\ \/ InsertRow(keyOf[r], r, payloadOf[r])
             \/ Holds(r) /\ UNCHANGED keyRow
             \/ Holds(r) /\ CompleteRow(keyOf[r], r)
      BY <2>1, HolderSource
    <3>2. payloadOf'[r] = payloadOf[r]
      <4>1. ~Arrive(r)
        BY <2>1, <3>1, KeyAssumption DEF Arrive, Holds, Keyed, WorkPc, TxPc,
           Goto, Reply, TypeOK
      <4> QED BY <4>1 DEF Act, Step, ServerStep, GuardedStep, LateFault,
                          StorageStep, ClaimDelete, ClaimInsert, ClaimFails,
                          Find, Inspect, InsertRows, Put, PutFails, Activate,
                          Commit, CommitUnacked, TxFails, Complete,
                          CompleteFails, Release, ReleaseFails, Crash, inputs,
                          local
    <3>3. CASE InsertRow(keyOf[r], r, payloadOf[r])
      BY <3>1, <3>2, <3>3 DEF InsertRow, TypeOK
    <3>4. CASE Holds(r) /\ UNCHANGED keyRow
      BY <3>1, <3>2, <3>4 DEF ReplayInv, RowIsOfHolder
    <3>5. CASE Holds(r) /\ CompleteRow(keyOf[r], r)
      BY <3>1, <3>2, <3>5
         DEF ReplayInv, RowIsOfHolder, CompleteRow, TypeOK, Row
    <3> QED BY <3>1, <3>3, <3>4, <3>5
  <2>2. ASSUME pc'[r] = "complete" PROVE Committed(r)'
    <3>1. Commit(r)
      BY <2>2 DEF Act, Step, ServerStep, GuardedStep, LateFault, StorageStep,
                  Arrive, ClaimDelete, ClaimInsert, ClaimFails, Find, Inspect,
                  InsertRows, Put, PutFails, Activate, CommitUnacked, TxFails,
                  Complete, CompleteFails, Release, ReleaseFails, Crash, Goto,
                  Reply, Throw, TypeOK
    <3>2. assets'[r] = Whole(r)
      BY <3>1 DEF Commit, Staging, TypeOK
    <3> QED BY <3>2 DEF Committed, Whole, NoRows
  <2> QED BY <1>2, <2>1, <2>2 DEF RowIsOfHolder
<1> QED BY <1>1, <1>2

\* A row is completed by the request that inserted it, which is told so in
\* the same step.
LEMMA CompletedRowStep ==
  ASSUME CompleteSucceeds, TypeOK, HolderOwnsRow, ReplayInv,
         NEW r \in Requests, Act(r), NEW k \in Keys
  PROVE  CompletedRow(k)'
<1>1. CASE keyRow'[k] = keyRow[k] \/ keyRow'[k].status # "completed"
  BY <1>1, CreatedStays DEF ReplayInv, CompletedRow, Created, SameAs, Committed
<1>2. CASE /\ keyRow'[k] # keyRow[k]
           /\ pc[r] = "complete" /\ CompleteRow(keyOf[r], r) /\ keyOf[r] = k
  <2>1. Complete(r)
    BY <1>2 DEF Act, Step, ServerStep, GuardedStep, LateFault, StorageStep,
                Arrive, ClaimDelete, ClaimInsert, ClaimFails, Find, Inspect,
                InsertRows, Put, PutFails, Activate, Commit, CommitUnacked,
                TxFails, CompleteFails, Release, ReleaseFails, Crash,
                CompleteSucceeds
  <2>2. Holds(r) /\ keyRow[k].owner = r
    BY <1>2 DEF HolderOwnsRow, Holds, Keyed, WorkPc
  <2>3. keyRow[k].hash = payloadOf[r] /\ Committed(r)
    BY <1>2, <2>2 DEF ReplayInv, RowIsOfHolder
  <2>4. keyRow[k] # NoRow
    BY <2>2, NoneIsNoValue DEF NoRow
  <2>5. keyRow'[k].asset = r /\ keyRow'[k].hash = payloadOf[r]
    BY <1>2, <2>3, <2>4 DEF CompleteRow, TypeOK, Row
  <2>6. /\ pc'[r] = "done" /\ answer'[r].code = "created"
        /\ UNCHANGED <<keyOf, payloadOf, assets>>
    BY <2>1 DEF Complete, Reply, Goto, TypeOK, inputs, local
  <2> QED BY <1>2, <2>3, <2>5, <2>6 DEF CompletedRow, Created, Committed
<1>3. CASE RowChange(r) /\ keyOf[r] # k
  BY <1>1, <1>3
     DEF RowChange, DeleteExpiredRow, InsertRow, CompleteRow, ReleaseRow,
         TypeOK
<1>4. CASE RowChange(r) /\ keyOf[r] = k
  BY <1>1, <1>2, <1>4
     DEF RowChange, DeleteExpiredRow, InsertRow, ReleaseRow, NoRow, TypeOK
<1> QED BY <1>3, <1>4, RowFrame

\* A request is answered by the step that ends it; a replay is what find read.
LEMMA AnsweredStep ==
  ASSUME TypeOK, ReplayInv, NEW r \in Requests, Act(r), NEW s \in Requests
  PROVE  Answered(s)'
<1>1. CASE s # r
  <2>1. SameAs(s) /\ Answered(s)
    BY <1>1, Frame DEF ReplayInv
  <2>2. ASSUME answer[s].code = "replayed" PROVE SameAs(answer[s].asset)
    BY <2>1, <2>2, CreatedStays DEF Answered, Created
  <2> QED BY <2>1, <2>2 DEF Answered, SameAs, Created, Committed
<1>2. CASE s = r
  <2>0. answer[r].code = "none"
    BY EndedStays DEF ReplayInv, Answered
  <2>1. CASE answer' = answer
    BY <1>2, <2>0, <2>1 DEF Answered
  <2>2. CASE Find(r) /\ answer' # answer
    <3>1. PICK code \in {"idempotency_key_reused",
                         "idempotency_request_in_progress", "replayed"} :
            /\ Reply(r, code, None) \/ Reply(r, code, keyRow[keyOf[r]].asset)
            /\ code = "replayed" =>
                 /\ Reply(r, code, keyRow[keyOf[r]].asset)
                 /\ keyRow[keyOf[r]].status = "completed"
                 /\ keyRow[keyOf[r]].hash = payloadOf[r]
      BY <2>2 DEF Find
    <3>2. pc'[r] = "done" /\ answer'[r].code = code /\ keyOf[r] \in Keys
      BY <2>2, <3>1 DEF Find, Reply, Goto, TypeOK, KeyedPc
    <3>3. UNCHANGED <<keyOf, payloadOf>>
      BY <2>2 DEF Find, inputs, local
    <3>4. CASE code = "replayed"
      <4>1. answer'[r].asset = keyRow[keyOf[r]].asset
        BY <3>1, <3>4 DEF Reply, TypeOK
      <4>2. Created(keyRow[keyOf[r]].asset, keyOf[r], payloadOf[r])
        BY <3>1, <3>2, <3>4 DEF ReplayInv, CompletedRow
      <4>3. SameAs(keyRow[keyOf[r]].asset)
        BY <4>2, CreatedStays DEF Created
      <4> QED
        BY <1>2, <3>2, <3>3, <4>1, <4>2, <4>3
           DEF Answered, Created, SameAs, Committed
    <3> QED BY <1>2, <3>1, <3>2, <3>4 DEF Answered
  <2>3. CASE ~Find(r) /\ answer' # answer
    <3>1. pc'[r] = "done" /\ answer'[r].code # "replayed"
      BY <2>3 DEF Act, Step, ServerStep, GuardedStep, LateFault, StorageStep,
                  Arrive, ClaimDelete, ClaimInsert, ClaimFails, Inspect,
                  InsertRows, Put, PutFails, Activate, Commit, CommitUnacked,
                  TxFails, Complete, CompleteFails, Release, ReleaseFails,
                  Crash, Goto, Reply, Throw, TypeOK, ErrorCode
    <3> QED BY <1>2, <3>1 DEF Answered
  <2> QED BY <2>1, <2>2, <2>3
<1> QED BY <1>1, <1>2

\* Every step of the upload path keeps completed rows and replays truthful.
LEMMA ReplayStep ==
  ASSUME CompleteSucceeds
  PROVE  TypeOK /\ HolderOwnsRow /\ Staging /\ ReplayInv /\ [Next]_vars
           => ReplayInv'
<1> SUFFICES ASSUME TypeOK, HolderOwnsRow, Staging, ReplayInv, [Next]_vars
             PROVE  ReplayInv'
  OBVIOUS
<1>1. ASSUME NEW r \in Requests, Act(r) PROVE ReplayInv'
  BY <1>1, RowIsOfHolderStep, CompletedRowStep, AnsweredStep DEF ReplayInv
<1>2. ASSUME NEW k \in Keys, Expire(k) PROVE ReplayInv'
  <2>1. /\ \A j \in Keys : /\ keyRow'[j].status = keyRow[j].status
                           /\ keyRow'[j].hash = keyRow[j].hash
                           /\ keyRow'[j].asset = keyRow[j].asset
        /\ UNCHANGED <<pc, keyOf, payloadOf, assets, answer>>
    BY <1>2 DEF Expire, ExpireRow, TypeOK, Row, inputs, local
  <2> QED BY <2>1 DEF ReplayInv, RowIsOfHolder, CompletedRow, Answered,
                      Created, Holds, Keyed, Committed
<1>3. CASE UNCHANGED vars
  BY <1>3 DEF vars, inputs, local, ReplayInv, RowIsOfHolder, CompletedRow,
              Answered, Created, Holds, Keyed, Committed
<1> QED BY <1>1, <1>2, <1>3 DEF Next, AllServed, Act

\* A replayed answer names an existing asset that another request with the
\* same key and payload created, and that request was told so or nothing
\* (idempotency.service.ts run), unless complete fails after it took effect.
THEOREM FaithfulReplay == CompleteSucceeds => (Spec => []ReplayIsFaithful)
<1> SUFFICES ASSUME CompleteSucceeds PROVE Spec => []ReplayIsFaithful
  OBVIOUS
<1>1. Init => TypeOK /\ HolderOwnsRow /\ Staging /\ CommittedUploadIsWhole
              /\ ReplayInv
  <2>1. Init => HolderOwnsRow
    BY CreateInit DEF CreateInv
  <2>2. Init => TypeOK
    BY NoRowType DEF Init, KeysInit, TypeOK, Pc, KeyedPc, NoRows, UploadRows,
                     NoAnswer, Answer
  <2> QED BY <2>1, <2>2
          DEF Init, KeysInit, NoRow, Staging, CommittedUploadIsWhole,
              ReplayInv, RowIsOfHolder, CompletedRow, Answered, Holds, WorkPc,
              TxPc, Committed, NoAnswer
<1>2. TypeOK /\ HolderOwnsRow /\ Staging /\ ReplayInv /\ [Next]_vars
        => ReplayInv'
  BY ReplayStep
<1>3. ReplayInv => ReplayIsFaithful
  <2> SUFFICES ASSUME ReplayInv, NEW r \in Requests,
                      answer[r].code = "replayed"
               PROVE  LET s == answer[r].asset IN
                        /\ s \in Requests \ {r}
                        /\ Committed(s)
                        /\ keyOf[s] = keyOf[r]
                        /\ payloadOf[s] = payloadOf[r]
                        /\ answer[s].code \in {"none", "created"}
    BY DEF ReplayIsFaithful
  <2>1. Created(answer[r].asset, keyOf[r], payloadOf[r])
    BY DEF ReplayInv, Answered
  <2> QED BY <2>1 DEF Created
<1> QED
  BY <1>1, <1>2, <1>3, TypeStep, ClaimStep, StagingStep, PTL DEF Spec

-----------------------------------------------------------------------------
(***************************************************************************)
(* The upload path implements IdempotentCreate, for every set of requests, *)
(* keys and payloads: each statement is one step of the promise, or none.  *)
(* The assumption is that of AtMostOneCreate: no failure is reported after *)
(* the COMMIT took effect.                                                 *)
(***************************************************************************)
\* What a request that has begun has, and has not yet said.
Began(r) ==
  /\ pc[r] # "idle" => payloadOf[r] \in Payloads
  /\ pc[r] = "release" => error[r] \in ErrorCode
  /\ answer[r].code = "none" => answer[r] = NoAnswer

\* The row of a key is of a request with that key, and answers with its asset.
OwnedRow(k) ==
  /\ keyRow[k].owner \in Requests =>
       pc[keyRow[k].owner] # "idle" /\ keyOf[keyRow[k].owner] = k
  /\ keyRow[k].status = "completed" => keyRow[k].asset = keyRow[k].owner

MapInv == /\ \A r \in Requests : Began(r)
          /\ \A k \in Keys : OwnedRow(k)

\* All that the mapping relies on.
Known == /\ TypeOK /\ CreateInv /\ Staging /\ CommittedUploadIsWhole
         /\ ReplayInv /\ MapInv

-----------------------------------------------------------------------------
(***************************************************************************)
(* The invariant of the mapping.                                           *)
(***************************************************************************)
\* Past its arrival a request keeps its key and payload and is never idle.
LEMMA InputsStay ==
  ASSUME TypeOK, NEW r \in Requests, Act(r), ~Arrive(r)
  PROVE  /\ UNCHANGED <<keyOf, payloadOf>>
         /\ pc[r] # "idle" /\ pc'[r] # "idle"
BY DEF Act, Step, ServerStep, GuardedStep, LateFault, StorageStep, ClaimDelete,
       ClaimInsert, ClaimFails, Find, Inspect, InsertRows, Put, PutFails,
       Activate, Commit, CommitUnacked, TxFails, Complete, CompleteFails,
       Release, ReleaseFails, Crash, inputs, local, Goto, Reply, Throw, RunPc,
       WorkPc, TxPc, TypeOK

\* A request that arrives has a payload of its own and a key, or none.
LEMMA ArriveChanges ==
  ASSUME TypeOK, NEW r \in Requests, Arrive(r)
  PROVE  /\ pc[r] = "idle" /\ pc'[r] \notin {"idle", "release"}
         /\ payloadOf'[r] \in Payloads
         /\ UNCHANGED <<keyRow, assets, error>>
BY DEF Arrive, Goto, Reply, TypeOK

\* No step of r touches the error another request will answer with.
LEMMA ErrorFrame ==
  ASSUME TypeOK, NEW r \in Requests, NEW s \in Requests \ {r}, Act(r)
  PROVE  error'[s] = error[s]
BY DEF Act, Step, ServerStep, GuardedStep, LateFault, StorageStep, Arrive,
       ClaimDelete, ClaimInsert, ClaimFails, Find, Inspect, InsertRows, Put,
       PutFails, Activate, Commit, CommitUnacked, TxFails, Complete,
       CompleteFails, Release, ReleaseFails, Crash, Throw, Reply, TypeOK, local

\* An error to be answered is one; an answer is given with its code.
LEMMA BeganStep ==
  ASSUME TypeOK, MapInv, NEW r \in Requests, Act(r), NEW s \in Requests
  PROVE  Began(s)'
<1>1. CASE s # r
  BY <1>1, Frame, ErrorFrame DEF MapInv, Began, SameAs
<1>2. CASE s = r
  <2>1. ASSUME pc'[r] # "idle" PROVE payloadOf'[r] \in Payloads
    BY <2>1, InputsStay, ArriveChanges DEF MapInv, Began
  <2>2. ASSUME pc'[r] = "release" PROVE error'[r] \in ErrorCode
    BY <2>2 DEF Act, Step, ServerStep, GuardedStep, LateFault, StorageStep,
                Arrive, ClaimDelete, ClaimInsert, ClaimFails, Find, Inspect,
                InsertRows, Put, PutFails, Activate, Commit, CommitUnacked,
                TxFails, Complete, CompleteFails, Release, ReleaseFails, Crash,
                Goto, Reply, Throw, TypeOK, ErrorCode
  <2>3. \/ answer' = answer
        \/ \E code \in ErrorCode \cup {"created", "replayed"},
              a \in Requests \cup {None} : Reply(r, code, a)
    <3> USE DEF Throw, ErrorCode
    <3>1. CASE Arrive(r) \/ ClaimDelete(r) \/ ClaimInsert(r) \/ ClaimFails(r)
      BY <3>1 DEF Arrive, ClaimDelete, ClaimInsert, ClaimFails
    <3>2. CASE Find(r)
      <4>1. keyRow[keyOf[r]].asset \in Requests \cup {None}
        BY <3>2 DEF Find, TypeOK, KeyedPc, Row
      <4> QED BY <3>2, <4>1 DEF Find
    <3>3. CASE \/ Inspect(r) \/ InsertRows(r) \/ Put(r) \/ PutFails(r)
               \/ Activate(r) \/ Commit(r) \/ CommitUnacked(r) \/ TxFails(r)
      BY <3>3 DEF Inspect, InsertRows, Put, PutFails, Activate, Commit,
                  CommitUnacked, TxFails
    <3>4. CASE \/ Complete(r) \/ CompleteFails(r) \/ Release(r)
               \/ ReleaseFails(r) \/ Crash(r)
      BY <3>4
         DEF Complete, CompleteFails, Release, ReleaseFails, Crash, MapInv,
             Began
    <3> QED BY <3>1, <3>2, <3>3, <3>4
        DEF Act, Step, ServerStep, GuardedStep, LateFault, StorageStep
  <2>4. ASSUME answer'[r].code = "none" PROVE answer'[r] = NoAnswer
    <3>1. CASE answer' = answer
      BY <2>4, <3>1 DEF MapInv, Began
    <3>2. ASSUME NEW code \in ErrorCode \cup {"created", "replayed"},
                 NEW a \in Requests \cup {None}, Reply(r, code, a)
          PROVE  FALSE
      BY <2>4, <3>2 DEF Reply, TypeOK, ErrorCode
    <3> QED BY <2>3, <3>1, <3>2
  <2> QED BY <1>2, <2>1, <2>2, <2>4 DEF Began
<1> QED BY <1>1, <1>2

\* A row is inserted for the request whose key it has, and completed by it.
LEMMA OwnedRowStep ==
  ASSUME TypeOK, HolderOwnsRow, MapInv, NEW r \in Requests, Act(r),
         NEW k \in Keys
  PROVE  OwnedRow(k)'
<1>1. ASSUME NEW s \in Requests, pc[s] # "idle"
      PROVE  pc'[s] # "idle" /\ keyOf'[s] = keyOf[s]
  BY <1>1, Frame, InputsStay, ArriveChanges DEF SameAs
<1>2. CASE keyRow'[k] = keyRow[k]
  BY <1>1, <1>2 DEF MapInv, OwnedRow
<1>3. CASE keyRow'[k] = NoRow
  BY <1>3, NoneIsNoValue DEF OwnedRow, NoRow
<1>4. CASE pc[r] = "claim_insert" /\ InsertRow(k, r, payloadOf[r])
           /\ keyOf[r] = k
  BY <1>1, <1>4 DEF OwnedRow, InsertRow, TypeOK
<1>5. CASE pc[r] = "complete" /\ CompleteRow(k, r) /\ keyOf[r] = k
  <2>1. keyRow[k].owner = r
    BY <1>5 DEF HolderOwnsRow, Holds, Keyed, WorkPc
  <2>2. keyRow'[k].owner = r /\ keyRow'[k].asset = r
    BY <1>5, <2>1, NoneIsNoValue DEF CompleteRow, TypeOK, Row, NoRow
  <2> QED BY <1>1, <1>5, <2>1, <2>2 DEF OwnedRow
<1> QED
  BY <1>2, <1>3, <1>4, <1>5, RowFrame
     DEF RowChange, DeleteExpiredRow, InsertRow, CompleteRow, ReleaseRow,
         TypeOK

\* The mapping's invariant holds after every step of the upload path.
LEMMA MapStep == TypeOK /\ HolderOwnsRow /\ MapInv /\ [Next]_vars => MapInv'
<1> SUFFICES ASSUME TypeOK, HolderOwnsRow, MapInv, [Next]_vars PROVE MapInv'
  OBVIOUS
<1>1. ASSUME NEW r \in Requests, Act(r) PROVE MapInv'
  BY <1>1, BeganStep, OwnedRowStep DEF MapInv
<1>2. ASSUME NEW k \in Keys, Expire(k) PROVE MapInv'
  <2>1. /\ \A j \in Keys : /\ keyRow'[j].owner = keyRow[j].owner
                           /\ keyRow'[j].status = keyRow[j].status
                           /\ keyRow'[j].asset = keyRow[j].asset
        /\ UNCHANGED <<pc, keyOf, payloadOf, error, answer>>
    BY <1>2 DEF Expire, ExpireRow, TypeOK, Row, inputs, local
  <2> QED BY <2>1 DEF MapInv, Began, OwnedRow
<1>3. CASE UNCHANGED vars
  BY <1>3 DEF vars, inputs, local, MapInv, Began, OwnedRow
<1> QED BY <1>1, <1>2, <1>3 DEF Next, AllServed, Act

-----------------------------------------------------------------------------
(***************************************************************************)
(* The mapped variables: what a step that leaves their sources alone does  *)
(* to them, which is nothing.                                              *)
(***************************************************************************)
\* Only an arrival asks.
LEMMA AskedStays ==
  ASSUME TypeOK, NEW r \in Requests, Act(r), ~Arrive(r)
  PROVE  askedBar' = askedBar
<1>1. \A s \in Requests : /\ (pc'[s] = "idle") <=> (pc[s] = "idle")
                          /\ keyOf'[s] = keyOf[s]
                          /\ payloadOf'[s] = payloadOf[s]
  BY InputsStay, Frame DEF SameAs
<1> QED BY <1>1 DEF askedBar

\* Only a COMMIT creates.
LEMMA CreatedSame ==
  ASSUME assets' = assets
  PROVE  createdBar' = createdBar
BY DEF createdBar, Committed

\* A client is told something by an answer only.
LEMMA ToldSame ==
  ASSUME answer' = answer
  PROVE  toldBar' = toldBar
BY DEF toldBar, Failed

\* An answer is told, an error without the reason for it.
LEMMA ToldReply ==
  ASSUME TypeOK, MapInv, NEW r \in Requests, answer[r].code = "none",
         NEW code, NEW a, Reply(r, code, a)
  PROVE  Promise!Tell(r, IF code \in ErrorCode THEN "error" ELSE code,
                         IF code \in ErrorCode THEN None ELSE a)
<1>1. answer[r] = NoAnswer
  BY DEF MapInv, Began
<1>2. toldBar[r] = Promise!Silent
  BY <1>1 DEF toldBar, Promise!Silent, NoAnswer, Failed, ErrorCode
<1>3. answer' = [answer EXCEPT ![r] = [code |-> code, asset |-> a]]
  BY DEF Reply
<1>4. toldBar' = [toldBar EXCEPT ![r] =
                    [code |-> IF code \in ErrorCode THEN "error" ELSE code,
                     asset |-> IF code \in ErrorCode THEN None ELSE a]]
  BY <1>3 DEF toldBar, Failed, TypeOK
<1> QED BY <1>2, <1>4 DEF Promise!Tell

\* A key remembers the same create while the creates of its row's owner stay.
LEMMA EffectSame ==
  ASSUME createdBar' = createdBar,
         \A k \in Keys : \/ keyRow'[k].owner = keyRow[k].owner
                         \/ /\ keyRow'[k].owner \notin createdBar
                            /\ keyRow[k].owner \notin createdBar
  PROVE  effectBar' = effectBar
BY DEF effectBar

\* A request that has asked is not silent about what it asked.
LEMMA HasAsked ==
  ASSUME MapInv, NEW r \in Requests, pc[r] # "idle"
  PROVE  /\ askedBar[r] # Promise!Unasked
         /\ askedBar[r].key = keyOf[r]
         /\ askedBar[r].payload = payloadOf[r]
<1>1. askedBar[r] = [key |-> keyOf[r], payload |-> payloadOf[r]]
  BY DEF askedBar
<1> QED BY <1>1, NoneIsNoValue DEF Promise!Unasked, MapInv, Began

-----------------------------------------------------------------------------
(***************************************************************************)
(* The steps.                                                              *)
(***************************************************************************)
\* An error answer to a request that committed nothing is one of the promise.
LEMMA ErrorRefines ==
  ASSUME Known, NEW r \in Requests, pc[r] # "idle", askedBar' = askedBar,
         ~Committed(r), answer[r].code = "none",
         NEW code \in ErrorCode, Reply(r, code, None),
         assets' = assets, effectBar' = effectBar, lapsedBar' = lapsedBar
  PROVE  Promise!AnswerError(r)
<1>1. Promise!Tell(r, "error", None)
  BY ToldReply DEF Known
<1>2. r \notin createdBar /\ createdBar' = createdBar
  BY CreatedSame DEF createdBar
<1> QED BY <1>1, <1>2, HasAsked DEF Promise!AnswerError, Known

\* Arrive is Ask, answered at once when the key is malformed.
LEMMA ArriveRefines ==
  ASSUME Known, NEW r \in Requests, Arrive(r)
  PROVE  Promise!Ask(r)
<1>1. PICK k \in Keys \cup {NoKey, Malformed}, p \in Payloads :
        /\ keyOf' = [keyOf EXCEPT ![r] = k]
        /\ payloadOf' = [payloadOf EXCEPT ![r] = p]
        /\ \/ Reply(r, "validation_failed", None)
           \/ UNCHANGED answer
  BY DEF Arrive
<1>2. pc[r] = "idle" /\ pc'[r] # "idle" /\ UNCHANGED <<keyRow, assets>>
  BY ArriveChanges DEF Known
<1>3. askedBar[r] = Promise!Unasked
  BY <1>2 DEF askedBar, Promise!Unasked
<1>4. askedBar' = [askedBar EXCEPT ![r] = [key |-> k, payload |-> p]]
  <2>1. \A s \in Requests \ {r} : SameAs(s)
    BY Frame DEF Act, Known
  <2>2. ASSUME NEW s \in Requests \ {r}
        PROVE  pc'[s] = pc[s] /\ keyOf'[s] = keyOf[s]
               /\ payloadOf'[s] = payloadOf[s]
    BY <2>1 DEF SameAs
  <2>3. keyOf'[r] = k /\ payloadOf'[r] = p
    BY <1>1 DEF Known, TypeOK
  <2> DEFINE asks == [askedBar EXCEPT ![r] = [key |-> k, payload |-> p]]
  <2>4. askedBar'[r] = asks[r]
    BY <1>2, <2>3 DEF askedBar
  <2>5. ASSUME NEW s \in Requests \ {r} PROVE askedBar'[s] = asks[s]
    BY <2>2 DEF askedBar
  <2>6. \A s \in Requests : askedBar'[s] = asks[s]
    BY <2>4, <2>5
  <2> QED BY <2>6 DEF askedBar
<1>5. createdBar' = createdBar /\ effectBar' = effectBar
      /\ lapsedBar' = lapsedBar
  BY <1>2, CreatedSame DEF effectBar, lapsedBar
<1>6. UNCHANGED toldBar \/ Promise!Tell(r, "error", None)
  <2>1. answer[r].code = "none"
    BY <1>2 DEF Known, ReplayInv, Answered
  <2> QED BY <1>1, <2>1, ToldSame, ToldReply DEF Known, ErrorCode
<1> QED BY <1>1, <1>3, <1>4, <1>5, <1>6 DEF Promise!Ask

\* The statements of claim and find: a key forgets, an error, or a replay.
LEMMA ClaimRefines ==
  ASSUME Known, NEW r \in Requests,
         ClaimDelete(r) \/ ClaimInsert(r) \/ ClaimFails(r)
  PROVE  \/ UNCHANGED Promise!vars
         \/ \E k \in Keys : Promise!Forget(k)
         \/ Promise!AnswerError(r)
<1> DEFINE k == keyOf[r]
<1>1. /\ k \in Keys /\ pc[r] # "idle" /\ askedBar' = askedBar
      /\ assets' = assets /\ createdBar' = createdBar
      /\ ~Committed(r) /\ answer[r].code = "none"
  BY AskedStays, CreatedSame
     DEF Known, TypeOK, KeyedPc, ClaimDelete, ClaimInsert, ClaimFails, Act,
         Step, ServerStep, GuardedStep, LateFault, StorageStep, Arrive,
         CreateInv, CreateKeepsRow, ReplayInv, Answered
<1>2. ASSUME InsertRow(k, r, payloadOf[r])
      PROVE  effectBar' = effectBar /\ lapsedBar' = lapsedBar
  <2>1. /\ \A j \in Keys : j # k => keyRow'[j] = keyRow[j]
        /\ keyRow[k] = NoRow /\ keyRow'[k].owner = r /\ ~keyRow'[k].expired
    BY <1>1, <1>2 DEF InsertRow, Known, TypeOK
  <2>2. None \notin createdBar /\ r \notin createdBar
    BY <1>1, NoneIsNoValue DEF createdBar
  <2>3. keyRow[k].owner = None /\ ~keyRow[k].expired
    BY <2>1 DEF NoRow
  <2> QED BY <1>1, <2>1, <2>2, <2>3, EffectSame DEF lapsedBar
<1>3. ASSUME UNCHANGED keyRow
      PROVE  effectBar' = effectBar /\ lapsedBar' = lapsedBar
  BY <1>1, <1>3 DEF effectBar, lapsedBar
<1>4. CASE ClaimDelete(r)
  <2>1. toldBar' = toldBar
    BY <1>4, ToldSame DEF ClaimDelete
  <2>2. CASE ~keyRow[k].expired
    BY <1>1, <1>3, <1>4, <2>1, <2>2
       DEF ClaimDelete, DeleteExpiredRow, Promise!vars, Known, TypeOK
  <2>3. CASE keyRow[k].expired
    <3>1. keyRow' = [keyRow EXCEPT ![k] = NoRow]
      BY <1>4, <2>3 DEF ClaimDelete, DeleteExpiredRow
    <3>2. k \in lapsedBar /\ lapsedBar' = lapsedBar \ {k}
      BY <1>1, <2>3, <3>1 DEF lapsedBar, NoRow, Known, TypeOK
    <3>3. effectBar' = [effectBar EXCEPT ![k] = None]
      <4>1. None \notin createdBar
        BY NoneIsNoValue DEF createdBar
      <4> QED BY <1>1, <3>1, <4>1 DEF effectBar, NoRow, Known, TypeOK
    <3> QED BY <1>1, <2>1, <3>2, <3>3 DEF Promise!Forget
  <2> QED BY <2>2, <2>3
<1>5. CASE ClaimInsert(r)
  BY <1>1, <1>2, <1>3, <1>5, ToldSame DEF ClaimInsert, Promise!vars
<1>6. CASE ClaimFails(r)
  BY <1>1, <1>2, <1>3, <1>6, ErrorRefines DEF ClaimFails, ErrorCode
<1> QED BY <1>4, <1>5, <1>6

\* find answers from the row: a replay of what the key remembers, or an error.
LEMMA FindRefines ==
  ASSUME Known, NEW r \in Requests, Find(r)
  PROVE  \/ UNCHANGED Promise!vars
         \/ Promise!AnswerError(r)
         \/ Promise!AnswerReplayed(r)
<1> DEFINE k == keyOf[r]
           s == keyRow[k].asset
<1>1. /\ k \in Keys /\ pc[r] # "idle" /\ askedBar' = askedBar
      /\ assets' = assets /\ createdBar' = createdBar
      /\ ~Committed(r) /\ answer[r].code = "none"
  BY AskedStays, CreatedSame
         DEF Known, TypeOK, KeyedPc, Find, Act, Step, ServerStep, GuardedStep,
             LateFault, StorageStep, Arrive, CreateInv, CreateKeepsRow,
             ReplayInv, Answered
<1>2. effectBar' = effectBar /\ lapsedBar' = lapsedBar
  BY <1>1 DEF Find, effectBar, lapsedBar
<1>3. CASE UNCHANGED answer
  BY <1>1, <1>2, <1>3, ToldSame DEF Promise!vars
<1>4. CASE \E code \in ErrorCode : Reply(r, code, None)
  BY <1>1, <1>2, <1>4, ErrorRefines
<1>5. CASE /\ keyRow[k].status = "completed" /\ keyRow[k].hash = payloadOf[r]
           /\ Reply(r, "replayed", s)
  <2>1. Created(s, k, payloadOf[r])
    BY <1>1, <1>5 DEF Known, ReplayInv, CompletedRow
  <2>2. effectBar[k] = s /\ s # None
    <3>1. keyRow[k].owner = s
      BY <1>1, <1>5 DEF Known, MapInv, OwnedRow
    <3> QED BY <1>1, <2>1, <3>1, NoneIsNoValue
            DEF effectBar, createdBar, Created
  <2>3. askedBar[s].payload = askedBar[r].payload /\ askedBar[r].key = k
    <3>1. pc[s] # "idle" /\ s \in Requests /\ payloadOf[s] = payloadOf[r]
      BY <2>1 DEF Created
    <3> QED BY <1>1, <3>1, HasAsked DEF Known
  <2>4. Promise!Tell(r, "replayed", s)
    BY <1>1, <1>5, ToldReply DEF Known, ErrorCode
  <2> QED BY <1>1, <1>2, <2>2, <2>3, <2>4 DEF Promise!AnswerReplayed
<1>6. \/ UNCHANGED answer
      \/ Reply(r, "idempotency_key_reused", None)
      \/ Reply(r, "idempotency_request_in_progress", None)
      \/ /\ keyRow[k].status = "completed" /\ keyRow[k].hash = payloadOf[r]
         /\ Reply(r, "replayed", s)
  BY DEF Find
<1> QED BY <1>3, <1>4, <1>5, <1>6 DEF ErrorCode

\* upload before its COMMIT: nothing the promise sees, or an error.
LEMMA WorkRefines ==
  ASSUME Known, NEW r \in Requests,
         \/ Inspect(r) \/ InsertRows(r) \/ Put(r) \/ PutFails(r)
         \/ Activate(r) \/ TxFails(r)
  PROVE  UNCHANGED Promise!vars \/ Promise!AnswerError(r)
<1>1. /\ pc[r] # "idle" /\ askedBar' = askedBar
      /\ assets' = assets /\ createdBar' = createdBar
      /\ keyRow' = keyRow
      /\ ~Committed(r) /\ answer[r].code = "none"
  BY AskedStays, CreatedSame
     DEF Known, Inspect, InsertRows, Put, PutFails, Activate, TxFails, Act,
         Step, ServerStep, GuardedStep, LateFault, StorageStep, Arrive,
         CreateInv, CreateKeepsRow, ReplayInv, Answered, local
<1>2. effectBar' = effectBar /\ lapsedBar' = lapsedBar
  BY <1>1 DEF effectBar, lapsedBar
<1>3. CASE UNCHANGED answer
  BY <1>1, <1>2, <1>3, ToldSame DEF Promise!vars
<1>4. CASE \E code \in ErrorCode : Reply(r, code, None)
  BY <1>1, <1>2, <1>4, ErrorRefines
<1>5. UNCHANGED answer \/ \E code \in ErrorCode : Reply(r, code, None)
  BY DEF Inspect, InsertRows, Put, PutFails, Activate, TxFails, Throw,
         ErrorCode
<1> QED BY <1>3, <1>4, <1>5

\* The COMMIT is the create: the key remembers it from that step on.
LEMMA CommitRefines ==
  ASSUME Known, NEW r \in Requests, Commit(r)
  PROVE  Promise!Create(r)
<1>1. /\ pc[r] = "commit" /\ askedBar' = askedBar /\ keyRow' = keyRow
      /\ ~Committed(r) /\ answer[r].code = "none"
  BY AskedStays
     DEF Known, Commit, Act, Step, ServerStep, GuardedStep, LateFault,
         StorageStep, Arrive, CreateInv, CreateKeepsRow, ReplayInv, Answered
<1>2. createdBar' = createdBar \cup {r} /\ r \notin createdBar
  <2>1. assets' = [assets EXCEPT ![r] = Whole(r)]
    BY DEF Commit, Known, Staging
  <2>2. Whole(r) # NoRows
    BY DEF Whole, NoRows
  <2> QED BY <1>1, <2>1, <2>2 DEF createdBar, Committed, Known, TypeOK
<1>3. lapsedBar' = lapsedBar
  BY <1>1 DEF lapsedBar
<1>4. toldBar[r] = Promise!Silent
  <2>1. answer[r] = NoAnswer
    BY <1>1 DEF Known, MapInv, Began
  <2> QED BY <2>1 DEF toldBar, Promise!Silent, NoAnswer, Failed, ErrorCode
<1>5. askedBar[r] # Promise!Unasked /\ askedBar[r].key = keyOf[r]
  BY <1>1, HasAsked DEF Known
<1>6. \A k \in Keys : keyRow[k].owner = r => keyOf[r] = k
  BY DEF Known, MapInv, OwnedRow
<1>7. CASE Keyed(r)
  <2>1. keyRow[keyOf[r]].owner = r
    BY <1>1, <1>7 DEF Known, CreateInv, HolderOwnsRow, Holds, WorkPc, TxPc
  <2>2. effectBar[keyOf[r]] = None
    BY <1>2, <1>7, <2>1 DEF effectBar, Keyed
  <2>3. effectBar' = [effectBar EXCEPT ![keyOf[r]] = r]
    BY <1>1, <1>2, <1>6, <1>7, <2>1 DEF effectBar, Keyed
  <2>4. toldBar' = toldBar
    BY <1>7, ToldSame DEF Commit
  <2> QED BY <1>1, <1>2, <1>3, <1>4, <1>5, <1>7, <2>2, <2>3, <2>4
          DEF Promise!Create, Keyed
<1>8. CASE ~Keyed(r)
  <2>1. effectBar' = effectBar
    BY <1>1, <1>2, <1>6, <1>8 DEF effectBar, Keyed
  <2>2. Promise!Tell(r, "created", r)
    BY <1>1, <1>8, ToldReply DEF Commit, Known, ErrorCode
  <2> QED BY <1>1, <1>2, <1>3, <1>4, <1>5, <1>8, <2>1, <2>2
          DEF Promise!Create, Keyed
<1> QED BY <1>7, <1>8

\* complete answers with the asset the COMMIT created; the row keeps its owner.
LEMMA CompleteRefines ==
  ASSUME Known, NEW r \in Requests, Complete(r)
  PROVE  Promise!AnswerCreated(r)
<1>1. /\ askedBar' = askedBar /\ createdBar' = createdBar
      /\ Committed(r) /\ answer[r].code = "none"
  BY AskedStays, CreatedSame
     DEF Known, Complete, Act, Step, ServerStep, GuardedStep, LateFault,
         StorageStep, Arrive, ReplayInv, RowIsOfHolder, Answered
<1>2. \A k \in Keys : /\ keyRow'[k].owner = keyRow[k].owner
                      /\ keyRow'[k].expired = keyRow[k].expired
  BY DEF Complete, CompleteRow, Known, TypeOK, Row
<1>3. effectBar' = effectBar /\ lapsedBar' = lapsedBar
  BY <1>1, <1>2, EffectSame DEF lapsedBar
<1>4. Promise!Tell(r, "created", r)
  BY <1>1, ToldReply DEF Complete, Known, ErrorCode
<1> QED BY <1>1, <1>3, <1>4 DEF Promise!AnswerCreated, createdBar

\* The catch block forgets a key under which nothing was created.
LEMMA ReleaseRefines ==
  ASSUME Known, NEW r \in Requests, Release(r) \/ ReleaseFails(r)
  PROVE  Promise!AnswerError(r)
<1> DEFINE k == keyOf[r]
<1>1. /\ k \in Keys /\ pc[r] = "release" /\ askedBar' = askedBar
      /\ assets' = assets /\ createdBar' = createdBar
      /\ ~Committed(r) /\ answer[r].code = "none"
  BY AskedStays, CreatedSame
         DEF Known, TypeOK, KeyedPc, Release, ReleaseFails, Act, Step,
             ServerStep, GuardedStep, LateFault, StorageStep, Arrive,
             CreateInv, CreateKeepsRow, ReplayInv, Answered
<1>2. keyRow[k].owner = r /\ ~keyRow[k].expired
  BY <1>1 DEF Known, CreateInv, HolderOwnsRow, Holds, Keyed, WorkPc
<1>3. ASSUME ReleaseRow(k)
      PROVE  effectBar' = effectBar /\ lapsedBar' = lapsedBar
  <2>1. /\ \A j \in Keys : j # k => keyRow'[j] = keyRow[j]
        /\ keyRow'[k].owner = None /\ ~keyRow'[k].expired
    BY <1>1, <1>3 DEF ReleaseRow, NoRow, Known, TypeOK
  <2>2. None \notin createdBar /\ r \notin createdBar
    BY <1>1, NoneIsNoValue DEF createdBar
  <2> QED BY <1>1, <1>2, <2>1, <2>2, EffectSame DEF lapsedBar
<1>4. ASSUME UNCHANGED keyRow
      PROVE  effectBar' = effectBar /\ lapsedBar' = lapsedBar
  BY <1>1, <1>4 DEF effectBar, lapsedBar
<1>5. effectBar' = effectBar /\ lapsedBar' = lapsedBar
  BY <1>3, <1>4 DEF Release, ReleaseFails
<1>6. \E code \in ErrorCode : Reply(r, code, None)
  BY <1>1 DEF Release, ReleaseFails, Known, MapInv, Began, ErrorCode
<1> QED BY <1>1, <1>5, <1>6, ErrorRefines

\* A process that dies with a request leaves what the promise sees.
LEMMA CrashRefines ==
  ASSUME Known, NEW r \in Requests, Crash(r)
  PROVE  UNCHANGED Promise!vars
<1>1. /\ askedBar' = askedBar /\ createdBar' = createdBar
      /\ toldBar' = toldBar /\ keyRow' = keyRow
  BY AskedStays, CreatedSame, ToldSame
     DEF Known, Crash, Act, Arrive, RunPc, WorkPc, TxPc
<1> QED BY <1>1 DEF Promise!vars, effectBar, lapsedBar

\* The 24 hours of a row are those of its key.
LEMMA ExpireRefines ==
  ASSUME Known, NEW k \in Keys, Expire(k)
  PROVE  Promise!Lapse(k)
<1>1. /\ askedBar' = askedBar /\ createdBar' = createdBar
      /\ toldBar' = toldBar
  BY CreatedSame, ToldSame DEF Expire, local, inputs, askedBar
<1>2. /\ \A j \in Keys : keyRow'[j].owner = keyRow[j].owner
      /\ \A j \in Keys : keyRow'[j].expired <=> j = k \/ keyRow[j].expired
  BY DEF Expire, ExpireRow, Known, TypeOK, Row
<1>3. effectBar' = effectBar /\ lapsedBar' = lapsedBar \cup {k}
  BY <1>1, <1>2, EffectSame DEF lapsedBar
<1> QED BY <1>1, <1>3 DEF Promise!Lapse

-----------------------------------------------------------------------------
\* Every step of the upload path is a step of the promise, or none.
LEMMA StepRefines ==
  ASSUME NoLateFault
  PROVE  Known /\ [Next]_vars => [Promise!Next]_(Promise!vars)
<1> SUFFICES ASSUME Known, [Next]_vars
             PROVE  [Promise!Next]_(Promise!vars)
  OBVIOUS
<1>1. ASSUME NEW r \in Requests, Act(r)
      PROVE  [Promise!Next]_(Promise!vars)
  <2> USE DEF Promise!Next
  <2>1. CASE Arrive(r) BY <2>1, ArriveRefines
  <2>2. CASE ClaimDelete(r) \/ ClaimInsert(r) \/ ClaimFails(r)
    BY <2>2, ClaimRefines
  <2>3. CASE Find(r) BY <2>3, FindRefines
  <2>4. CASE \/ Inspect(r) \/ InsertRows(r) \/ Put(r) \/ PutFails(r)
             \/ Activate(r) \/ TxFails(r)
    BY <2>4, WorkRefines
  <2>5. CASE Commit(r) BY <2>5, CommitRefines
  <2>6. CASE Complete(r) BY <2>6, CompleteRefines
  <2>7. CASE Release(r) \/ ReleaseFails(r) BY <2>7, ReleaseRefines
  <2>8. CASE Crash(r) BY <2>8, CrashRefines
  <2>9. ~CommitUnacked(r) /\ ~CompleteFails(r)
    BY DEF NoLateFault, CommitUnacked, CompleteFails
  <2> QED BY <1>1, <2>1, <2>2, <2>3, <2>4, <2>5, <2>6, <2>7, <2>8, <2>9
          DEF Act, Step, ServerStep, GuardedStep, LateFault, StorageStep
<1>2. ASSUME NEW k \in Keys, Expire(k) PROVE [Promise!Next]_(Promise!vars)
  BY <1>2, ExpireRefines DEF Promise!Next
<1>3. CASE UNCHANGED vars
  BY <1>3 DEF vars, inputs, local, Promise!vars, askedBar, createdBar,
              effectBar, lapsedBar, toldBar, Committed, Failed
<1> QED BY <1>1, <1>2, <1>3 DEF Next, AllServed, Act

\* Before the first request nothing is asked, created, remembered or told.
LEMMA InitRefines == Init => Known /\ Promise!Init
<1> SUFFICES ASSUME Init PROVE Known /\ Promise!Init
  OBVIOUS
<1>1. TypeOK /\ CreateInv
  BY CreateInit, NoRowType
     DEF Init, KeysInit, TypeOK, Pc, KeyedPc, NoRows, UploadRows, NoAnswer,
         Answer
<1>2. Staging /\ CommittedUploadIsWhole /\ ReplayInv
  BY DEF Init, KeysInit, NoRow, Staging, CommittedUploadIsWhole, ReplayInv,
         RowIsOfHolder, CompletedRow, Answered, Holds, WorkPc, TxPc,
         Committed, NoAnswer
<1>3. MapInv
  BY NoneIsNoValue DEF Init, KeysInit, NoRow, MapInv, Began, OwnedRow
<1>4. Promise!Init
  BY NoneIsNoValue
     DEF Init, KeysInit, NoRow, Promise!Init, Promise!Silent,
         Promise!Unasked, askedBar, createdBar, effectBar, lapsedBar,
         toldBar, Committed, Failed, NoAnswer, ErrorCode
<1> QED BY <1>1, <1>2, <1>3, <1>4 DEF Known

(***************************************************************************)
(* Every behaviour of the upload path is one the API contract allows       *)
(* (docs/API/08, idempotency.service.ts run), as long as no failure is     *)
(* reported after the COMMIT took effect.                                  *)
(***************************************************************************)
THEOREM PromiseIsKept == NoLateFault => (Spec => KeepsThePromise)
<1> SUFFICES ASSUME NoLateFault PROVE Spec => KeepsThePromise
  OBVIOUS
<1>1. Known /\ [Next]_vars => Known'
  <2>1. CompleteSucceeds
    BY DEF NoLateFault, CompleteSucceeds
  <2> QED BY <2>1, TypeStep, CreateStep, StagingStep, ReplayStep, MapStep
          DEF Known, CreateInv
<1> QED BY <1>1, InitRefines, StepRefines, PTL
        DEF Spec, KeepsThePromise, Promise!Spec
=============================================================================
