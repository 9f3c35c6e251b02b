------------------------- MODULE IdempotentUpload -------------------------
(***************************************************************************)
(* POST /v1/projects/:project_id/assets from the idempotency service down  *)
(* to Postgres and the object store: many requests at once, on any number  *)
(* of API processes, with the same or different Idempotency-Keys.          *)
(*                                                                         *)
(*   asset.routes.ts         the handler: arrival and answer               *)
(*   idempotency.service.ts  run: claim, find, work, complete, release     *)
(*   asset.service.ts        upload: validate, then one transaction around *)
(*                           two inserts, the storage put and an update    *)
(*                                                                         *)
(* A request shares nothing in memory with another one, so a process crash *)
(* is the crash of each of its requests, one after the other.  A request   *)
(* creates at most one asset, one version and one object, whose fresh ids  *)
(* and storage key are all named by the request.                           *)
(***************************************************************************)
EXTENDS IdempotencyKeys, Naturals

CONSTANTS
  NoKey,        \* the request has no Idempotency-Key header
  Malformed,    \* the header does not match KEY_PATTERN
  Refused,      \* payloads inspectImage or the folder check refuses
  Faults,       \* what may go wrong in this instance (see AllFaults)
  MaxExpiries   \* bound: how often a key may reach its 24 hours

(***************************************************************************)
(* "tx" is a failing statement inside the transaction, or a COMMIT that    *)
(* rolled back; "put" is a put that stored nothing, "put_unacked" one that *)
(* stored the object and then failed (its trailing stat, or the answer of  *)
(* the store, was lost); "commit_unacked" is a COMMIT that took effect and *)
(* was reported as failed; "claim", "complete" and "release" are failures  *)
(* of those statements, with or without effect.                            *)
(***************************************************************************)
AllFaults == {"claim", "tx", "put", "put_unacked", "commit_unacked",
              "complete", "release", "crash"}

ASSUME KeyAssumption == /\ NoKey \notin Keys /\ Malformed \notin Keys
                        /\ NoKey # Malformed
ASSUME RefusedAssumption == Refused \subseteq Payloads
ASSUME FaultsAssumption == Faults \subseteq AllFaults
ASSUME ExpiriesAssumption == MaxExpiries \in Nat

VARIABLES
  pc,         \* pc[r]: where request r is
  keyOf,      \* keyOf[r]: its Idempotency-Key, NoKey or Malformed
  payloadOf,  \* payloadOf[r]: what its fingerprint covers
  error,      \* error[r]: the error it will answer with once released
  life,       \* life[r]: expiries of its key when it claimed it (history)
  staged,     \* staged[r]: the rows r wrote in its open transaction
  assets,     \* assets[r]: the committed rows of r's upload
  objects,    \* the storage keys that have an object
  answer,     \* answer[r]: what the client was told
  expiries    \* expiries[k]: how often key k has expired (history)

inputs == <<keyOf, payloadOf, life>>
local == <<inputs, error>>
vars == <<keyRow, pc, local, staged, assets, objects, answer, expiries>>

-----------------------------------------------------------------------------
(***************************************************************************)
(* Types                                                                   *)
(***************************************************************************)
TxPc == {"put", "activate", "commit"}
WorkPc == {"inspect", "insert_rows", "complete", "release"} \cup TxPc
RunPc == {"claim_delete", "claim_insert", "find"} \cup WorkPc
Pc == {"idle", "done", "crashed"} \cup RunPc
KeyedPc == {"claim_delete", "claim_insert", "find", "complete", "release"}

ErrorCode == {"validation_failed", "refused", "idempotency_key_reused",
              "idempotency_request_in_progress", "storage_unavailable",
              "internal"}
Answer == [code : ErrorCode \cup {"none", "created", "replayed"},
           asset : Requests \cup {None}]
NoAnswer == [code |-> "none", asset |-> None]

\* The asset row (status, current_version_id) and its version row.
UploadRows == [asset : {"absent", "pending", "processing"},
               current : Requests \cup {None},
               version : BOOLEAN]
NoRows == [asset |-> "absent", current |-> None, version |-> FALSE]

TypeOK ==
  /\ keyRow \in [Keys -> Row]
  /\ pc \in [Requests -> Pc]
  /\ keyOf \in [Requests -> Keys \cup {NoKey, Malformed}]
  /\ \A r \in Requests : pc[r] \in KeyedPc => keyOf[r] \in Keys
  /\ payloadOf \in [Requests -> Payloads \cup {None}]
  /\ error \in [Requests -> ErrorCode \cup {"none"}]
  /\ life \in [Requests -> Nat]
  /\ staged \in [Requests -> UploadRows]
  /\ assets \in [Requests -> UploadRows]
  /\ objects \subseteq Requests
  /\ answer \in [Requests -> Answer]
  /\ expiries \in [Keys -> Nat]

Init ==
  /\ KeysInit
  /\ pc = [r \in Requests |-> "idle"]
  /\ keyOf = [r \in Requests |-> NoKey]
  /\ payloadOf = [r \in Requests |-> None]
  /\ error = [r \in Requests |-> "none"]
  /\ life = [r \in Requests |-> 0]
  /\ staged = [r \in Requests |-> NoRows]
  /\ assets = [r \in Requests |-> NoRows]
  /\ objects = {}
  /\ answer = [r \in Requests |-> NoAnswer]
  /\ expiries = [k \in Keys |-> 0]

-----------------------------------------------------------------------------
(***************************************************************************)
(* Helpers                                                                 *)
(***************************************************************************)
Keyed(r) == keyOf[r] \in Keys
Goto(r, label) == pc' = [pc EXCEPT ![r] = label]

Reply(r, code, asset) ==
  /\ Goto(r, "done")
  /\ answer' = [answer EXCEPT ![r] = [code |-> code, asset |-> asset]]

\* A plausible slip: the catch block releases whatever the request's key is.
Throw_AlwaysReleases(r, code) ==
  /\ Goto(r, "release")
  /\ error' = [error EXCEPT ![r] = code]
  /\ UNCHANGED answer

(***************************************************************************)
(* work threw: a keyed request first releases its key (the catch block of  *)
(* run), one without a key is answered at once.                            *)
(***************************************************************************)
Throw(r, code) ==
  IF Keyed(r)
  THEN /\ Goto(r, "release")
       /\ error' = [error EXCEPT ![r] = code]
       /\ UNCHANGED answer
  ELSE /\ Reply(r, code, None)
       /\ UNCHANGED error

Rollback(r) == staged' = [staged EXCEPT ![r] = NoRows]

-----------------------------------------------------------------------------
(***************************************************************************)
(* The idempotency service                                                 *)
(***************************************************************************)
Arrive(r) ==
  /\ pc[r] = "idle"
  /\ \E k \in Keys \cup {NoKey, Malformed}, p \in Payloads :
       /\ keyOf' = [keyOf EXCEPT ![r] = k]
       /\ payloadOf' = [payloadOf EXCEPT ![r] = p]
       /\ \/ /\ k = Malformed
             /\ Reply(r, "validation_failed", None)
          \/ /\ k = NoKey
             /\ Goto(r, "inspect")
             /\ UNCHANGED answer
          \/ /\ k \in Keys
             /\ Goto(r, "claim_delete")
             /\ UNCHANGED answer
  /\ UNCHANGED <<keyRow, life, error, staged, assets, objects, expiries>>

ClaimDelete(r) ==
  /\ pc[r] = "claim_delete"
  /\ DeleteExpiredRow(keyOf[r])
  /\ Goto(r, "claim_insert")
  /\ UNCHANGED <<local, staged, assets, objects, answer, expiries>>

ClaimInsert(r) ==
  /\ pc[r] = "claim_insert"
  /\ \/ /\ InsertRow(keyOf[r], r, payloadOf[r])
        /\ life' = [life EXCEPT ![r] = expiries[keyOf[r]]]
        /\ Goto(r, "inspect")
     \/ /\ Conflicts(keyOf[r])
        /\ Goto(r, "find")
        /\ UNCHANGED <<keyRow, life>>
  /\ UNCHANGED <<keyOf, payloadOf, error, staged, assets, objects, answer,
                 expiries>>

(***************************************************************************)
(* A statement of claim or find is outside run's try block: it fails       *)
(* without releasing anything, and the INSERT may have taken effect (a     *)
(* DELETE that did is a ClaimDelete before a failing INSERT).              *)
(***************************************************************************)
ClaimFails(r) ==
  /\ "claim" \in Faults
  /\ pc[r] \in {"claim_delete", "claim_insert", "find"}
  /\ \/ UNCHANGED keyRow
     \/ /\ pc[r] = "claim_insert"
        /\ InsertRow(keyOf[r], r, payloadOf[r])
  /\ Reply(r, "internal", None)
  /\ UNCHANGED <<local, staged, assets, objects, expiries>>

\* A plausible slip: the stored response is replayed without comparing the
\* fingerprints of the two requests.
Find_AnyHash(r) ==
  /\ pc[r] = "find"
  /\ LET row == keyRow[keyOf[r]] IN
       \/ /\ row.status = "absent"
          /\ Goto(r, "claim_delete")
          /\ UNCHANGED answer
       \/ /\ row.status = "in_progress"
          /\ Reply(r, "idempotency_request_in_progress", None)
       \/ /\ row.status = "completed"
          /\ Reply(r, "replayed", row.asset)
  /\ UNCHANGED <<keyRow, local, staged, assets, objects, expiries>>

\* A plausible slip: waiting for a running request instead of answering 409.
Find_Waits(r) ==
  /\ pc[r] = "find"
  /\ LET row == keyRow[keyOf[r]] IN
       \/ /\ row.status \in {"absent", "in_progress"}
          /\ Goto(r, "claim_delete")
          /\ UNCHANGED answer
       \/ /\ row.status = "completed"
          /\ row.hash # payloadOf[r]
          /\ Reply(r, "idempotency_key_reused", None)
       \/ /\ row.status = "completed"
          /\ row.hash = payloadOf[r]
          /\ Reply(r, "replayed", row.asset)
  /\ UNCHANGED <<keyRow, local, staged, assets, objects, expiries>>

Find(r) ==
  /\ pc[r] = "find"
  /\ LET row == keyRow[keyOf[r]] IN
       \/ /\ row = NoRow                   \* released meanwhile: run again
          /\ Goto(r, "claim_delete")
          /\ UNCHANGED answer
       \/ /\ row # NoRow
          /\ row.hash # payloadOf[r]
          /\ Reply(r, "idempotency_key_reused", None)
       \/ /\ row.status = "in_progress"
          /\ row.hash = payloadOf[r]
          /\ Reply(r, "idempotency_request_in_progress", None)
       \/ /\ row.status = "completed"
          /\ row.hash = payloadOf[r]
          /\ Reply(r, "replayed", row.asset)
  /\ UNCHANGED <<keyRow, local, staged, assets, objects, expiries>>

-----------------------------------------------------------------------------
(***************************************************************************)
(* The upload                                                              *)
(***************************************************************************)
Inspect(r) ==
  /\ pc[r] = "inspect"
  /\ \/ /\ payloadOf[r] \in Refused
        /\ Throw(r, "refused")
     \/ /\ payloadOf[r] \notin Refused
        /\ Goto(r, "insert_rows")
        /\ UNCHANGED <<error, answer>>
  /\ UNCHANGED <<keyRow, inputs, staged, assets, objects, expiries>>

\* A plausible slip: the inserts run on the pool, not on the transaction.
InsertRows_OutsideTx(r) ==
  /\ pc[r] = "insert_rows"
  /\ staged' = [staged EXCEPT ![r] = [asset |-> "pending", current |-> None,
                                      version |-> TRUE]]
  /\ assets' = [assets EXCEPT ![r] = staged'[r]]
  /\ Goto(r, "put")
  /\ UNCHANGED <<keyRow, local, objects, answer, expiries>>

InsertRows(r) ==
  /\ pc[r] = "insert_rows"
  /\ staged' = [staged EXCEPT ![r] = [asset |-> "pending", current |-> None,
                                      version |-> TRUE]]
  /\ Goto(r, "put")
  /\ UNCHANGED <<keyRow, local, assets, objects, answer, expiries>>

\* A plausible slip: a storage failure is logged and the upload goes on.
PutFails_Swallowed(r) ==
  /\ Faults \cap {"put", "put_unacked"} # {}
  /\ pc[r] = "put"
  /\ Goto(r, "activate")
  /\ UNCHANGED <<keyRow, local, staged, assets, objects, answer, expiries>>

Put(r) ==
  /\ pc[r] = "put"
  /\ objects' = objects \cup {r}
  /\ Goto(r, "activate")
  /\ UNCHANGED <<keyRow, local, staged, assets, answer, expiries>>

PutFails(r) ==
  /\ pc[r] = "put"
  /\ \/ "put" \in Faults /\ UNCHANGED objects
     \/ "put_unacked" \in Faults /\ objects' = objects \cup {r}
  /\ Rollback(r)
  /\ \E code \in {"storage_unavailable", "internal"} : Throw(r, code)
  /\ UNCHANGED <<keyRow, inputs, assets, expiries>>

\* activateVersion, and the read back of the asset inside the transaction.
Activate(r) ==
  /\ pc[r] = "activate"
  /\ staged' = [staged EXCEPT ![r] = [asset |-> "processing", current |-> r,
                                      version |-> staged[r].version]]
  /\ Goto(r, "commit")
  /\ UNCHANGED <<keyRow, local, assets, objects, answer, expiries>>

Commit(r) ==
  /\ pc[r] = "commit"
  /\ assets' = [assets EXCEPT ![r] = staged[r]]
  /\ Rollback(r)
  /\ IF Keyed(r) THEN Goto(r, "complete") /\ UNCHANGED answer
                 ELSE Reply(r, "created", r)
  /\ UNCHANGED <<keyRow, local, objects, expiries>>

CommitUnacked(r) ==
  /\ "commit_unacked" \in Faults
  /\ pc[r] = "commit"
  /\ assets' = [assets EXCEPT ![r] = staged[r]]
  /\ Rollback(r)
  /\ Throw(r, "internal")
  /\ UNCHANGED <<keyRow, inputs, objects, expiries>>

TxFails(r) ==
  /\ "tx" \in Faults
  /\ pc[r] \in {"insert_rows", "activate", "commit"}
  /\ Rollback(r)
  /\ Throw(r, "internal")
  /\ UNCHANGED <<keyRow, inputs, assets, objects, expiries>>

-----------------------------------------------------------------------------
(***************************************************************************)
(* After the work                                                          *)
(***************************************************************************)
Complete(r) ==
  /\ pc[r] = "complete"
  /\ CompleteRow(keyOf[r], r)
  /\ Reply(r, "created", r)
  /\ UNCHANGED <<local, staged, assets, objects, expiries>>

(***************************************************************************)
(* complete is inside the try block that releases the key, although the    *)
(* work has been committed by then.                                        *)
(***************************************************************************)
CompleteFails(r) ==
  /\ "complete" \in Faults
  /\ pc[r] = "complete"
  /\ \/ UNCHANGED keyRow
     \/ CompleteRow(keyOf[r], r)
  /\ Throw(r, "internal")
  /\ UNCHANGED <<inputs, staged, assets, objects, expiries>>

Release(r) ==
  /\ pc[r] = "release"
  /\ ReleaseRow(keyOf[r])
  /\ Reply(r, error[r], None)
  /\ UNCHANGED <<local, staged, assets, objects, expiries>>

ReleaseFails(r) ==
  /\ "release" \in Faults
  /\ pc[r] = "release"
  /\ \/ UNCHANGED keyRow
     \/ ReleaseRow(keyOf[r])
  /\ Reply(r, "internal", None)
  /\ UNCHANGED <<local, staged, assets, objects, expiries>>

-----------------------------------------------------------------------------
(***************************************************************************)
(* The environment                                                         *)
(***************************************************************************)

(***************************************************************************)
(* The process dies: Postgres rolls its open transaction back, committed   *)
(* rows and objects stay, the client is never answered.                    *)
(***************************************************************************)
Crash(r) ==
  /\ "crash" \in Faults
  /\ pc[r] \in RunPc
  /\ Goto(r, "crashed")
  /\ Rollback(r)
  /\ UNCHANGED <<keyRow, local, assets, objects, answer, expiries>>

(***************************************************************************)
(* No request runs for 24 hours: a row expires only after the request that *)
(* inserted it has ended.                                                  *)
(***************************************************************************)
Expire(k) ==
  /\ expiries[k] < MaxExpiries
  /\ keyRow[k].owner \in Requests
  /\ pc[keyRow[k].owner] \in {"done", "crashed"}
  /\ ExpireRow(k)
  /\ expiries' = [expiries EXCEPT ![k] = @ + 1]
  /\ UNCHANGED <<pc, local, staged, assets, objects, answer>>

-----------------------------------------------------------------------------
(***************************************************************************)
(* Specification                                                           *)
(***************************************************************************)
\* What a request does by itself or with Postgres: steps after which its key
\* still guards a create, and failures after the create was committed.
GuardedStep(r) ==
  \/ ClaimDelete(r) \/ ClaimInsert(r) \/ ClaimFails(r) \/ Find(r)
  \/ Inspect(r) \/ InsertRows(r) \/ Activate(r)
  \/ Commit(r) \/ TxFails(r)
  \/ Complete(r) \/ Release(r) \/ ReleaseFails(r)

LateFault(r) == CommitUnacked(r) \/ CompleteFails(r)

ServerStep(r) == GuardedStep(r) \/ LateFault(r)

\* storage.put settles.
StorageStep(r) == Put(r) \/ PutFails(r)

Step(r) == ServerStep(r) \/ StorageStep(r)

AllServed ==
  /\ \A r \in Requests : pc[r] \in {"done", "crashed"}
  /\ UNCHANGED vars

Next ==
  \/ \E r \in Requests : Arrive(r) \/ Step(r) \/ Crash(r)
  \/ \E k \in Keys : Expire(k)
  \/ AllServed

Spec == Init /\ [][Next]_vars

(***************************************************************************)
(* A request that has arrived goes on: Node runs its continuations, and    *)
(* every Postgres statement ends within statement_timeout.  Nothing makes  *)
(* a storage call settle (the adapters set no timeout), a client send a    *)
(* request, a process crash, or a key expire.                              *)
(***************************************************************************)
Fairness == \A r \in Requests : WF_vars(ServerStep(r))

-----------------------------------------------------------------------------
(***************************************************************************)
(* Properties                                                              *)
(***************************************************************************)
Committed(r) == assets[r] # NoRows
Failed(r) == answer[r].code \in ErrorCode
Holds(r) == Keyed(r) /\ pc[r] \in WorkPc

(***************************************************************************)
(* "The original is only ever referenced by a committed row", and the      *)
(* converse: whatever fails, a committed asset has left `pending`, points  *)
(* at its own ready version, and that version's object is in the store     *)
(* (asset.service.ts upload).                                              *)
(***************************************************************************)
CommittedUploadIsWhole ==
  \A r \in Requests : Committed(r) =>
    /\ assets[r] = [asset |-> "processing", current |-> r, version |-> TRUE]
    /\ r \in objects

(***************************************************************************)
(* Two requests never work under one key at the same time: the claim is    *)
(* exclusive although complete, release and the DELETE of an expired row   *)
(* name it by its key alone (idempotency.service.ts run).                  *)
(***************************************************************************)
ClaimIsExclusive ==
  \A r, s \in Requests :
    Holds(r) /\ Holds(s) /\ keyOf[r] = keyOf[s] => r = s

(***************************************************************************)
(* "With an Idempotency-Key, a create runs at most once per key": of the   *)
(* requests that claimed a key between two expiries of it, at most one     *)
(* leaves an asset behind.                                                 *)
(***************************************************************************)
AtMostOncePerKey ==
  \A r, s \in Requests :
    /\ Committed(r) /\ Committed(s)
    /\ Keyed(r) /\ keyOf[r] = keyOf[s]
    /\ life[r] = life[s]
    => r = s

(***************************************************************************)
(* A replayed answer names an asset that exists and that a request with    *)
(* the same key and the same payload created, and that request's own       *)
(* answer, when it got one, named the same asset.                          *)
(***************************************************************************)
ReplayIsFaithful ==
  \A r \in Requests : answer[r].code = "replayed" =>
    LET s == answer[r].asset IN
      /\ s \in Requests \ {r}
      /\ Committed(s)
      /\ keyOf[s] = keyOf[r]
      /\ payloadOf[s] = payloadOf[r]
      /\ answer[s].code \in {"none", "created"}

(***************************************************************************)
(* A request answered with an error has left no rows: a client that is     *)
(* told of a failure may retry (docs/API/08, "the first request failed").  *)
(***************************************************************************)
FailureLeavesNoRows ==
  \A r \in Requests : Failed(r) => ~Committed(r)

(***************************************************************************)
(* Every request that starts run is answered or dies with its process,     *)
(* although run calls itself again when the row it lost to has gone;       *)
(* unless the storage never settles its put, and no other request waits    *)
(* for one that hangs there.  (A request runs once, so this says that each *)
(* that starts ends or stays in its put; the form costs TLC less.)         *)
(***************************************************************************)
EveryUploadEnds ==
  \A r \in Requests : <>[](pc[r] \in RunPc => pc[r] = "put")

(***************************************************************************)
(* docs/API/11: "503 storage_unavailable: storage failed; nothing was      *)
(* created", and "a rejected upload leaves nothing behind: no rows, no     *)
(* object".                                                                *)
(***************************************************************************)
RejectedUploadLeavesNothing ==
  \A r \in Requests : Failed(r) => ~Committed(r) /\ r \notin objects
=============================================================================
