-------------------------- MODULE IdempotencyKeys --------------------------
(***************************************************************************)
(* The table idempotency_keys and the four statements the repository       *)
(* idempotency.repository.ts runs on it.  Each operator below is one SQL   *)
(* statement and therefore atomic; a request runs them one after another,  *)
(* outside any transaction, so the rows of other requests may change       *)
(* between two of them (module IdempotentUpload interleaves them).         *)
(*                                                                         *)
(* A key of the model is a whole primary key (tenant, project, key): two   *)
(* projects that use the same Idempotency-Key use two different keys here. *)
(* A payload stands for all that the request fingerprint covers: equal     *)
(* payloads have equal SHA-256 fingerprints and different ones do not.     *)
(***************************************************************************)
CONSTANTS
  Requests,   \* the requests; a request also names the asset it creates
  Keys,       \* the primary keys of idempotency_keys
  Payloads,   \* route, project, form fields, filename and file of a request
  None        \* SQL null

ASSUME NoneIsNoValue == None \notin Requests \cup Payloads

VARIABLE
  keyRow      \* keyRow[k]: the row of key k, NoRow when there is none

(***************************************************************************)
(* owner is a history variable: the request that inserted the row.  The    *)
(* table does not record it, and no guard below reads it.  The clock is    *)
(* abstracted to "expires_at <= now", which becomes true once, by Expire.  *)
(***************************************************************************)
Row == [status  : {"absent", "in_progress", "completed"},
        hash    : Payloads \cup {None},
        asset   : Requests \cup {None},      \* response_body.id
        expired : BOOLEAN,
        owner   : Requests \cup {None}]

NoRow == [status |-> "absent", hash |-> None, asset |-> None,
          expired |-> FALSE, owner |-> None]

KeysInit == keyRow = [k \in Keys |-> NoRow]

(***************************************************************************)
(* The two statements of claim, and the outcome of the second.             *)
(***************************************************************************)
\* A plausible slip: the DELETE without its "expires_at <= now" condition.
DeleteExpiredRow_NoClock(k) == keyRow' = [keyRow EXCEPT ![k] = NoRow]

DeleteExpiredRow(k) ==
  keyRow' = [keyRow EXCEPT ![k] = IF keyRow[k].expired THEN NoRow ELSE @]

\* A plausible slip: ON CONFLICT DO UPDATE, so that every claim succeeds.
InsertRow_Upsert(k, r, h) ==
  keyRow' = [keyRow EXCEPT ![k] =
               [status |-> "in_progress", hash |-> h, asset |-> None,
                expired |-> FALSE, owner |-> r]]

InsertRow(k, r, h) ==
  /\ keyRow[k] = NoRow
  /\ keyRow' = [keyRow EXCEPT ![k] =
                  [status |-> "in_progress", hash |-> h, asset |-> None,
                   expired |-> FALSE, owner |-> r]]

Conflicts(k) == keyRow[k] # NoRow

(***************************************************************************)
(* complete and release name the row by its key alone: neither asks who    *)
(* inserted it, nor which status it has.                                   *)
(***************************************************************************)
CompleteRow(k, a) ==
  keyRow' = [keyRow EXCEPT ![k] =
               IF keyRow[k] = NoRow
               THEN @ ELSE [@ EXCEPT !.status = "completed", !.asset = a]]

ReleaseRow(k) == keyRow' = [keyRow EXCEPT ![k] = NoRow]

(***************************************************************************)
(* Twenty-four hours have passed since the row was inserted.               *)
(***************************************************************************)
ExpireRow(k) ==
  /\ keyRow[k] # NoRow
  /\ ~keyRow[k].expired
  /\ keyRow' = [keyRow EXCEPT ![k].expired = TRUE]
=============================================================================
