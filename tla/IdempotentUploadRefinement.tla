-------------------- MODULE IdempotentUploadRefinement --------------------
(***************************************************************************)
(* IdempotentUpload implements IdempotentCreate: the effect of a request   *)
(* is its commit, and what a key remembers is the commit of the request    *)
(* that inserted its row.                                                  *)
(***************************************************************************)
EXTENDS IdempotentUpload

askedBar ==
  [r \in Requests |->
     IF pc[r] = "idle" THEN [key |-> None, payload |-> None]
     ELSE [key |-> keyOf[r], payload |-> payloadOf[r]]]

createdBar == {r \in Requests : Committed(r)}

effectBar ==
  [k \in Keys |-> IF keyRow[k].owner \in createdBar THEN keyRow[k].owner
                                                    ELSE None]

lapsedBar == {k \in Keys : keyRow[k].expired}

toldBar ==
  [r \in Requests |->
     IF Failed(r) THEN [code |-> "error", asset |-> None] ELSE answer[r]]

Promise == INSTANCE IdempotentCreate
             WITH asked <- askedBar, created <- createdBar,
                  OtherKeys <- {NoKey, Malformed}, effect <- effectBar,
                  lapsed <- lapsedBar, told <- toldBar

(***************************************************************************)
(* Every behaviour of the upload path is one the API contract allows       *)
(* (docs/API/08, idempotency.service.ts run).                              *)
(***************************************************************************)
KeepsThePromise == Promise!Spec
=============================================================================
