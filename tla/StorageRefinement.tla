------------------------- MODULE StorageRefinement -------------------------
(***************************************************************************)
(* StorageAdapters implements ObjectStore on the keys the platform writes. *)
(* The object of such a key appears when its bytes do: by then the sidecar *)
(* is there ("the object's rename is the commit point", local.ts put).     *)
(***************************************************************************)
EXTENDS StorageAdapters

storeBar ==
  [k \in Fresh |-> IF object[k] = None THEN None ELSE <<object[k], sidecar[k]>>]

\* Lists and the operations of other keys are not ObjectStore's.
covered == {o \in Ops : call[o].kind \in {"put", "copy", "get", "stat"} /\ call[o].key \in Fresh}

askedBar ==
  [o \in Ops |->
     IF o \notin covered THEN NoCall
     ELSE [call[o] EXCEPT !.from = IF @ \in Fresh THEN @ ELSE 0]]

outcomeBar ==
  [o \in Ops |-> IF o \notin covered THEN "none"
                 ELSE IF pc[o] = "crashed" THEN "failed" ELSE answer[o]]

\* The read of a get is its size and type together with its bytes.
seenBar ==
  [o \in Ops |->
     IF o \in covered /\ answer[o] = "ok" /\ call[o].kind \in {"get", "stat"}
     THEN IF call[o].kind = "get" /\ info[o].body # info[o].size
          THEN <<info[o].size, info[o].type, info[o].body>>
          ELSE <<info[o].size, info[o].type>>
     ELSE None]

Store == INSTANCE ObjectStore
           WITH Keys <- Fresh, store <- storeBar, asked <- askedBar,
                outcome <- outcomeBar, seen <- seenBar

(***************************************************************************)
(* For keys written once, every adapter is an atomic store: a reader finds *)
(* nothing or the whole object, and a failed put has no later effect.      *)
(***************************************************************************)
ImplementsObjectStore == Store!StoreSpec
=============================================================================
