---------------------------- MODULE ObjectStore ----------------------------
(***************************************************************************)
(* What the StorageAdapter interface (packages/storage-adapter/src/        *)
(* types.ts) promises for the keys the platform writes: keys that are      *)
(* written once and not deleted.  A write takes effect at one instant, a   *)
(* read answers what the store holds, and an operation that has ended has  *)
(* no effect afterwards.                                                   *)
(***************************************************************************)
\* None is not one of Contents.
CONSTANTS Ops, Keys, Contents, None, NoCall

Calls == [kind : {"put", "copy", "get", "stat"}, key : Keys, from : Keys \cup {0}]

VARIABLES
  store,    \* store[k]: the object of key k, or None
  asked,    \* asked[o]: the call, NoCall before it
  outcome,  \* outcome[o]: "none", "ok", "not_found" or "failed"
  seen      \* seen[o]: the object a read answered, or None

storeVars == <<store, asked, outcome, seen>>

StoreInit ==
  /\ store = [k \in Keys |-> None]
  /\ asked = [o \in Ops |-> NoCall]
  /\ outcome = [o \in Ops |-> "none"]
  /\ seen = [o \in Ops |-> None]

Running(o) == asked[o] # NoCall /\ outcome[o] = "none"

Ask(o) ==
  /\ asked[o] = NoCall
  /\ \E c \in Calls : asked' = [asked EXCEPT ![o] = c]
  /\ UNCHANGED <<store, outcome, seen>>

(***************************************************************************)
(* A copy of another of these keys stores the same object.                 *)
(***************************************************************************)
TakesEffect(o) ==
  /\ Running(o)
  /\ asked[o].kind \in {"put", "copy"}
  /\ store[asked[o].key] = None
  /\ \E c \in Contents :
       /\ asked[o].kind = "put" => c = <<o, o>>
       /\ asked[o].from \in Keys => c = store[asked[o].from]
       /\ store' = [store EXCEPT ![asked[o].key] = c]
  /\ UNCHANGED <<asked, outcome, seen>>

WriteSucceeds(o) ==
  /\ Running(o)
  /\ asked[o].kind \in {"put", "copy"}
  /\ store[asked[o].key] # None
  /\ outcome' = [outcome EXCEPT ![o] = "ok"]
  /\ UNCHANGED <<store, asked, seen>>

\* A service that copies by itself writes and answers in one step.
WriteFindsNothing(o) ==
  /\ Running(o)
  /\ asked[o].kind = "copy"
  /\ asked[o].from \in Keys => store[asked[o].from] = None
  /\ outcome' = [outcome EXCEPT ![o] = "not_found"]
  /\ UNCHANGED <<store, asked, seen>>

ReadAnswers(o) ==
  /\ Running(o)
  /\ asked[o].kind \in {"get", "stat"}
  /\ LET found == store[asked[o].key] IN
     /\ outcome' = [outcome EXCEPT ![o] = IF found = None THEN "not_found" ELSE "ok"]
     /\ seen' = [seen EXCEPT ![o] = found]
  /\ UNCHANGED <<store, asked>>

\* A failure, or the death of a process with all its operations.
Fail(S) ==
  /\ \A o \in S : Running(o)
  /\ outcome' = [o \in Ops |-> IF o \in S THEN "failed" ELSE outcome[o]]
  /\ UNCHANGED <<store, asked, seen>>

StoreNext ==
  \/ \E o \in Ops : Ask(o) \/ TakesEffect(o) \/ WriteSucceeds(o)
                    \/ WriteFindsNothing(o) \/ ReadAnswers(o)
  \/ \E S \in SUBSET Ops : Fail(S)

StoreSpec == StoreInit /\ [][StoreNext]_storeVars
=============================================================================
