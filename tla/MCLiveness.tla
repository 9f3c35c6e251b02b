----------------------------- MODULE MCLiveness -----------------------------
(***************************************************************************)
(* What must eventually happen to a key request, a recorded count and an   *)
(* upload, in one run: a behaviour works on one of the three, and the      *)
(* others rest in their initial state, in which no step is enabled that    *)
(* fairness could ask for: no request has started, and nothing has been    *)
(* counted or queued.                                                      *)
(***************************************************************************)
EXTENDS MCApiKeys

CONSTANTS
  Procs, Slots, Workers, Units, Counters, CounterOf, Events, NoEvent,
  NoWorker, MaxAttempts, MaxStalls, UsageFaults, u1, u2, c1

CONSTANTS
  Uploads, UploadKeys, Payloads, None, NoKey, Malformed, Refused,
  UploadFaults, MaxExpiries

VARIABLES
  component, recorded, lost, buckets, batch, sending, minted, content, job,
  attempts, stalls, holder, wpc, wjob, ledger, counted

VARIABLES
  keyRow, upc, keyOf, payloadOf, error, life, staged, assets, objects,
  uanswer, expiries

usageVars ==
  <<recorded, lost, buckets, batch, sending, minted, content, job, attempts,
    stalls, holder, wpc, wjob, ledger, counted>>

uploadVars ==
  <<keyRow, upc, keyOf, payloadOf, error, life, staged, assets, objects,
    uanswer, expiries>>

Usage == INSTANCE UsageMetering WITH Faults <- UsageFaults

Upload ==
  INSTANCE IdempotentUpload
    WITH Requests <- Uploads, Keys <- UploadKeys, Faults <- UploadFaults,
         pc <- upc, answer <- uanswer

TwoUnits == {u1, u2}
OneCounter == (u1 :> c1) @@ (u2 :> c1)

-----------------------------------------------------------------------------
InitAll ==
  /\ component \in {"keys", "usage", "upload"}
  /\ Init /\ Usage!Init /\ Upload!Init

NextOne ==
  \/ component = "keys" /\ Next
     /\ UNCHANGED <<component, usageVars, uploadVars>>
  \/ component = "usage" /\ Usage!Next
     /\ UNCHANGED <<component, vars, uploadVars>>
  \/ component = "upload" /\ Upload!Next
     /\ UNCHANGED <<component, vars, usageVars>>

FairOne ==
  /\ InitAll
  /\ [][NextOne]_<<component, vars, usageVars, uploadVars>>
  /\ Fairness /\ Usage!Fairness /\ Upload!Fairness

\* UsageMetering's and IdempotentUpload's own, of these instances.
EveryCountArrives == Usage!EveryCountArrives
EveryUploadEnds == Upload!EveryUploadEnds
=============================================================================
