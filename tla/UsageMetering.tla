--------------------------- MODULE UsageMetering ---------------------------
(***************************************************************************)
(* Metering: API processes count in memory and flush their counts into     *)
(* jobs; workers apply the jobs to the usage table.                        *)
(*                                                                         *)
(*   usage-recorder.ts    record, flush (api)                              *)
(*   queue.ts             the BullMQ queue: at-least-once delivery         *)
(*   usage.aggregator.ts  apply: claim the event, add to the counter       *)
(*                                                                         *)
(* An amount is a set of units, each counted in one counter, that is one   *)
(* project, metric and UTC day: adding amounts is the union of disjoint    *)
(* sets, and counted[u] says how often unit u is part of usage.value.      *)
(***************************************************************************)
EXTENDS Naturals, FiniteSets

CONSTANTS
  Procs,        \* the API processes
  Slots,        \* a process may have this many flushes under way (a bound)
  Workers,      \* the concurrent job handlers of the worker processes
  Units,        \* what is counted
  Counters,     \* (project, metric, day)
  CounterOf,    \* CounterOf[u]: the counter of unit u
  Events,       \* the event ids that newId may return (a bound)
  NoEvent,
  NoWorker,
  MaxAttempts,  \* attempts of DEFAULT_JOB_OPTIONS
  MaxStalls,    \* how often a job may stall before it fails
  Faults        \* what may go wrong in this instance (see AllFaults)

(***************************************************************************)
(* "add": queue.add rejects and stored nothing; "add_unacked": it stored   *)
(* the job and rejects; "tx": the transaction of apply fails;              *)
(* "commit_unacked": it commits and is reported as failed; "stall": a      *)
(* worker that is still at work loses the lock on its job; "proc_crash",   *)
(* "worker_crash": a process dies.                                         *)
(***************************************************************************)
AllFaults == {"add", "add_unacked", "tx", "commit_unacked", "stall",
              "proc_crash", "worker_crash"}

ASSUME CountersAssumption == CounterOf \in [Units -> Counters]
ASSUME NothingAssumption == NoEvent \notin Events /\ NoWorker \notin Workers
ASSUME LimitsAssumption == MaxAttempts \in Nat \ {0} /\ MaxStalls \in Nat
ASSUME FaultsAssumption == Faults \subseteq AllFaults

Flushes == Procs \X Slots
Owner(f) == f[1]

VARIABLES
  recorded,  \* the units that were recorded (history)
  lost,      \* the units that died with their process (history)
  buckets,   \* buckets[p]: the counts of process p, not being flushed
  batch,     \* batch[f]: what flush f has still to enqueue
  sending,   \* sending[f]: the event of flush f that queue.add has not settled
  minted,    \* the event ids in use
  content,   \* content[e]: amount and counter of event e
  job,       \* job[e]: the state of the job with id e
  attempts,  \* attempts[e]: failed attempts of job e
  stalls,    \* stalls[e]: how often job e stalled
  holder,    \* holder[e]: the worker that holds the lock on job e
  wpc,       \* wpc[w]: where worker w is in apply
  wjob,      \* wjob[w]: the job it is at
  ledger,    \* usage_event_ledger (committed)
  counted    \* usage.value, unit by unit (committed)

memory == <<recorded, lost, buckets, batch, sending, minted, content>>
queue == <<job, attempts, stalls, holder>>
database == <<ledger, counted>>
vars == <<memory, queue, wpc, wjob, database>>

-----------------------------------------------------------------------------
\* Types, and: a flush and the job it enqueues hold units of one counter.
TypeOK ==
  /\ recorded \subseteq Units
  /\ lost \subseteq recorded
  /\ buckets \in [Procs -> SUBSET recorded]
  /\ batch \in [Flushes -> SUBSET recorded]
  /\ sending \in [Flushes -> minted \cup {NoEvent}]
  /\ minted \subseteq Events
  /\ content \in [Events -> SUBSET recorded]
  /\ \A e \in Events, u, v \in Units :
       u \in content[e] /\ v \in content[e] => CounterOf[u] = CounterOf[v]
  /\ job \in [Events -> {"none", "waiting", "active", "done", "failed"}]
  /\ attempts \in [Events -> 0..MaxAttempts]
  /\ stalls \in [Events -> Nat]
  /\ holder \in [Events -> Workers \cup {NoWorker}]
  /\ wpc \in [Workers -> {"idle", "claim", "add", "commit", "ack", "nack"}]
  /\ wjob \in [Workers -> Events \cup {NoEvent}]
  /\ \A w \in Workers : wpc[w] # "idle" => wjob[w] \in Events
  /\ ledger \subseteq minted
  /\ counted \in [Units -> Nat]

Init ==
  /\ recorded = {} /\ lost = {} /\ minted = {} /\ ledger = {}
  /\ buckets = [p \in Procs |-> {}]
  /\ batch = [f \in Flushes |-> {}]
  /\ sending = [f \in Flushes |-> NoEvent]
  /\ content = [e \in Events |-> {}]
  /\ job = [e \in Events |-> "none"]
  /\ attempts = [e \in Events |-> 0]
  /\ stalls = [e \in Events |-> 0]
  /\ holder = [e \in Events |-> NoWorker]
  /\ wpc = [w \in Workers |-> "idle"]
  /\ wjob = [w \in Workers |-> NoEvent]
  /\ counted = [u \in Units |-> 0]

-----------------------------------------------------------------------------
(***************************************************************************)
(* The recorder                                                            *)
(***************************************************************************)
Record(p, u) ==
  /\ u \notin recorded
  /\ recorded' = recorded \cup {u}
  /\ buckets' = [buckets EXCEPT ![p] = @ \cup {u}]
  /\ UNCHANGED <<lost, batch, sending, minted, content, queue, wpc, wjob,
                 database>>

\* The timer fires, or stop is called; flushes may overlap.
FlushStart(f) ==
  /\ batch[f] = {} /\ sending[f] = NoEvent
  /\ buckets[Owner(f)] # {}
  /\ batch' = [batch EXCEPT ![f] = buckets[Owner(f)]]
  /\ buckets' = [buckets EXCEPT ![Owner(f)] = {}]
  /\ UNCHANGED <<recorded, lost, sending, minted, content, queue, wpc, wjob,
                 database>>

\* A plausible slip: one job for the whole batch.
Bucket_Whole(f, c) == batch[f]

Bucket(f, c) == {u \in batch[f] : CounterOf[u] = c}

\* The call of queue.add for the next bucket of the batch.
Send(f) ==
  /\ sending[f] = NoEvent
  /\ \E c \in Counters, e \in Events \ minted :
       /\ Bucket(f, c) # {}
       /\ minted' = minted \cup {e}
       /\ content' = [content EXCEPT ![e] = Bucket(f, c)]
       /\ batch' = [batch EXCEPT ![f] = @ \ Bucket(f, c)]
       /\ sending' = [sending EXCEPT ![f] = e]
       /\ \/ job' = [job EXCEPT ![e] = "waiting"]
          \/ "add" \in Faults /\ UNCHANGED job
  /\ UNCHANGED <<recorded, lost, buckets, attempts, stalls, holder, wpc, wjob,
                 database>>

Added(f) ==
  /\ sending[f] # NoEvent
  /\ job[sending[f]] # "none"
  /\ sending' = [sending EXCEPT ![f] = NoEvent]
  /\ UNCHANGED <<recorded, lost, buckets, batch, minted, content, queue, wpc,
                 wjob, database>>

\* A plausible slip: the catch block puts the bucket back over the counts
\* that came in meanwhile.
AddFails_Overwrites(f) ==
  /\ sending[f] # NoEvent
  /\ job[sending[f]] = "none" \/ "add_unacked" \in Faults
  /\ LET back == content[sending[f]] IN
       buckets' = [buckets EXCEPT ![Owner(f)] =
                     {u \in @ : \A v \in back : CounterOf[u] # CounterOf[v]}
                       \cup back]
  /\ sending' = [sending EXCEPT ![f] = NoEvent]
  /\ UNCHANGED <<recorded, lost, batch, minted, content, queue, wpc, wjob,
                 database>>

\* The catch block of flush keeps the counts for the next flush, which
\* sends them under another event id.
AddFails(f) ==
  /\ sending[f] # NoEvent
  /\ job[sending[f]] = "none" \/ "add_unacked" \in Faults
  /\ buckets' = [buckets EXCEPT ![Owner(f)] = @ \cup content[sending[f]]]
  /\ sending' = [sending EXCEPT ![f] = NoEvent]
  /\ UNCHANGED <<recorded, lost, batch, minted, content, queue, wpc, wjob,
                 database>>

\* What a process holds in memory alone.
Unsent(f) ==
  IF sending[f] # NoEvent /\ job[sending[f]] = "none"
  THEN batch[f] \cup content[sending[f]] ELSE batch[f]

ProcCrash(p) ==
  /\ "proc_crash" \in Faults
  /\ LET own == {f \in Flushes : Owner(f) = p} IN
       /\ lost' = lost \cup buckets[p] \cup UNION {Unsent(f) : f \in own}
       /\ lost' # lost
       /\ batch' = [f \in Flushes |-> IF f \in own THEN {} ELSE batch[f]]
       /\ sending' = [f \in Flushes |-> IF f \in own THEN NoEvent
                                                     ELSE sending[f]]
  /\ buckets' = [buckets EXCEPT ![p] = {}]
  /\ UNCHANGED <<recorded, minted, content, queue, wpc, wjob, database>>

-----------------------------------------------------------------------------
(***************************************************************************)
(* The worker: one attempt of one job                                      *)
(***************************************************************************)
Goto(w, label) == wpc' = [wpc EXCEPT ![w] = label]
SameJob(w, v) == wjob[w] = wjob[v]
SameCounter(w, v) ==
  \E u \in content[wjob[w]], x \in content[wjob[v]] :
    CounterOf[u] = CounterOf[x]

Take(w) ==
  /\ wpc[w] = "idle"
  /\ \E e \in Events :
       /\ job[e] = "waiting"
       /\ job' = [job EXCEPT ![e] = "active"]
       /\ holder' = [holder EXCEPT ![e] = w]
       /\ wjob' = [wjob EXCEPT ![w] = e]
  /\ Goto(w, "claim")
  /\ UNCHANGED <<memory, attempts, stalls, database>>

\* A plausible slip: the event is looked up, not claimed by an insert that
\* waits for the other transaction.
ClaimEvent_Lookup(w) ==
  /\ wpc[w] = "claim"
  /\ \/ wjob[w] \in ledger /\ Goto(w, "ack")
     \/ wjob[w] \notin ledger /\ Goto(w, "add")
  /\ UNCHANGED <<memory, queue, wjob, database>>

\* The INSERT into the ledger waits for a transaction that holds the same
\* event id.
ClaimEvent(w) ==
  /\ wpc[w] = "claim"
  /\ \A v \in Workers \ {w} : SameJob(w, v) => wpc[v] \notin {"add", "commit"}
  /\ \/ wjob[w] \in ledger /\ Goto(w, "ack")
     \/ wjob[w] \notin ledger /\ Goto(w, "add")
  /\ UNCHANGED <<memory, queue, wjob, database>>

\* The upsert locks the counter's row.
AddToCounter(w) ==
  /\ wpc[w] = "add"
  /\ \A v \in Workers \ {w} : wpc[v] = "commit" => ~SameCounter(w, v)
  /\ Goto(w, "commit")
  /\ UNCHANGED <<memory, queue, wjob, database>>

\* A plausible slip: the counter is incremented outside the transaction
\* that claims the event.
Apply_Split(w) ==
  /\ ledger' = ledger \cup {wjob[w]}
  /\ counted' \in
       {counted, [u \in Units |-> IF u \in content[wjob[w]]
                                  THEN counted[u] + 1 ELSE counted[u]]}

Apply(w) ==
  /\ ledger' = ledger \cup {wjob[w]}
  /\ counted' = [u \in Units |-> IF u \in content[wjob[w]]
                                 THEN counted[u] + 1 ELSE counted[u]]

Commit(w) ==
  /\ wpc[w] = "commit"
  /\ Apply(w)
  /\ Goto(w, "ack")
  /\ UNCHANGED <<memory, queue, wjob>>

CommitUnacked(w) ==
  /\ "commit_unacked" \in Faults
  /\ wpc[w] = "commit"
  /\ Apply(w)
  /\ Goto(w, "nack")
  /\ UNCHANGED <<memory, queue, wjob>>

TxFails(w) ==
  /\ "tx" \in Faults
  /\ wpc[w] \in {"claim", "add", "commit"}
  /\ Goto(w, "nack")
  /\ UNCHANGED <<memory, queue, wjob, database>>

\* A plausible slip: a failed attempt is not tried again.
Retry_Never(e) == "done"

Retry(e) == IF attempts[e] + 1 < MaxAttempts THEN "waiting" ELSE "failed"

\* BullMQ ignores the outcome of a worker that has lost the job's lock.
Settle(w) ==
  /\ wpc[w] \in {"ack", "nack"}
  /\ LET e == wjob[w] IN
       \/ /\ holder[e] # w
          /\ UNCHANGED queue
       \/ /\ holder[e] = w /\ wpc[w] = "ack"
          /\ job' = [job EXCEPT ![e] = "done"]
          /\ holder' = [holder EXCEPT ![e] = NoWorker]
          /\ UNCHANGED <<attempts, stalls>>
       \/ /\ holder[e] = w /\ wpc[w] = "nack"
          /\ job' = [job EXCEPT ![e] = Retry(e)]
          /\ attempts' = [attempts EXCEPT ![e] = @ + 1]
          /\ holder' = [holder EXCEPT ![e] = NoWorker]
          /\ UNCHANGED stalls
  /\ Goto(w, "idle")
  /\ wjob' = [wjob EXCEPT ![w] = NoEvent]
  /\ UNCHANGED <<memory, database>>

WorkerCrash(w) ==
  /\ "worker_crash" \in Faults
  /\ wpc[w] # "idle"
  /\ Goto(w, "idle")
  /\ wjob' = [wjob EXCEPT ![w] = NoEvent]
  /\ UNCHANGED <<memory, queue, database>>

\* The lock of an active job runs out: its worker is gone, or is late.
Orphaned(e) == job[e] = "active" /\ wjob[holder[e]] # e

Stall(e) ==
  /\ job[e] = "active"
  /\ Orphaned(e) \/ "stall" \in Faults
  /\ stalls' = [stalls EXCEPT ![e] = @ + 1]
  /\ job' = [job EXCEPT ![e] = IF stalls[e] < MaxStalls THEN "waiting"
                                                        ELSE "failed"]
  /\ holder' = [holder EXCEPT ![e] = NoWorker]
  /\ UNCHANGED <<memory, attempts, wpc, wjob, database>>

-----------------------------------------------------------------------------
Flush(f) == FlushStart(f) \/ Send(f) \/ Added(f) \/ AddFails(f)
Work(w) ==
  \/ Take(w) \/ ClaimEvent(w) \/ AddToCounter(w) \/ Commit(w)
  \/ CommitUnacked(w) \/ TxFails(w) \/ Settle(w)

Next ==
  \/ \E p \in Procs, u \in Units : Record(p, u)
  \/ \E f \in Flushes : Flush(f)
  \/ \E p \in Procs : ProcCrash(p)
  \/ \E w \in Workers : Work(w) \/ WorkerCrash(w)
  \/ \E e \in Events : Stall(e)

Spec == Init /\ [][Next]_vars

(***************************************************************************)
(* The flush timer fires for ever, queue.add settles, a worker waits for   *)
(* jobs and goes on with the one it took, and BullMQ looks for jobs whose  *)
(* worker has gone.  Nothing makes a client send requests.                 *)
(***************************************************************************)
Fairness ==
  /\ \A f \in Flushes : WF_vars(Flush(f))
  /\ \A w \in Workers : WF_vars(Work(w))
  /\ \A e \in Events : WF_vars(Orphaned(e) /\ Stall(e))

FairSpec == Spec /\ Fairness

-----------------------------------------------------------------------------
(***************************************************************************)
(* Properties                                                              *)
(***************************************************************************)
InMemory(u) ==
  \/ \E p \in Procs : u \in buckets[p]
  \/ \E f \in Flushes : u \in Unsent(f)

InQueue(u) ==
  \E e \in Events : /\ u \in content[e]
                    /\ job[e] \in {"waiting", "active", "failed"}
                    /\ e \notin ledger

(***************************************************************************)
(* "Counters are applied exactly once" (docs/PLAN/15), the half that       *)
(* bills: no unit is counted twice, however often its job is delivered and *)
(* however often its flush is repeated.                                    *)
(***************************************************************************)
CountedAtMostOnce == \A u \in Units : counted[u] <= 1

(***************************************************************************)
(* A redelivered job adds nothing and a job that is done was applied: each *)
(* event of the ledger, and no other, is in the counters, once.            *)
(***************************************************************************)
LedgerMatchesUsage ==
  /\ \A u \in Units :
       counted[u] = Cardinality({e \in ledger : u \in content[e]})
  /\ \A e \in Events : job[e] = "done" => e \in ledger

(***************************************************************************)
(* The other half: what was recorded is counted, or in a job that will be  *)
(* delivered or is kept for the operator, or in a process's memory; it is  *)
(* lost only with that process (usage-recorder.ts flush).                  *)
(***************************************************************************)
NothingIsDropped ==
  \A u \in recorded : \/ u \in lost \/ counted[u] > 0
                      \/ InMemory(u) \/ InQueue(u)

(***************************************************************************)
(* Every recorded unit is counted in the end, unless its job used up its   *)
(* attempts, or stalled too often, and is kept as failed.  (Each of these  *)
(* lasts, so this is what u \in recorded ~> ... says; it costs TLC less.)  *)
(***************************************************************************)
EveryCountArrives ==
  <>[] \A u \in recorded :
         \/ counted[u] > 0 \/ u \in lost
         \/ \E e \in Events : u \in content[e] /\ job[e] = "failed"
=============================================================================
