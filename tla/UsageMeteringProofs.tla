------------------------ MODULE UsageMeteringProofs ------------------------
(***************************************************************************)
(* Proofs for UsageMetering: whatever fails, and for any number of         *)
(* processes, workers, counts and attempts, usage agrees with the ledger   *)
(* and no count disappears; and unless queue.add may reject a job it       *)
(* stored, no count is applied twice.                                      *)
(***************************************************************************)
EXTENDS UsageMetering, FiniteSetTheorems, TLAPS

\* Nothing is known of an event whose id has not been drawn.
FreshIds ==
  \A e \in Events \ minted : /\ job[e] = "none"
                             /\ \A f \in Flushes : sending[f] # e

InTx(w) == wpc[w] \in {"add", "commit"}

\* What a worker's label says of the job it is at, and of the ledger.
AtWork ==
  /\ \A e \in ledger : job[e] # "none"
  /\ \A w \in Workers : wpc[w] # "idle" => job[wjob[w]] # "none"
  /\ \A e \in Events : /\ holder[e] # NoWorker => job[e] = "active"
                       /\ job[e] # "failed" => attempts[e] < MaxAttempts
  /\ \A w \in Workers : wpc[w] = "ack" => wjob[w] \in ledger
  /\ \A w \in Workers : InTx(w) => wjob[w] \notin ledger
  /\ \A v, w \in Workers : InTx(v) /\ InTx(w) /\ v # w => wjob[v] # wjob[w]

\* The events of the ledger that counted unit u.
Counts(u) == {e \in ledger : u \in content[e]}

Accounted ==
  /\ IsFiniteSet(ledger)
  /\ \A u \in Units : counted[u] = Cardinality(Counts(u))

DoneIsApplied == \A e \in Events : job[e] = "done" => e \in ledger

Core == TypeOK /\ FreshIds /\ AtWork /\ DoneIsApplied

-----------------------------------------------------------------------------
(***************************************************************************)
(* Types, fresh ids and the labels of the workers                          *)
(***************************************************************************)
LEMMA CoreInit == Init => Core
BY NothingAssumption, LimitsAssumption
   DEF Init, Core, TypeOK, FreshIds, AtWork, InTx, DoneIsApplied

\* A step of a worker that only moves its label.
LEMMA MovesKeepTypes ==
  ASSUME TypeOK, NEW w \in Workers,
         NEW label \in {"idle", "claim", "add", "commit", "ack", "nack"},
         Goto(w, label), UNCHANGED <<memory, queue, wjob, database>>,
         wpc[w] # "idle"
  PROVE  TypeOK'
BY DEF TypeOK, Goto, memory, queue, database

\* The steps of a flush that enqueue nothing.
LEMMA RecorderCore ==
  ASSUME Core, NEW f \in Flushes,
         \/ FlushStart(f) \/ Added(f) \/ AddFails(f)
  PROVE  Core'
<1> USE DEF queue, database, Core, FreshIds, AtWork, InTx, DoneIsApplied
<1>1. Owner(f) \in Procs
  BY DEF Owner, Flushes
<1>2. CASE FlushStart(f)
  BY <1>1, <1>2 DEF FlushStart, TypeOK
<1>3. CASE Added(f)
  BY <1>1, <1>3, NothingAssumption DEF Added, TypeOK
<1>4. CASE AddFails(f)
  BY <1>1, <1>4, NothingAssumption DEF AddFails, TypeOK
<1> QED BY <1>2, <1>3, <1>4

\* queue.add of one bucket: its event id is fresh, its units of one counter.
LEMMA SendCore == ASSUME Core, NEW f \in Flushes, Send(f) PROVE Core'
<1>1. PICK c \in Counters, e \in Events \ minted :
        /\ minted' = minted \cup {e}
        /\ content' = [content EXCEPT ![e] = Bucket(f, c)]
        /\ batch' = [batch EXCEPT ![f] = @ \ Bucket(f, c)]
        /\ sending' = [sending EXCEPT ![f] = e]
        /\ \/ job' = [job EXCEPT ![e] = "waiting"]
           \/ "add" \in Faults /\ UNCHANGED job
  BY DEF Send
<1>2. UNCHANGED <<recorded, lost, buckets, attempts, stalls, holder, wpc,
                  wjob, ledger, counted>>
  BY DEF Send, database
<1>3. \A u \in Bucket(f, c) : u \in recorded /\ CounterOf[u] = c
  BY DEF Bucket, Core, TypeOK
<1>4. TypeOK'
  BY <1>1, <1>2, <1>3 DEF Core, TypeOK
<1>5. FreshIds'
  BY <1>1, <1>2, NothingAssumption DEF Core, TypeOK, FreshIds
<1>6. \A d \in Events : d # e => job'[d] = job[d]
  BY <1>1 DEF Core, TypeOK
<1>7. job[e] = "none" /\ job'[e] \in {"none", "waiting"}
  BY <1>1 DEF Core, TypeOK, FreshIds
<1>8. AtWork' /\ DoneIsApplied'
  BY <1>2, <1>6, <1>7 DEF Core, TypeOK, AtWork, InTx, DoneIsApplied
<1> QED BY <1>4, <1>5, <1>8 DEF Core

\* A process dies with what it had in memory.
LEMMA CrashCore == ASSUME Core, NEW p \in Procs, ProcCrash(p) PROVE Core'
<1> DEFINE own == {f \in Flushes : Owner(f) = p}
<1>1. /\ lost' = lost \cup buckets[p] \cup UNION {Unsent(f) : f \in own}
      /\ batch' = [f \in Flushes |-> IF f \in own THEN {} ELSE batch[f]]
      /\ sending' = [f \in Flushes |-> IF f \in own THEN NoEvent
                                                    ELSE sending[f]]
      /\ buckets' = [buckets EXCEPT ![p] = {}]
      /\ UNCHANGED <<recorded, minted, content, queue, wpc, wjob, database>>
  BY DEF ProcCrash
<1>2. \A f \in Flushes : Unsent(f) \subseteq recorded
  BY DEF Unsent, Core, TypeOK
<1>3. lost' \subseteq recorded
  BY <1>1, <1>2 DEF Core, TypeOK
<1> HIDE DEF own
<1>4. TypeOK'
  BY <1>1, <1>3 DEF Core, TypeOK, queue, database
<1> QED
  BY <1>1, <1>4, NothingAssumption
     DEF Core, TypeOK, FreshIds, AtWork, InTx, DoneIsApplied, queue, database

\* The steps of apply and what the queue does with its outcome.
LEMMA WorkerCore ==
  ASSUME Core, NEW w \in Workers, Work(w) \/ WorkerCrash(w)
  PROVE  Core'
<1> USE DEF memory, queue, database, Goto, Core, FreshIds, AtWork, InTx,
            DoneIsApplied
<1>1. CASE Take(w)
  <2>1. PICK e \in Events :
          /\ job[e] = "waiting"
          /\ job' = [job EXCEPT ![e] = "active"]
          /\ holder' = [holder EXCEPT ![e] = w]
          /\ wjob' = [wjob EXCEPT ![w] = e]
    BY <1>1 DEF Take
  <2>2. /\ wpc' = [wpc EXCEPT ![w] = "claim"]
        /\ UNCHANGED <<memory, attempts, stalls, database>>
    BY <1>1 DEF Take
  <2>3. TypeOK'
    BY <2>1, <2>2 DEF TypeOK
  <2>4. FreshIds' /\ DoneIsApplied'
    BY <2>1, <2>2 DEF TypeOK
  <2>5. AtWork'
    BY <2>1, <2>2, NothingAssumption DEF TypeOK
  <2> QED BY <2>3, <2>4, <2>5
<1>2. CASE ClaimEvent(w)
  BY <1>2 DEF ClaimEvent, TypeOK, SameJob
<1>3. CASE AddToCounter(w)
  BY <1>3 DEF AddToCounter, TypeOK
<1>4. CASE Commit(w) \/ CommitUnacked(w)
  <2>1. /\ wpc[w] = "commit"
        /\ \/ wpc' = [wpc EXCEPT ![w] = "ack"]
           \/ wpc' = [wpc EXCEPT ![w] = "nack"]
        /\ ledger' = ledger \cup {wjob[w]}
        /\ counted' = [u \in Units |-> IF u \in content[wjob[w]]
                                       THEN counted[u] + 1 ELSE counted[u]]
        /\ UNCHANGED <<memory, queue, wjob>>
    BY <1>4 DEF Commit, CommitUnacked, Apply
  <2>2. wjob[w] \in minted
    BY <2>1 DEF TypeOK
  <2>3. TypeOK'
    BY <2>1, <2>2 DEF TypeOK
  <2> QED BY <2>1, <2>3 DEF TypeOK
<1>5. CASE TxFails(w)
  BY <1>5 DEF TxFails, TypeOK
<1>6. CASE Settle(w)
  <2>1. /\ wpc[w] \in {"ack", "nack"}
        /\ wpc' = [wpc EXCEPT ![w] = "idle"]
        /\ wjob' = [wjob EXCEPT ![w] = NoEvent]
        /\ UNCHANGED <<memory, database>>
    BY <1>6 DEF Settle
  <2>2. CASE UNCHANGED queue
    BY <2>1, <2>2 DEF TypeOK
  <2>3. CASE /\ holder[wjob[w]] = w /\ wpc[w] = "ack"
             /\ job' = [job EXCEPT ![wjob[w]] = "done"]
             /\ holder' = [holder EXCEPT ![wjob[w]] = NoWorker]
             /\ UNCHANGED <<attempts, stalls>>
    <3>1. wjob[w] \in ledger /\ wjob[w] \in Events
      BY <2>1, <2>3 DEF TypeOK
    <3>2. TypeOK'
      BY <2>1, <2>3, <3>1 DEF TypeOK
    <3>3. FreshIds' /\ DoneIsApplied'
      BY <2>1, <2>3, <3>1 DEF TypeOK
    <3>4. AtWork'
      <4>1. \A e \in Events : e # wjob[w] =>
              job'[e] = job[e] /\ holder'[e] = holder[e]
        BY <2>3 DEF TypeOK
      <4>2. \A e \in ledger : e \in Events
        BY DEF TypeOK
      <4>3. /\ job'[wjob[w]] = "done" /\ job[wjob[w]] # "failed"
            /\ holder'[wjob[w]] = NoWorker
        BY <2>1, <2>3, <3>1, NothingAssumption DEF TypeOK
      <4>4. \A v \in Workers : v # w => wpc'[v] = wpc[v] /\ wjob'[v] = wjob[v]
        BY <2>1 DEF TypeOK
      <4>5. wpc'[w] = "idle"
        BY <2>1 DEF TypeOK
      <4> QED BY <2>1, <2>3, <3>1, <4>1, <4>2, <4>3, <4>4, <4>5 DEF TypeOK
    <3> QED BY <3>2, <3>3, <3>4
  <2>4. CASE /\ holder[wjob[w]] = w /\ wpc[w] = "nack"
             /\ job' = [job EXCEPT ![wjob[w]] = Retry(wjob[w])]
             /\ attempts' = [attempts EXCEPT ![wjob[w]] = @ + 1]
             /\ holder' = [holder EXCEPT ![wjob[w]] = NoWorker]
             /\ UNCHANGED stalls
    <3>1. wjob[w] \in Events /\ wjob[w] \in minted
      BY <2>1 DEF TypeOK
    <3>2. /\ job[wjob[w]] = "active"
          /\ attempts[wjob[w]] \in Nat /\ attempts[wjob[w]] < MaxAttempts
      BY <2>4, <3>1, NothingAssumption DEF TypeOK
    <3>3. /\ Retry(wjob[w]) \in {"waiting", "failed"}
          /\ Retry(wjob[w]) # "failed" => attempts[wjob[w]] + 1 < MaxAttempts
          /\ attempts[wjob[w]] + 1 \in 0..MaxAttempts
      BY <3>2, LimitsAssumption DEF Retry
    <3>4. TypeOK'
      BY <2>1, <2>4, <3>1, <3>3 DEF TypeOK
    <3>5. FreshIds' /\ DoneIsApplied'
      BY <2>1, <2>4, <3>1, <3>3 DEF TypeOK
    <3>6. AtWork'
      BY <2>1, <2>4, <3>1, <3>3 DEF TypeOK
    <3> QED BY <3>4, <3>5, <3>6
  <2> QED BY <1>6, <2>2, <2>3, <2>4 DEF Settle
<1>7. CASE WorkerCrash(w)
  BY <1>7 DEF WorkerCrash, TypeOK
<1> QED BY <1>1, <1>2, <1>3, <1>4, <1>5, <1>6, <1>7 DEF Work

\* Every step keeps types, fresh ids and labels.
LEMMA CoreStep == Core /\ [Next]_vars => Core'
<1> SUFFICES ASSUME Core, [Next]_vars PROVE Core'
  OBVIOUS
<1>1. ASSUME NEW p \in Procs, NEW u \in Units, Record(p, u) PROVE Core'
  BY <1>1 DEF Record, Core, TypeOK, FreshIds, AtWork, InTx, DoneIsApplied,
              queue, database
<1>2. ASSUME NEW f \in Flushes, Flush(f) PROVE Core'
  BY <1>2, RecorderCore, SendCore DEF Flush
<1>3. ASSUME NEW p \in Procs, ProcCrash(p) PROVE Core'
  BY <1>3, CrashCore
<1>4. ASSUME NEW w \in Workers, Work(w) \/ WorkerCrash(w) PROVE Core'
  BY <1>4, WorkerCore
<1>5. ASSUME NEW e \in Events, Stall(e) PROVE Core'
  BY <1>5 DEF Stall, Core, TypeOK, FreshIds, AtWork, InTx, DoneIsApplied,
              memory, queue, database
<1>6. CASE UNCHANGED vars
  BY <1>6 DEF vars, memory, queue, database, Core, TypeOK, FreshIds, AtWork,
              InTx, DoneIsApplied
<1> QED BY <1>1, <1>2, <1>3, <1>4, <1>5, <1>6 DEF Next

\* UsageMetering keeps its types, whatever fails.
THEOREM TypeCorrect == Spec => []TypeOK
<1>1. Core => TypeOK
  BY DEF Core
<1> QED BY CoreInit, CoreStep, <1>1, PTL DEF Spec

-----------------------------------------------------------------------------
(***************************************************************************)
(* The counters and the ledger (UsageAggregator.apply)                     *)
(***************************************************************************)
\* A transaction of apply counts its event once, with its ledger row.
LEMMA AccountedStep == Core /\ Accounted /\ [Next]_vars => Accounted'
<1> SUFFICES ASSUME Core, Accounted, [Next]_vars PROVE Accounted'
  OBVIOUS
<1>1. ASSUME NEW w \in Workers, Commit(w) \/ CommitUnacked(w)
      PROVE  Accounted'
  <2>1. /\ wpc[w] = "commit"
        /\ ledger' = ledger \cup {wjob[w]}
        /\ counted' = [u \in Units |-> IF u \in content[wjob[w]]
                                       THEN counted[u] + 1 ELSE counted[u]]
        /\ content' = content
    BY <1>1 DEF Commit, CommitUnacked, Apply, memory
  <2>2. wjob[w] \notin ledger
    BY <2>1 DEF Core, AtWork, InTx
  <2>3. IsFiniteSet(ledger')
    BY <2>1, FS_AddElement DEF Accounted
  <2>4. ASSUME NEW u \in Units
        PROVE  counted'[u] = Cardinality(Counts(u)')
    <3>1. IsFiniteSet(Counts(u)) /\ wjob[w] \notin Counts(u)
      BY <2>2, FS_Subset DEF Accounted, Counts
    <3>2. CASE u \in content[wjob[w]]
      <4>1. Counts(u)' = Counts(u) \cup {wjob[w]}
        BY <2>1, <3>2 DEF Counts
      <4>2. Cardinality(Counts(u)') = Cardinality(Counts(u)) + 1
        BY <3>1, <4>1, FS_AddElement
      <4> QED BY <2>1, <3>2, <4>2 DEF Accounted
    <3>3. CASE u \notin content[wjob[w]]
      <4>1. Counts(u)' = Counts(u)
        BY <2>1, <3>3 DEF Counts
      <4> QED BY <2>1, <3>3, <4>1 DEF Accounted
    <3> QED BY <3>2, <3>3
  <2> QED BY <2>3, <2>4 DEF Accounted
<1>2. ASSUME UNCHANGED database,
             \A e \in minted : content'[e] = content[e]
      PROVE  Accounted'
  <2>1. \A u : Counts(u)' = Counts(u)
    BY <1>2 DEF Counts, database, Core, TypeOK
  <2> QED BY <1>2, <2>1 DEF Accounted, database
<1>3. ASSUME NEW f \in Flushes, Flush(f) PROVE Accounted'
  BY <1>2, <1>3 DEF Flush, FlushStart, Send, Added, AddFails, Core, TypeOK
<1>4. ASSUME NEW w \in Workers,
             \/ Take(w) \/ ClaimEvent(w) \/ AddToCounter(w) \/ TxFails(w)
             \/ Settle(w) \/ WorkerCrash(w)
      PROVE  Accounted'
  BY <1>2, <1>4 DEF Take, ClaimEvent, AddToCounter, TxFails, Settle,
                    WorkerCrash, memory
<1> QED
  BY <1>1, <1>2, <1>3, <1>4
     DEF Next, Work, Record, ProcCrash, Stall, vars, memory

\* Nothing is in the ledger and nothing is counted.
LEMMA AccountedInit == Init => Accounted
<1> SUFFICES ASSUME Init PROVE Accounted
  OBVIOUS
<1>1. \A u : Counts(u) = {}
  BY DEF Init, Counts
<1> QED BY <1>1, FS_EmptySet DEF Init, Accounted

\* The counters hold what the events of the ledger amount to, and a finished
\* job is in the ledger: redelivery, lost COMMIT answers and late workers
\* change nothing (usage.aggregator.ts apply).
THEOREM LedgerAndUsageAgree == Spec => []LedgerMatchesUsage
<1>1. Core /\ Accounted => LedgerMatchesUsage
  BY DEF Core, Accounted, Counts, DoneIsApplied, LedgerMatchesUsage
<1> QED
  BY CoreInit, CoreStep, AccountedInit, AccountedStep, <1>1, PTL DEF Spec

-----------------------------------------------------------------------------
(***************************************************************************)
(* No count disappears                                                     *)
(***************************************************************************)
Kept(u) == u \in lost \/ counted[u] > 0 \/ InMemory(u) \/ InQueue(u)

\* What the worker and the queue do to a unit that is still in memory.
LEMMA MemoryIsTheProcess ==
  ASSUME Core, UNCHANGED memory,
         \A e \in Events : job'[e] = "none" <=> job[e] = "none",
         NEW u \in recorded, InMemory(u)
  PROVE  InMemory(u)'
BY DEF InMemory, Unsent, memory, Core, TypeOK, Flushes

\* A flush moves a unit between memory and queue, whatever queue.add does.
LEMMA RecorderKeeps ==
  ASSUME Core, NEW f \in Flushes, Flush(f), NEW u \in recorded, Kept(u)
  PROVE  Kept(u)'
<1> USE DEF Kept
<1>1. Owner(f) \in Procs
  BY DEF Owner, Flushes
<1>2. CASE FlushStart(f)
  <2>1. InQueue(u) => InQueue(u)'
    BY <1>2 DEF FlushStart, InQueue, queue, database
  <2>2. InMemory(u) => InMemory(u)'
    BY <1>1, <1>2 DEF FlushStart, InMemory, Unsent, Core, TypeOK, queue
  <2> QED BY <1>2, <2>1, <2>2 DEF FlushStart, database
<1>3. CASE Send(f)
  <2>1. PICK c \in Counters, e \in Events \ minted :
          /\ content' = [content EXCEPT ![e] = Bucket(f, c)]
          /\ batch' = [batch EXCEPT ![f] = @ \ Bucket(f, c)]
          /\ sending' = [sending EXCEPT ![f] = e]
          /\ job' = [job EXCEPT ![e] = "waiting"] \/ UNCHANGED job
    BY <1>3 DEF Send
  <2>2. /\ sending[f] = NoEvent
        /\ UNCHANGED <<recorded, lost, buckets, ledger, counted>>
    BY <1>3 DEF Send, database
  <2>3. /\ job[e] = "none" /\ e \notin ledger
        /\ \A g \in Flushes : sending[g] # e
        /\ job'[e] \in {"none", "waiting"}
        /\ content'[e] = Bucket(f, c) /\ sending'[f] = e /\ e # NoEvent
        /\ \A d \in Events : d # e => job'[d] = job[d] /\ content'[d] = content[d]
    BY <2>1, NothingAssumption DEF Core, TypeOK, FreshIds
  <2>4. InQueue(u) => InQueue(u)'
    BY <2>2, <2>3 DEF InQueue
  <2>5. ASSUME InMemory(u) PROVE InMemory(u)' \/ InQueue(u)'
    <3>1. CASE \E p \in Procs : u \in buckets[p]
      BY <2>2, <3>1 DEF InMemory
    <3>2. CASE \E g \in Flushes \ {f} : u \in Unsent(g)
      <4>1. PICK g \in Flushes \ {f} : u \in Unsent(g)
        BY <3>2
      <4>2. /\ sending'[g] = sending[g] /\ batch'[g] = batch[g]
            /\ sending[g] # e
            /\ sending[g] \in Events \cup {NoEvent}
        BY <2>1, <2>3 DEF Core, TypeOK
      <4>3. Unsent(g)' = Unsent(g)
        BY <2>3, <4>2 DEF Unsent
      <4> QED BY <4>1, <4>3 DEF InMemory
    <3>3. CASE u \in Unsent(f)
      <4>1. u \in batch[f]
        BY <2>2, <3>3 DEF Unsent
      <4>2. u \in batch'[f] \/ u \in content'[e]
        BY <2>1, <2>3, <4>1 DEF Core, TypeOK
      <4>3. CASE u \in batch'[f]
        BY <4>3 DEF InMemory, Unsent
      <4>4. CASE u \in content'[e] /\ job'[e] = "none"
        BY <2>3, <4>4 DEF InMemory, Unsent
      <4>5. CASE u \in content'[e] /\ job'[e] = "waiting"
        BY <2>2, <2>3, <4>5 DEF InQueue
      <4> QED BY <2>3, <4>2, <4>3, <4>4, <4>5
    <3> QED BY <2>5, <3>1, <3>2, <3>3 DEF InMemory
  <2> QED BY <2>2, <2>4, <2>5
<1>4. CASE Added(f)
  <2>1. InQueue(u) => InQueue(u)'
    BY <1>4 DEF Added, InQueue, queue, database
  <2>2. InMemory(u) => InMemory(u)'
    BY <1>4 DEF Added, InMemory, Unsent, Core, TypeOK, queue
  <2> QED BY <1>4, <2>1, <2>2 DEF Added, database
<1>5. CASE AddFails(f)
  <2>1. InQueue(u) => InQueue(u)'
    BY <1>5 DEF AddFails, InQueue, queue, database
  <2>2. InMemory(u) => InMemory(u)'
    BY <1>1, <1>5 DEF AddFails, InMemory, Unsent, Core, TypeOK, queue
  <2> QED BY <1>5, <2>1, <2>2 DEF AddFails, database
<1> QED BY <1>2, <1>3, <1>4, <1>5 DEF Flush

\* A crash takes what the process held in memory alone.
LEMMA CrashKeeps ==
  ASSUME Core, NEW p \in Procs, ProcCrash(p), NEW u \in recorded, Kept(u)
  PROVE  Kept(u)'
<1>1. /\ lost' = lost \cup buckets[p]
                      \cup UNION {Unsent(f) : f \in {g \in Flushes : Owner(g) = p}}
      /\ \A f \in Flushes : Owner(f) # p => batch'[f] = batch[f]
                                            /\ sending'[f] = sending[f]
      /\ \A q \in Procs : q # p => buckets'[q] = buckets[q]
      /\ UNCHANGED <<content, job, ledger, counted>>
  BY DEF ProcCrash, Core, TypeOK, queue, database
<1>2. InQueue(u) => InQueue(u)'
  BY <1>1 DEF InQueue
<1>3. InMemory(u) => u \in lost' \/ InMemory(u)'
  <2>1. ASSUME NEW q \in Procs, u \in buckets[q]
        PROVE  u \in lost' \/ InMemory(u)'
    BY <1>1, <2>1 DEF InMemory
  <2>2. ASSUME NEW f \in Flushes, u \in Unsent(f), Owner(f) # p
        PROVE  InMemory(u)'
    <3>1. Unsent(f)' = Unsent(f)
      BY <1>1, <2>2 DEF Unsent
    <3> QED BY <2>2, <3>1 DEF InMemory
  <2>3. ASSUME NEW f \in Flushes, u \in Unsent(f), Owner(f) = p
        PROVE  u \in lost'
    BY <1>1, <2>3
  <2> QED BY <2>1, <2>2, <2>3 DEF InMemory
<1> QED BY <1>1, <1>2, <1>3 DEF Kept

\* A worker drops no unit: a job is done only once its event is applied.
LEMMA WorkerKeeps ==
  ASSUME Core, NEW w \in Workers, Work(w) \/ WorkerCrash(w),
         NEW u \in recorded, Kept(u)
  PROVE  Kept(u)'
<1>1. u \in Units
  BY DEF Core, TypeOK
<1>2. CASE Take(w)
  <2>1. PICK e \in Events : /\ job[e] = "waiting"
                            /\ job' = [job EXCEPT ![e] = "active"]
    BY <1>2 DEF Take
  <2>2. UNCHANGED <<memory, ledger, counted>>
    BY <1>2 DEF Take, database
  <2>3. \A d \in Events : job'[d] = "none" <=> job[d] = "none"
    BY <2>1 DEF Core, TypeOK
  <2>4. InMemory(u) => InMemory(u)'
    BY <2>2, <2>3, MemoryIsTheProcess
  <2>5. InQueue(u) => InQueue(u)'
    BY <2>1, <2>2 DEF InQueue, memory, Core, TypeOK
  <2> QED BY <2>2, <2>4, <2>5 DEF Kept, memory
<1>3. CASE Commit(w) \/ CommitUnacked(w)
  <2>1. /\ ledger' = ledger \cup {wjob[w]}
        /\ counted' = [x \in Units |-> IF x \in content[wjob[w]]
                                       THEN counted[x] + 1 ELSE counted[x]]
        /\ UNCHANGED <<memory, queue>>
    BY <1>3 DEF Commit, CommitUnacked, Apply
  <2>2. InMemory(u) => InMemory(u)'
    BY <2>1, MemoryIsTheProcess DEF queue
  <2>3. counted[u] \in Nat /\ (counted[u] > 0 => counted'[u] > 0)
    BY <1>1, <2>1 DEF Core, TypeOK
  <2>4. InQueue(u) => InQueue(u)' \/ counted'[u] > 0
    BY <1>1, <2>1, <2>3 DEF InQueue, memory, queue
  <2> QED BY <2>1, <2>2, <2>3, <2>4 DEF Kept, memory
<1>4. CASE Settle(w)
  <2>1. /\ wpc[w] \in {"ack", "nack"} /\ wjob[w] \in Events
        /\ UNCHANGED <<memory, database>>
    BY <1>4 DEF Settle, Core, TypeOK
  <2>2. \/ UNCHANGED queue
        \/ /\ wpc[w] = "ack"
           /\ job' = [job EXCEPT ![wjob[w]] = "done"]
        \/ /\ wpc[w] = "nack"
           /\ job' = [job EXCEPT ![wjob[w]] = Retry(wjob[w])]
    BY <1>4 DEF Settle
  <2>3. Retry(wjob[w]) \in {"waiting", "failed"} /\ job[wjob[w]] # "none"
    BY <2>1 DEF Retry, Core, AtWork
  <2>4. InMemory(u) => InMemory(u)'
    <3>1. \A d \in Events : job'[d] = "none" <=> job[d] = "none"
      BY <2>1, <2>2, <2>3 DEF queue, Core, TypeOK
    <3> QED BY <2>1, <3>1, MemoryIsTheProcess
  <2>5. wpc[w] = "ack" => wjob[w] \in ledger
    BY DEF Core, AtWork
  <2>6. InQueue(u) => InQueue(u)'
    BY <2>1, <2>2, <2>3, <2>5 DEF InQueue, memory, queue, database, Core, TypeOK
  <2> QED BY <2>1, <2>4, <2>6 DEF Kept, memory, database
<1>5. CASE UNCHANGED <<memory, queue, database>>
  BY <1>5, MemoryIsTheProcess DEF Kept, InQueue, memory, queue, database
<1> QED
  BY <1>2, <1>3, <1>4, <1>5
     DEF Work, ClaimEvent, AddToCounter, TxFails, WorkerCrash

\* A recorded unit is counted, under way or lost with its process, and with
\* nothing else: no retry, redelivery or failure drops it (usage-recorder.ts
\* flush, queue.ts, usage.aggregator.ts apply).
THEOREM NoCountDisappears == Spec => []NothingIsDropped
<1>1. Init => NothingIsDropped
  BY DEF Init, NothingIsDropped
<1>2. Core /\ NothingIsDropped /\ [Next]_vars => NothingIsDropped'
  <2> SUFFICES ASSUME Core, NothingIsDropped, [Next]_vars, NEW u \in recorded'
               PROVE  Kept(u)'
    BY DEF NothingIsDropped, Kept
  <2>1. u \in recorded => Kept(u)
    BY DEF NothingIsDropped, Kept
  <2>2. ASSUME NEW p \in Procs, NEW v \in Units, Record(p, v)
        PROVE  Kept(u)'
    <3>1. CASE u = v
      BY <2>2, <3>1 DEF Record, Kept, InMemory, Core, TypeOK
    <3>2. CASE u # v
      <4>1. InMemory(u) => InMemory(u)'
        BY <2>2 DEF Record, InMemory, Unsent, queue, Core, TypeOK
      <4>2. InQueue(u) => InQueue(u)'
        BY <2>2 DEF Record, InQueue, queue, database
      <4> QED BY <2>1, <2>2, <3>2, <4>1, <4>2 DEF Record, Kept, database
    <3> QED BY <3>1, <3>2
  <2>3. ASSUME NEW f \in Flushes, Flush(f) PROVE Kept(u)'
    <3>1. u \in recorded
      BY <2>3 DEF Flush, FlushStart, Send, Added, AddFails
    <3> QED BY <2>1, <2>3, <3>1, RecorderKeeps
  <2>4. ASSUME NEW p \in Procs, ProcCrash(p) PROVE Kept(u)'
    BY <2>1, <2>4, CrashKeeps DEF ProcCrash
  <2>5. ASSUME NEW w \in Workers, Work(w) \/ WorkerCrash(w) PROVE Kept(u)'
    <3>1. u \in recorded
      BY <2>5 DEF Work, Take, ClaimEvent, AddToCounter, Commit, CommitUnacked,
                  TxFails, Settle, WorkerCrash, memory
    <3> QED BY <2>1, <2>5, <3>1, WorkerKeeps
  <2>6. ASSUME NEW e \in Events, Stall(e) PROVE Kept(u)'
    <3>1. \A d \in Events : job'[d] = "none" <=> job[d] = "none"
      BY <2>6 DEF Stall, Core, TypeOK
    <3>2. UNCHANGED <<memory, database>>
      BY <2>6 DEF Stall
    <3>3. InQueue(u) => InQueue(u)'
      BY <2>6 DEF Stall, InQueue, memory, database, Core, TypeOK
    <3> QED BY <2>1, <3>1, <3>2, <3>3, MemoryIsTheProcess DEF Kept, memory, database
  <2>7. CASE UNCHANGED vars
    BY <2>1, <2>7, MemoryIsTheProcess
       DEF Kept, InQueue, vars, memory, queue, database
  <2> QED BY <2>2, <2>3, <2>4, <2>5, <2>6, <2>7 DEF Next
<1> QED BY CoreInit, CoreStep, <1>1, <1>2, PTL DEF Spec

-----------------------------------------------------------------------------
(***************************************************************************)
(* No count is applied twice, when a rejected queue.add stored nothing:    *)
(* then a unit is in one bucket, one batch or one event that still counts. *)
(***************************************************************************)
RejectedMeansAbsent == "add_unacked" \notin Faults

\* Event e is in the queue or on its way there; no other event ever counts.
Live(e) == job[e] # "none" \/ \E f \in Flushes : sending[f] = e

Disjoint(A, B) == A \cap B = {}

OnePlace ==
  /\ \A p, q \in Procs : p # q => Disjoint(buckets[p], buckets[q])
  /\ \A f, g \in Flushes : f # g => /\ Disjoint(batch[f], batch[g])
                                    /\ \/ sending[f] = NoEvent
                                       \/ sending[f] # sending[g]
  /\ \A d, e \in Events : d # e /\ Live(d) /\ Live(e) =>
                            Disjoint(content[d], content[e])
  /\ \A p \in Procs, f \in Flushes : Disjoint(buckets[p], batch[f])
  /\ \A e \in Events : Live(e) =>
       /\ \A p \in Procs : Disjoint(content[e], buckets[p])
       /\ \A f \in Flushes : Disjoint(content[e], batch[f])

\* A unit that is recorded was nowhere before.
LEMMA RecordOnePlace ==
  ASSUME Core, OnePlace, NEW p \in Procs, NEW u \in Units, Record(p, u)
  PROVE  OnePlace'
<1>1. /\ u \notin recorded
      /\ buckets' = [buckets EXCEPT ![p] = @ \cup {u}]
      /\ UNCHANGED <<batch, sending, content, job>>
  BY DEF Record, queue
<1>2. \A e : Live(e)' <=> Live(e)
  BY <1>1 DEF Live
<1> QED BY <1>1, <1>2 DEF OnePlace, Disjoint, Core, TypeOK

\* A flush takes the whole bucket of its process.
LEMMA StartOnePlace ==
  ASSUME Core, OnePlace, NEW f \in Flushes, FlushStart(f)
  PROVE  OnePlace'
<1>1. /\ batch' = [batch EXCEPT ![f] = buckets[Owner(f)]]
      /\ buckets' = [buckets EXCEPT ![Owner(f)] = {}]
      /\ UNCHANGED <<sending, content, job>>
  BY DEF FlushStart, queue
<1>2. Owner(f) \in Procs
  BY DEF Owner, Flushes
<1>3. \A e : Live(e)' <=> Live(e)
  BY <1>1 DEF Live
<1> QED BY <1>1, <1>2, <1>3 DEF OnePlace, Disjoint, Core, TypeOK

\* A bucket of the batch becomes the content of one event.
LEMMA SendOnePlace ==
  ASSUME Core, OnePlace, NEW f \in Flushes, Send(f)
  PROVE  OnePlace'
<1>1. PICK c \in Counters, e \in Events \ minted :
        /\ content' = [content EXCEPT ![e] = Bucket(f, c)]
        /\ batch' = [batch EXCEPT ![f] = @ \ Bucket(f, c)]
        /\ sending' = [sending EXCEPT ![f] = e]
        /\ job' = [job EXCEPT ![e] = "waiting"] \/ UNCHANGED job
  BY DEF Send
<1>2. sending[f] = NoEvent /\ UNCHANGED buckets
  BY DEF Send
<1>3. Bucket(f, c) \subseteq batch[f]
  BY DEF Bucket
<1>4. /\ content'[e] = Bucket(f, c)
      /\ batch'[f] = batch[f] \ Bucket(f, c) /\ sending'[f] = e
      /\ \A g \in Flushes : g # f => batch'[g] = batch[g]
                                     /\ sending'[g] = sending[g]
      /\ \A g \in Flushes : sending[g] # e
      /\ \A d \in Events : d # e => /\ content'[d] = content[d]
                                    /\ job'[d] = job[d]
  BY <1>1 DEF Core, TypeOK, FreshIds
<1>5. \A d \in Events : d # e => (Live(d)' <=> Live(d))
  BY <1>2, <1>4, NothingAssumption DEF Live
<1> QED BY <1>2, <1>3, <1>4, <1>5 DEF OnePlace, Disjoint

\* What is put back is no longer on its way, as the queue has no job of it.
LEMMA SettledOnePlace ==
  ASSUME RejectedMeansAbsent, Core, OnePlace, NEW f \in Flushes,
         Added(f) \/ AddFails(f)
  PROVE  OnePlace'
<1>1. /\ sending[f] \in Events
      /\ sending'[f] = NoEvent
      /\ \A g \in Flushes : g # f => sending'[g] = sending[g]
      /\ UNCHANGED <<batch, content, job>>
  BY DEF Added, AddFails, Core, TypeOK, queue
<1>2. \A e \in Events : Live(e)' => Live(e)
  BY <1>1, NothingAssumption DEF Live
<1>3. CASE Added(f)
  <2>1. UNCHANGED buckets
    BY <1>3 DEF Added
  <2> QED BY <1>1, <1>2, <2>1 DEF OnePlace
<1>4. CASE AddFails(f)
  <2>0. PICK e \in Events : e = sending[f]
    BY <1>1
  <2>1. Owner(f) \in Procs
    BY DEF Owner, Flushes
  <2>2. buckets' = [buckets EXCEPT ![Owner(f)] = @ \cup content[e]]
    BY <1>4, <2>0 DEF AddFails
  <2>3. job[e] = "none"
    BY <1>4, <2>0 DEF AddFails, RejectedMeansAbsent
  <2>4. Live(e) /\ ~Live(e)'
    <3>1. e # NoEvent
      BY NothingAssumption
    <3>2. \A g \in Flushes : g # f => sending[g] # e
      BY <2>0, <3>1 DEF OnePlace
    <3> QED BY <1>1, <2>0, <2>3, <3>1, <3>2 DEF Live
  <2>5. \A p \in Procs : buckets'[p] = IF p = Owner(f)
                                       THEN buckets[p] \cup content[e]
                                       ELSE buckets[p]
    BY <2>1, <2>2 DEF Core, TypeOK
  <2>6. \A p \in Procs : Disjoint(content[e], buckets[p])
    BY <2>4 DEF OnePlace
  <2>7. \A g \in Flushes : Disjoint(content[e], batch[g])
    BY <2>4 DEF OnePlace
  <2>8. \A d \in Events : Live(d)' => Live(d) /\ d # e
    BY <1>2, <2>4
  <2>9. \A d \in Events : Live(d)' => Disjoint(content[d], content[e])
    BY <2>4, <2>8 DEF OnePlace
  <2>10. \A p, q \in Procs : p # q => Disjoint(buckets'[p], buckets'[q])
    BY <2>5, <2>6 DEF OnePlace, Disjoint
  <2>11. \A p \in Procs, g \in Flushes : Disjoint(buckets'[p], batch'[g])
    BY <1>1, <2>5, <2>7 DEF OnePlace, Disjoint
  <2>12. \A d \in Events : Live(d)' =>
           \A p \in Procs : Disjoint(content'[d], buckets'[p])
    BY <1>1, <2>5, <2>8, <2>9 DEF OnePlace, Disjoint
  <2>13. \A g, h \in Flushes : g # h => \/ sending'[g] = NoEvent
                                       \/ sending'[g] # sending'[h]
    BY <1>1, NothingAssumption DEF OnePlace, Core, TypeOK
  <2> QED BY <1>1, <2>8, <2>10, <2>11, <2>12, <2>13 DEF OnePlace
<1> QED BY <1>3, <1>4

\* A crash only empties places.
LEMMA CrashOnePlace ==
  ASSUME Core, OnePlace, NEW p \in Procs, ProcCrash(p)
  PROVE  OnePlace'
<1>1. /\ \A q \in Procs : buckets'[q] \subseteq buckets[q]
      /\ \A f \in Flushes : /\ batch'[f] \subseteq batch[f]
                            /\ sending'[f] \in {NoEvent, sending[f]}
      /\ UNCHANGED <<content, job>>
  BY DEF ProcCrash, Core, TypeOK, queue
<1>2. \A e \in Events : Live(e)' => Live(e)
  BY <1>1, NothingAssumption DEF Live
<1> QED BY <1>1, <1>2 DEF OnePlace, Disjoint

\* Every step leaves each unit in one place.
LEMMA OnePlaceStep ==
  RejectedMeansAbsent /\ Core /\ OnePlace /\ [Next]_vars => OnePlace'
<1> SUFFICES ASSUME RejectedMeansAbsent, Core, OnePlace, [Next]_vars
             PROVE  OnePlace'
  OBVIOUS
<1>1. ASSUME UNCHANGED memory,
             \A e \in Events : job'[e] # "none" => job[e] # "none"
      PROVE  OnePlace'
  <2>1. \A e \in Events : Live(e)' => Live(e)
    BY <1>1 DEF Live, memory
  <2> QED BY <1>1, <2>1 DEF OnePlace, memory
<1>2. ASSUME NEW w \in Workers, Work(w) \/ WorkerCrash(w) PROVE OnePlace'
  <2>1. UNCHANGED memory
    BY <1>2 DEF Work, Take, ClaimEvent, AddToCounter, Commit, CommitUnacked,
                TxFails, Settle, WorkerCrash
  <2>2. CASE Take(w)
    BY <1>1, <2>1, <2>2 DEF Take, Core, TypeOK
  <2>3. CASE Settle(w)
    <3>1. job[wjob[w]] # "none"
      BY <2>3 DEF Settle, Core, AtWork
    <3> QED BY <1>1, <2>1, <2>3, <3>1 DEF Settle, queue, Core, TypeOK
  <2>4. CASE UNCHANGED queue
    BY <1>1, <2>1, <2>4 DEF queue
  <2> QED
    BY <1>2, <2>2, <2>3, <2>4
       DEF Work, ClaimEvent, AddToCounter, Commit, CommitUnacked, TxFails,
           WorkerCrash
<1>3. ASSUME NEW e \in Events, Stall(e) PROVE OnePlace'
  BY <1>1, <1>3 DEF Stall, Core, TypeOK
<1>4. CASE UNCHANGED vars
  BY <1>1, <1>4 DEF vars, queue
<1>5. ASSUME NEW f \in Flushes, Flush(f) PROVE OnePlace'
  BY <1>5, StartOnePlace, SendOnePlace, SettledOnePlace DEF Flush
<1> QED
  BY <1>2, <1>3, <1>4, <1>5, RecordOnePlace, CrashOnePlace DEF Next

\* However often a flush is repeated and a job delivered, no unit is counted
\* twice, unless queue.add can reject a job that it stored: the run
\* usage_double_count shows that this cannot be dropped (docs/PLAN/15).
THEOREM NoDoubleCount ==
  RejectedMeansAbsent => (Spec => []CountedAtMostOnce)
<1> SUFFICES ASSUME RejectedMeansAbsent PROVE Spec => []CountedAtMostOnce
  OBVIOUS
<1>1. Init => OnePlace
  BY DEF Init, OnePlace, Disjoint, Live
<1>2. Core /\ OnePlace /\ [Next]_vars => OnePlace'
  BY OnePlaceStep
<1>3. Core /\ Accounted /\ OnePlace => CountedAtMostOnce
  <2> SUFFICES ASSUME Core, Accounted, OnePlace, NEW u \in Units
               PROVE  counted[u] <= 1
    BY DEF CountedAtMostOnce
  <2>1. \A d, e \in Counts(u) : d = e
    BY DEF Counts, Core, TypeOK, AtWork, Live, OnePlace, Disjoint
  <2>2. CASE Counts(u) = {}
    BY <2>2, FS_EmptySet DEF Accounted
  <2>3. CASE Counts(u) # {}
    <3>1. PICK e \in Counts(u) : Counts(u) = {e}
      BY <2>1, <2>3
    <3>2. Cardinality(Counts(u)) = 1
      BY <3>1, FS_Singleton
    <3> QED BY <3>2 DEF Accounted
  <2> QED BY <2>2, <2>3
<1> QED
  BY CoreInit, CoreStep, AccountedInit, AccountedStep, <1>1, <1>2, <1>3, PTL
     DEF Spec
=============================================================================
