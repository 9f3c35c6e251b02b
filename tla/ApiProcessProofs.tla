-------------------------- MODULE ApiProcessProofs --------------------------
(***************************************************************************)
(* Proofs about what an API process keeps in memory.  ApiProcess, for      *)
(* every number of handlers, overlapping flushes, keys and connections: no *)
(* use of a key is lost between two flushes, and shutdown cuts no request  *)
(* whose client is there.  FailureLimiter, for every set of addresses,     *)
(* every limit, window and capacity, any number of lookups at once, and    *)
(* every clock.                                                            *)
(***************************************************************************)
EXTENDS ApiProcess, FailureLimiter, FiniteSetTheorems, TLAPS

-----------------------------------------------------------------------------
(***************************************************************************)
(* Types.                                                                  *)
(***************************************************************************)
\* The three ways a request leaves its handler (Finish) keep the types.
LEMMA FinishType ==
  ASSUME ApiTypeOK, NEW h \in Handlers, Finish(h)
  PROVE  ApiTypeOK'
BY DEF ApiTypeOK, Finish, Become, tracker

\* flush (last-used-tracker.ts) moves the whole set into a batch, or nothing.
LEMMA BeginFlushType ==
  ASSUME ApiTypeOK, NEW f \in Flushes, BeginFlush(f)
  PROVE  /\ pending' \subseteq Keys
         /\ flush' \in [Flushes -> {"free", "waiting", "writing"}]
         /\ batch' \in [Flushes -> SUBSET Keys]
         /\ stamp' \in [Flushes -> [Keys -> Nat]]
<1> USE DEF ApiTypeOK
<1>1. CASE pending = {}
  BY <1>1 DEF BeginFlush
<1>2. CASE pending # {}
  <2>1. pending' = {} /\ flush' = [flush EXCEPT ![f] = "waiting"]
    BY <1>2 DEF BeginFlush
  <2>2. batch' \in [Flushes -> SUBSET Keys]
    BY <1>2 DEF BeginFlush
  <2>3. stamp' \in [Flushes -> [Keys -> Nat]]
    BY <1>2 DEF BeginFlush
  <2> QED BY <2>1, <2>2, <2>3
<1> QED BY <1>1, <1>2

\* A flush that is over is free, with nothing in its batch.
LEMMA DoneType ==
  ASSUME ApiTypeOK, NEW f \in Flushes, Done(f)
  PROVE  /\ flush' \in [Flushes -> {"free", "waiting", "writing"}]
         /\ batch' \in [Flushes -> SUBSET Keys]
         /\ stamp' \in [Flushes -> [Keys -> Nat]]
<1>1. [k \in Keys |-> 0] \in [Keys -> Nat]
  OBVIOUS
<1> QED BY <1>1 DEF ApiTypeOK, Done

\* Every step of the process keeps the types of its state.
LEMMA ApiTypeStep == ApiTypeOK /\ [ApiNext]_apiVars => ApiTypeOK'
<1> SUFFICES ASSUME ApiTypeOK, [ApiNext]_apiVars PROVE ApiTypeOK'
  OBVIOUS
<1> USE DEF requests, tracker
<1>1. ASSUME NEW h \in Handlers, Connect(h) PROVE ApiTypeOK'
  BY <1>1 DEF ApiTypeOK, Connect, Become
<1>2. ASSUME NEW h \in Handlers,
             \/ Unserved(h) \/ Answered(h) \/ BodyRefused(h)
             \/ PutRejects(h)
      PROVE  ApiTypeOK'
  BY <1>2, FinishType DEF Unserved, Answered, BodyRefused, PutRejects
<1>3. ASSUME NEW h \in Handlers, Seen(h) PROVE ApiTypeOK'
  BY <1>3 DEF ApiTypeOK, Seen, Become
<1>4. ASSUME NEW h \in Handlers, Disconnect(h) PROVE ApiTypeOK'
  BY <1>4 DEF ApiTypeOK, Disconnect
<1>15. ASSUME NEW h \in Handlers,
              BodyArrives(h) \/ BeginPut(h) \/ PutStored(h)
       PROVE  ApiTypeOK'
  BY <1>15 DEF ApiTypeOK, BodyArrives, BeginPut, PutStored, Become
<1>5. ASSUME NEW h \in Handlers, NEW k \in Keys, Accept(h, k) PROVE ApiTypeOK'
  BY <1>5 DEF ApiTypeOK, Accept, Become
<1>6. ASSUME NEW f \in Flushes, ConnectFlush(f) PROVE ApiTypeOK'
  BY <1>6 DEF ApiTypeOK, ConnectFlush
<1>7. ASSUME NEW f \in Flushes, Written(f) PROVE ApiTypeOK'
  <2>1. recorded' \in [Keys -> Nat]
    BY <1>7 DEF ApiTypeOK, Written, RecordUse
  <2> QED BY <1>7, <2>1, DoneType DEF ApiTypeOK, Written
<1>8. ASSUME NEW f \in Flushes, WriteFails(f) PROVE ApiTypeOK'
  BY <1>8, DoneType DEF ApiTypeOK, WriteFails
<1>9. ASSUME NEW f \in Timers, TimerFlush(f) PROVE ApiTypeOK'
  BY <1>9, BeginFlushType DEF ApiTypeOK, TimerFlush, Flushes
<1>10. CASE Close
  BY <1>10, BeginFlushType DEF ApiTypeOK, Close, Flushes
<1>11. CASE Release
  BY <1>11 DEF ApiTypeOK, Release
<1>12. ASSUME NEW r \in Resources, Settle(r) PROVE ApiTypeOK'
  BY <1>12 DEF ApiTypeOK, Settle
<1>13. CASE Exit \/ SecondSignal \/ Killed \/ Signal
  BY <1>13 DEF ApiTypeOK, Exit, SecondSignal, Killed, Signal, Terminate,
               Running
<1>14. CASE UNCHANGED apiVars
  BY <1>14 DEF ApiTypeOK, apiVars
<1> QED
  BY <1>1, <1>2, <1>3, <1>4, <1>5, <1>6, <1>7, <1>8, <1>9, <1>10, <1>11,
     <1>12, <1>13, <1>14, <1>15
     DEF ApiNext, HandlerStep, ClientStep, StorageStep, FlushStep,
         ShutdownStep, Remote, Resources

\* A process starts with the types of its state.
LEMMA ApiTypeInit == ApiInit => ApiTypeOK
BY KeysAssumption DEF ApiInit, ApiTypeOK

(***************************************************************************)
(* The state of an API process keeps its types, and it has exited exactly  *)
(* when it has an exit (server.ts shutdown).                               *)
(***************************************************************************)
THEOREM TypeCorrect == ApiSpec => []ApiTypeOK
BY ApiTypeInit, ApiTypeStep, PTL DEF ApiSpec

-----------------------------------------------------------------------------
(***************************************************************************)
(* The uses of one key.  A batch never stands for more uses than there     *)
(* were; what last_used_at does not cover is in hand while the process     *)
(* runs; and from the moment stop begins, what is put into the set or left *)
(* in it is excused, so that after stop nothing else is missing.           *)
(***************************************************************************)
Kept(k) ==
  /\ recorded[k] <= touched[k]
  /\ \A f \in Flushes : k \in batch[f] => stamp[f][k] <= touched[k]
  /\ Running /\ recorded[k] < touched[k] => InHand(k)
  /\ Stopping /\ k \in pending => k \in excused
  /\ (phase = "releasing" \/ exit = "clean") /\ recorded[k] < touched[k] =>
       k \in excused

\* A free flush has no batch, and stop's flush waits for the server to close.
Tidy ==
  /\ \A f \in Flushes : flush[f] = "free" => batch[f] = {}
  /\ phase \in {"serving", "closing"} => flush[StopFlush] = "free"

TouchInv == Tidy /\ \A k \in Keys : Kept(k)

\* No step lets a batch outlive its flush, or starts stop's flush early.
LEMMA TidyStep == ApiTypeOK /\ Tidy /\ [ApiNext]_apiVars => Tidy'
<1> SUFFICES ASSUME ApiTypeOK, Tidy, [ApiNext]_apiVars PROVE Tidy'
  OBVIOUS
<1> USE DEF tracker, Tidy, ApiTypeOK
<1>1. ASSUME NEW f \in Flushes,
             ConnectFlush(f) \/ Written(f) \/ WriteFails(f)
      PROVE  Tidy'
  <2>1. CASE ConnectFlush(f)
    BY <2>1 DEF ConnectFlush
  <2>2. CASE Written(f) \/ WriteFails(f)
    <3>1. /\ flush' = [flush EXCEPT ![f] = "free"]
          /\ batch' = [batch EXCEPT ![f] = {}]
          /\ phase' = phase
      BY <2>2 DEF Written, WriteFails, Done
    <3>2. flush \in [Flushes -> {"free", "waiting", "writing"}]
          /\ batch \in [Flushes -> SUBSET Keys] /\ StopFlush \in Flushes
      BY DEF Flushes
    <3> QED BY <3>1, <3>2
  <2> QED BY <1>1, <2>1, <2>2
<1>2. ASSUME NEW f \in Timers, TimerFlush(f) PROVE Tidy'
  BY <1>2, FlushAssumption DEF TimerFlush, BeginFlush, Flushes
<1>3. CASE Close
  BY <1>3 DEF Close, BeginFlush
<1>4. CASE \/ Release \/ Exit \/ SecondSignal \/ Killed \/ Signal
           \/ \E r \in Resources : Settle(r)
  BY <1>4 DEF Release, Exit, SecondSignal, Killed, Signal, Settle, Terminate
<1>5. ASSUME NEW h \in Handlers,
             HandlerStep(h) \/ ClientStep(h) \/ StorageStep(h)
      PROVE  Tidy'
  BY <1>5 DEF HandlerStep, ClientStep, StorageStep, Connect, Unserved,
              Answered, Finish, Seen, BodyArrives, BodyRefused, BeginPut,
              PutStored, PutRejects, Disconnect, Accept
<1>6. CASE UNCHANGED apiVars
  BY <1>6 DEF apiVars
<1> QED
  BY <1>1, <1>2, <1>3, <1>4, <1>5, <1>6
     DEF ApiNext, FlushStep, ShutdownStep, Remote, Resources

\* flush up to its await: what was pending is in the batch, as of now.
LEMMA BeginFlushKeeps ==
  ASSUME ApiTypeOK, Tidy, NEW k \in Keys, Kept(k), Running, ~Stopping,
         NEW f \in Flushes, flush[f] = "free", BeginFlush(f),
         UNCHANGED <<touched, recorded, excused, exit>>,
         phase' \in {phase, "flushing"}
  PROVE  Kept(k)'
<1>1. CASE pending = {}
  BY <1>1 DEF BeginFlush, ApiTypeOK, Kept, Running, Stopping, InHand
<1>2. CASE pending # {}
  <2>1. /\ batch' = [batch EXCEPT ![f] = pending]
        /\ stamp' = [stamp EXCEPT ![f] = touched]
        /\ pending' = {} /\ batch[f] = {}
    BY <1>2 DEF BeginFlush, Tidy
  <2>2. \A g \in Flushes : k \in batch'[g] => stamp'[g][k] <= touched[k]
    BY <2>1 DEF ApiTypeOK, Kept
  <2>3. InHand(k) => InHand(k)'
    <3>1. CASE k \in pending
      <4>1. k \in batch'[f] /\ stamp'[f][k] = touched'[k]
        BY <2>1, <3>1 DEF ApiTypeOK
      <4> QED BY <4>1 DEF InHand
    <3>2. ASSUME NEW g \in Flushes, k \in batch[g], stamp[g][k] = touched[k]
          PROVE  InHand(k)'
      BY <2>1, <3>2 DEF InHand, ApiTypeOK
    <3> QED BY <3>1, <3>2 DEF InHand
  <2> QED BY <2>1, <2>2, <2>3 DEF Kept, Running, Stopping, ApiTypeOK
<1> QED BY <1>1, <1>2

\* A write that ends (recordUse) covers what its batch stood for, and no less.
LEMMA WrittenKeeps ==
  ASSUME ApiTypeOK, NEW k \in Keys, Kept(k), NEW f \in Flushes, Written(f)
  PROVE  Kept(k)'
<1>1. /\ batch' = [batch EXCEPT ![f] = {}]
      /\ stamp' = [stamp EXCEPT ![f] = [j \in Keys |-> 0]]
      /\ UNCHANGED <<phase, exit, pending, touched, excused>>
  BY DEF Written, Done
<1>2. recorded'[k] \in Nat /\ recorded[k] \in Nat /\ touched[k] \in Nat
  BY DEF ApiTypeOK, Written, RecordUse
<1>3. /\ recorded[k] <= recorded'[k] /\ recorded'[k] <= touched[k]
      /\ k \in batch[f] => stamp[f][k] <= recorded'[k]
  BY DEF Written, RecordUse, ApiTypeOK, Kept
<1>4. ASSUME Running', recorded'[k] < touched'[k] PROVE InHand(k)'
  <2>1. recorded[k] < touched[k] /\ Running
    BY <1>1, <1>3, <1>4, <1>2 DEF Running
  <2>2. InHand(k)
    BY <2>1 DEF Kept
  <2>3. ASSUME NEW g \in Flushes, k \in batch[g], stamp[g][k] = touched[k]
        PROVE  InHand(k)'
    <3>1. g # f
      BY <1>1, <1>3, <1>4, <1>2, <2>3
    <3> QED BY <1>1, <2>3, <3>1 DEF InHand, ApiTypeOK
  <2> QED BY <1>1, <2>2, <2>3 DEF InHand
<1>5. \A g \in Flushes : k \in batch'[g] => stamp'[g][k] <= touched'[k]
  BY <1>1 DEF Kept, ApiTypeOK
<1> QED BY <1>1, <1>3, <1>4, <1>5, <1>2 DEF Kept, Stopping

\* A write that fails puts back what it had, and is excused once stop began.
LEMMA WriteFailsKeeps ==
  ASSUME ApiTypeOK, NEW k \in Keys, Kept(k), NEW f \in Flushes, WriteFails(f)
  PROVE  Kept(k)'
<1>1. /\ batch' = [batch EXCEPT ![f] = {}]
      /\ stamp' = [stamp EXCEPT ![f] = [j \in Keys |-> 0]]
      /\ pending' = pending \cup batch[f]
      /\ excused' = IF Stopping THEN excused \cup batch[f] ELSE excused
      /\ UNCHANGED <<phase, exit, touched, recorded>>
  BY DEF WriteFails, Done
<1>2. InHand(k) => InHand(k)'
  <2>1. CASE k \in pending \/ k \in batch[f]
    BY <1>1, <2>1 DEF InHand
  <2>2. ASSUME NEW g \in Flushes \ {f}, k \in batch[g],
               stamp[g][k] = touched[k]
        PROVE  InHand(k)'
    BY <1>1, <2>2 DEF InHand, ApiTypeOK
  <2> QED BY <2>1, <2>2 DEF InHand
<1>3. \A g \in Flushes : k \in batch'[g] => stamp'[g][k] <= touched'[k]
  BY <1>1 DEF Kept, ApiTypeOK
<1> QED BY <1>1, <1>2, <1>3 DEF Kept, Stopping, Running, WriteFails

\* A use (seen) is pending from the step that notes it.
LEMMA SeenKeeps ==
  ASSUME ApiTypeOK, NEW k \in Keys, Kept(k), NEW h \in Handlers, Seen(h)
  PROVE  Kept(k)'
<1>1. /\ pending' = pending \cup {usedKey[h]}
      /\ touched' = [touched EXCEPT ![usedKey[h]] = @ + 1]
      /\ excused' = IF Stopping THEN excused \cup {usedKey[h]} ELSE excused
      /\ usedKey[h] \in Keys /\ Running
      /\ UNCHANGED <<phase, exit, flush, batch, stamp, recorded>>
  BY DEF Seen, ApiTypeOK
<1>2. CASE usedKey[h] # k
  BY <1>1, <1>2 DEF Kept, InHand, Stopping, Running, ApiTypeOK
<1>3. CASE usedKey[h] = k
  <2>1. touched'[k] = touched[k] + 1 /\ k \in pending'
    BY <1>1, <1>3 DEF ApiTypeOK
  <2>2. \A f \in Flushes : k \in batch[f] =>
          stamp[f][k] \in Nat /\ stamp[f][k] <= touched[k]
    BY DEF ApiTypeOK, Kept
  <2>3. Stopping \/ exit = "clean" => k \in excused'
    BY <1>1, <1>3 DEF Running, ApiTypeOK
  <2> QED BY <1>1, <2>1, <2>2, <2>3
          DEF Kept, InHand, Stopping, Running, ApiTypeOK
<1> QED BY <1>2, <1>3

\* Every step keeps hold of every use that is not recorded yet.
LEMMA TouchStep == ApiTypeOK /\ TouchInv /\ [ApiNext]_apiVars => TouchInv'
<1> SUFFICES ASSUME ApiTypeOK, TouchInv, [ApiNext]_apiVars, NEW k \in Keys
             PROVE  Kept(k)'
  BY TidyStep DEF TouchInv
<1>0. Kept(k) /\ Tidy
  BY DEF TouchInv
<1> USE DEF requests, tracker
<1>1. ASSUME NEW f \in Flushes, Written(f) \/ WriteFails(f) PROVE Kept(k)'
  BY <1>0, <1>1, WrittenKeeps, WriteFailsKeeps
<1>2. ASSUME NEW f \in Flushes, ConnectFlush(f) PROVE Kept(k)'
  BY <1>0, <1>2 DEF ConnectFlush, Kept, InHand, Stopping, Running
<1>3. ASSUME NEW f \in Timers, TimerFlush(f) PROVE Kept(k)'
  BY <1>0, <1>3, BeginFlushKeeps
     DEF TimerFlush, Flushes, Running, Stopping
<1>4. CASE Close
  BY <1>0, <1>4, BeginFlushKeeps
     DEF Close, Flushes, Running, Stopping, Tidy
<1>5. CASE Release
  BY <1>0, <1>5 DEF Release, Kept, InHand, Stopping, Running, ApiTypeOK
<1>6. CASE \/ Exit \/ SecondSignal \/ Killed \/ Signal
           \/ \E r \in Resources : Settle(r)
  BY <1>0, <1>6 DEF Exit, SecondSignal, Killed, Signal, Settle, Terminate,
                    Kept, InHand, Stopping, Running, ApiTypeOK
<1>7. ASSUME NEW h \in Handlers, Seen(h) PROVE Kept(k)'
  BY <1>0, <1>7, SeenKeeps
<1>8. ASSUME NEW h \in Handlers,
             \/ Connect(h) \/ Unserved(h) \/ Answered(h) \/ BeginPut(h)
             \/ ClientStep(h) \/ StorageStep(h)
      PROVE  Kept(k)'
  BY <1>0, <1>8 DEF ClientStep, StorageStep, Connect, Unserved, Answered,
                    Finish, BodyArrives, BodyRefused, BeginPut, PutStored,
                    PutRejects, Disconnect, Accept, Kept, InHand, Stopping,
                    Running
<1>9. CASE UNCHANGED apiVars
  BY <1>0, <1>9 DEF apiVars, Kept, InHand, Stopping, Running
<1> QED
  BY <1>1, <1>2, <1>3, <1>4, <1>5, <1>6, <1>7, <1>8, <1>9
     DEF ApiNext, HandlerStep, FlushStep, ShutdownStep, Remote, Resources

(***************************************************************************)
(* A use that was noted is not lost, however flushes overlap and fail, and *)
(* after a clean exit only what stop could not wait for is missing         *)
(* (last-used-tracker.ts, server.ts).                                      *)
(***************************************************************************)
THEOREM NoUseIsLost == ApiSpec => []TouchesAreKept
<1>1. ApiInit => TouchInv
  <2> SUFFICES ASSUME ApiInit PROVE TouchInv
    OBVIOUS
  <2>1. /\ \A k \in Keys : recorded[k] = 0 /\ touched[k] = 0
        /\ \A f \in Flushes : batch[f] = {} /\ flush[f] = "free"
        /\ phase = "serving"
    BY DEF ApiInit
  <2> QED BY <2>1 DEF TouchInv, Tidy, Kept, Stopping, Flushes
<1>2. TouchInv => TouchesAreKept
  BY DEF TouchInv, Kept, TouchesAreKept
<1> QED BY <1>1, <1>2, TouchStep, TypeCorrect, PTL DEF ApiSpec

-----------------------------------------------------------------------------
(***************************************************************************)
(* Shutdown.  Once app.close has resolved nobody comes in, so the requests *)
(* that remain are those whose client left; the pool's end waits for its   *)
(* clients, and gives out no connection while it does.                     *)
(***************************************************************************)
ShutdownInv ==
  /\ Stopping \/ exit = "clean" =>
       \A h \in Handlers : Active(h) => ~connected[h]
  /\ phase \in {"serving", "closing", "flushing"} => released = {}
  /\ phase = "releasing" /\ "database" \in released =>
       Clients = {} /\ Writers = {}
  /\ exit = "clean" => Clients = {} /\ Writers = {}

\* No step lets a connected request in, or a connection out, after the close.
LEMMA ShutdownInvStep ==
  ApiTypeOK /\ ShutdownInv /\ [ApiNext]_apiVars => ShutdownInv'
<1> SUFFICES ASSUME ApiTypeOK, ShutdownInv, [ApiNext]_apiVars
             PROVE  ShutdownInv'
  OBVIOUS
<1> USE DEF requests, tracker, ShutdownInv, ApiTypeOK, Stopping, Running,
            Active, Clients, Writers
<1>1. ASSUME NEW h \in Handlers, Connect(h) PROVE ShutdownInv'
  BY <1>1 DEF Connect, Available, Become
<1>2. ASSUME NEW h \in Handlers,
             \/ Unserved(h) \/ Answered(h) \/ BodyRefused(h)
             \/ PutRejects(h)
      PROVE  ShutdownInv'
  BY <1>2 DEF Unserved, Answered, BodyRefused, PutRejects, Finish, Become
<1>3. ASSUME NEW h \in Handlers,
             Seen(h) \/ BodyArrives(h) \/ BeginPut(h) \/ PutStored(h)
      PROVE  ShutdownInv'
  BY <1>3 DEF Seen, BodyArrives, BeginPut, PutStored, Become
<1>4. ASSUME NEW h \in Handlers,
             Disconnect(h) \/ \E k \in Keys : Accept(h, k)
      PROVE  ShutdownInv'
  BY <1>4 DEF Disconnect, Accept, Become
<1>5. ASSUME NEW f \in Flushes, FlushStep(f) PROVE ShutdownInv'
  BY <1>5 DEF FlushStep, ConnectFlush, Available, Written, WriteFails, Done
<1>6. ASSUME NEW f \in Timers, TimerFlush(f) PROVE ShutdownInv'
  BY <1>6 DEF TimerFlush
<1>7. CASE Close
  BY <1>7 DEF Close, Closed
<1>8. CASE Release \/ \E r \in Resources : Settle(r)
  BY <1>8 DEF Release, Settle
<1>9. CASE Exit \/ SecondSignal \/ Killed \/ Signal
  <2>1. CASE Exit
    BY <2>1 DEF Exit, Terminate, Resources
  <2>2. CASE SecondSignal
    BY <2>2 DEF SecondSignal, Terminate
  <2>3. CASE Killed
    BY <2>3 DEF Killed, Terminate
  <2>4. CASE Signal
    BY <2>4 DEF Signal
  <2> QED BY <1>9, <2>1, <2>2, <2>3, <2>4
<1>10. CASE UNCHANGED apiVars
  BY <1>10 DEF apiVars
<1> QED
  BY <1>1, <1>2, <1>3, <1>4, <1>5, <1>6, <1>7, <1>8, <1>9, <1>10
     DEF ApiNext, HandlerStep, ClientStep, StorageStep, ShutdownStep, Remote,
         Resources

(***************************************************************************)
(* "Let in-flight requests finish, then release connections" (server.ts):  *)
(* true of every request whose client is there and of every statement.     *)
(***************************************************************************)
THEOREM GracefulShutdown == ApiSpec => []ShutdownCutsNoRequest
<1>1. ApiInit => ShutdownInv
  BY DEF ApiInit, ShutdownInv, Stopping, Resources
<1>2. ShutdownInv => ShutdownCutsNoRequest
  BY DEF ShutdownInv, ShutdownCutsNoRequest, Stopping
<1> QED BY <1>1, <1>2, ShutdownInvStep, TypeCorrect, PTL DEF ApiSpec

-----------------------------------------------------------------------------
(***************************************************************************)
(* The failure limiter.                                                    *)
(***************************************************************************)
\* The failures of one window: those counted before the last that is let
\* through, and the lookups under way by then.
PerWindow == MaxFailures - 1 + MaxLookups

TypedLimiter ==
  /\ now \in Nat
  /\ count \in [Addresses -> Nat]
  /\ windowStart \in [Addresses -> Nat]
  /\ lookups \in [Addresses -> 0..MaxLookups]
  /\ DOMAIN failedAt = Addresses

\* What is remembered of an address: finitely many failures, none older than
\* a window, and none after the window of its entry, even a forgotten one.
Remembered(a) ==
  /\ IsFiniteSet(failedAt[a])
  /\ windowStart[a] <= now
  /\ \A f \in failedAt[a] :
       /\ f.at \in Nat /\ now - f.at < WindowMs
       /\ f.at < windowStart[a] + WindowMs

\* Each lookup under way may become a failure of the current entry.
Admitted(a) == count[a] + lookups[a] <= PerWindow

Before(a) == {f \in failedAt[a] : f.at < windowStart[a]}
After(a) == {f \in failedAt[a] : f.at > windowStart[a]}

\* The entry counts its failures, one of which made it, and followed on an
\* entry whose first failure is no longer remembered.
Entry(a) ==
  count[a] > 0 =>
    /\ Cardinality(InWindow(a)) <= count[a]
    /\ Cardinality(After(a)) <= count[a] - 1
    /\ Cardinality(Before(a)) <= PerWindow - 1

\* Without an entry, what is remembered is of a window that is over.
NoEntry(a) ==
  count[a] = 0 =>
    /\ Cardinality(failedAt[a]) <= PerWindow - 1
    /\ failedAt[a] # {} => windowStart[a] + WindowMs <= now

Bounded(a) == Remembered(a) /\ Admitted(a) /\ Entry(a) /\ NoEntry(a)

LimiterInv == TypedLimiter /\ \A a \in Addresses : Bounded(a)

-----------------------------------------------------------------------------
\* Every IP may fail at least once in a window.
LEMMA PerWindowPositive == PerWindow \in Nat /\ PerWindow >= 1
BY LimiterAssumption DEF PerWindow

\* Fewer failures remembered are not more.
LEMMA FewerFailures ==
  ASSUME NEW S, NEW T, IsFiniteSet(S), T \subseteq S
  PROVE  /\ IsFiniteSet(T) /\ Cardinality(T) \in Nat /\ Cardinality(S) \in Nat
         /\ Cardinality(T) <= Cardinality(S)
BY FS_Subset, FS_CardinalityType

\* One more failure makes at most one more.
LEMMA OneMoreFailure ==
  ASSUME NEW S, NEW x, IsFiniteSet(S)
  PROVE  /\ IsFiniteSet(S \cup {x}) /\ Cardinality(S \cup {x}) \in Nat
         /\ Cardinality(S \cup {x}) <= Cardinality(S) + 1
<1>1. /\ IsFiniteSet(S \cup {x})
      /\ Cardinality(S \cup {x}) =
           IF x \in S THEN Cardinality(S) ELSE Cardinality(S) + 1
  BY FS_AddElement, Zenon
<1>2. Cardinality(S) \in Nat /\ Cardinality(S \cup {x}) \in Nat
  BY <1>1, FS_CardinalityType, Zenon
<1> QED BY <1>1, <1>2

\* When the window of an entry is over, its first failure and those before
\* are not remembered any more.
LEMMA WindowOver ==
  ASSUME LimiterInv, NEW a \in Addresses, Expired(a)
  PROVE  /\ Cardinality(failedAt[a]) <= PerWindow - 1
         /\ windowStart[a] + WindowMs <= now
         /\ lookups[a] <= PerWindow
<1> USE LimiterAssumption
<1>1. count[a] \in Nat /\ windowStart[a] \in Nat /\ now \in Nat
      /\ lookups[a] \in Nat
  BY DEF LimiterInv, TypedLimiter
<1>2. count[a] > 0 /\ windowStart[a] + WindowMs <= now
  BY <1>1 DEF Expired
<1>3. failedAt[a] = After(a)
  BY <1>1, <1>2 DEF After, LimiterInv, Bounded, Remembered
<1>4. IsFiniteSet(failedAt[a])
  BY DEF LimiterInv, Bounded, Remembered
<1>5. Cardinality(failedAt[a]) \in Nat
  BY <1>4, FS_CardinalityType
<1>6. Cardinality(After(a)) <= count[a] - 1
  BY <1>2 DEF LimiterInv, Bounded, Entry
<1>7. count[a] + lookups[a] <= PerWindow
  BY DEF LimiterInv, Bounded, Admitted
<1> QED BY <1>1, <1>2, <1>3, <1>5, <1>6, <1>7, PerWindowPositive

\* An address that is left alone, or evicted, is bounded as before.
LEMMA OtherKeeps ==
  ASSUME LimiterInv, NEW a \in Addresses,
         \/ count'[a] = count[a] /\ failedAt'[a] = failedAt[a]
         \/ count'[a] = 0 /\ failedAt'[a] = {},
         lookups'[a] = lookups[a], windowStart'[a] = windowStart[a],
         now' = now
  PROVE  Bounded(a)'
<1> USE LimiterAssumption
<1>1. Bounded(a) /\ count[a] \in Nat /\ lookups[a] \in Nat
  BY DEF LimiterInv, TypedLimiter
<1>2. CASE count'[a] = count[a] /\ failedAt'[a] = failedAt[a]
  BY <1>1, <1>2 DEF Bounded, Remembered, Admitted, Entry, NoEntry, Before,
                    InWindow, After
<1>3. CASE count'[a] = 0 /\ failedAt'[a] = {}
  <2>1. IsFiniteSet({}) /\ Cardinality({}) = 0
    BY FS_EmptySet
  <2>2. Remembered(a)'
    BY <1>1, <1>3, <2>1 DEF Bounded, Remembered
  <2>3. Admitted(a)'
    BY <1>1, <1>3, PerWindowPositive DEF Bounded, Admitted
  <2>4. Entry(a)' /\ NoEntry(a)'
    BY <1>3, <2>1, PerWindowPositive DEF Entry, NoEntry
  <2> QED BY <2>2, <2>3, <2>4 DEF Bounded
<1> QED BY <1>2, <1>3

\* Asking forgets an entry whose window is over, and admits a lookup only
\* below the limit (blockedForSeconds; current).
LEMMA AskKeeps ==
  ASSUME LimiterInv, NEW a \in Addresses, ~Blocked(a), Ask(a),
         lookups'[a] \in 0..MaxLookups, UNCHANGED <<now, windowStart, failedAt>>
  PROVE  Bounded(a)'
<1> USE LimiterAssumption
<1>1. /\ Bounded(a) /\ count[a] \in Nat /\ now \in Nat /\ windowStart[a] \in Nat
      /\ DOMAIN count = Addresses
  BY DEF LimiterInv, TypedLimiter
<1>2. count'[a] = Current(a)
  BY <1>1 DEF Ask
<1>3. Current(a) < MaxFailures /\ Current(a) \in Nat
  BY <1>1 DEF Blocked, Current
<1>4. Admitted(a)'
  BY <1>2, <1>3 DEF Admitted, PerWindow
<1>5. Remembered(a)'
  BY <1>1 DEF Bounded, Remembered
<1>6. Entry(a)' /\ NoEntry(a)'
  <2>1. CASE Expired(a)
    <3>1. count'[a] = 0
      BY <1>2, <2>1 DEF Current
    <3> QED BY <2>1, <3>1, WindowOver DEF Entry, NoEntry
  <2>2. CASE ~Expired(a)
    <3>1. count'[a] = count[a]
      BY <1>2, <2>2 DEF Current
    <3> QED BY <1>1, <3>1
            DEF Bounded, Entry, NoEntry, Before, InWindow, After
  <2> QED BY <2>1, <2>2
<1> QED BY <1>4, <1>5, <1>6 DEF Bounded

\* A failure that is recorded was one of the lookups that were let through
\* (recordFailure).
LEMMA FailureKeeps ==
  ASSUME LimiterInv, NEW a \in Addresses, FailLookup(a)
  PROVE  Bounded(a)'
<1> USE LimiterAssumption
<1>1. /\ Bounded(a) /\ count[a] \in Nat /\ now \in Nat /\ windowStart[a] \in Nat
      /\ lookups[a] \in 0..MaxLookups
      /\ DOMAIN windowStart = Addresses /\ DOMAIN lookups = Addresses
  BY DEF LimiterInv, TypedLimiter
<1>2. PICK failure :
        /\ failure.at = now /\ failedAt'[a] = failedAt[a] \cup {failure}
        /\ lookups[a] > 0 /\ lookups'[a] = lookups[a] - 1 /\ now' = now
        /\ count'[a] = Current(a) + 1
        /\ windowStart'[a] = IF Current(a) > 0 THEN windowStart[a] ELSE now
  <2> DEFINE new == [at |-> now, nth |-> Cardinality(failedAt[a]) + 1]
  <2>1. /\ failedAt'[a] = failedAt[a] \cup {new}
        /\ lookups[a] > 0 /\ lookups'[a] = lookups[a] - 1 /\ now' = now
        /\ count'[a] = Current(a) + 1
        /\ windowStart'[a] = IF Current(a) > 0 THEN windowStart[a] ELSE now
    BY <1>1 DEF FailLookup, RecordFailure
  <2>2. new.at = now
    OBVIOUS
  <2> HIDE DEF new
  <2> QED BY <2>1, <2>2
<1>3. IsFiniteSet(failedAt[a]) /\ IsFiniteSet(failedAt'[a])
  <2>1. IsFiniteSet(failedAt[a])
    BY <1>1 DEF Bounded, Remembered
  <2>2. IsFiniteSet(failedAt[a] \cup {failure})
    BY <2>1, FS_AddElement, Zenon
  <2> QED BY <1>2, <2>1, <2>2
<1>4. CASE Current(a) > 0
  <2>1. ~Expired(a) /\ Current(a) = count[a] /\ count[a] > 0
    BY <1>1, <1>4 DEF Current
  <2>2. windowStart'[a] = windowStart[a] /\ count'[a] = count[a] + 1
    BY <1>2, <1>4, <2>1
  <2>3. now < windowStart[a] + WindowMs /\ windowStart[a] <= now
    BY <1>1, <2>1 DEF Expired, Bounded, Remembered
  <2>4. Remembered(a)'
    BY <1>1, <1>2, <1>3, <2>2, <2>3 DEF Bounded, Remembered
  <2>5. Admitted(a)'
    BY <1>1, <1>2, <2>2, PerWindowPositive DEF Bounded, Admitted
  <2>6. /\ InWindow(a)' = InWindow(a) \cup {failure}
        /\ Before(a)' = Before(a)
        /\ After(a)' \subseteq After(a) \cup {failure}
    BY <1>1, <1>2, <2>2, <2>3 DEF InWindow, Before, After
  <2>7. /\ IsFiniteSet(InWindow(a)) /\ Cardinality(InWindow(a)) \in Nat
        /\ IsFiniteSet(After(a)) /\ Cardinality(After(a)) \in Nat
    BY <1>3, FewerFailures DEF InWindow, After
  <2>8. /\ Cardinality(InWindow(a)') <= Cardinality(InWindow(a)) + 1
        /\ Cardinality(InWindow(a)') \in Nat
    <3>1. /\ Cardinality(InWindow(a) \cup {failure}) \in Nat
          /\ Cardinality(InWindow(a) \cup {failure}) <= Cardinality(InWindow(a)) + 1
      BY <2>7, OneMoreFailure, Zenon
    <3> QED BY <2>6, <3>1, Zenon
  <2>9. Cardinality(After(a)') <= Cardinality(After(a)) + 1
        /\ Cardinality(After(a)') \in Nat
    <3>1. /\ IsFiniteSet(After(a) \cup {failure})
          /\ Cardinality(After(a) \cup {failure}) <= Cardinality(After(a)) + 1
      BY <2>7, OneMoreFailure, Zenon
    <3>2. /\ Cardinality(After(a)') <= Cardinality(After(a) \cup {failure})
          /\ Cardinality(After(a)') \in Nat
          /\ Cardinality(After(a) \cup {failure}) \in Nat
      BY <2>6, <3>1, FewerFailures
    <3> QED BY <2>7, <3>1, <3>2
  <2>10. /\ Cardinality(InWindow(a)) <= count[a]
         /\ Cardinality(After(a)) <= count[a] - 1
         /\ Cardinality(Before(a)) <= PerWindow - 1
    BY <1>1, <2>1 DEF Bounded, Entry
  <2>11. Entry(a)'
    <3>1. Cardinality(InWindow(a)') <= count'[a]
      BY <1>1, <2>2, <2>7, <2>8, <2>10
    <3>2. Cardinality(After(a)') <= count'[a] - 1
      BY <1>1, <2>2, <2>7, <2>9, <2>10
    <3>3. Cardinality(Before(a)') <= PerWindow - 1
      BY <2>6, <2>10
    <3> QED BY <3>1, <3>2, <3>3 DEF Entry
  <2>12. NoEntry(a)'
    BY <1>1, <2>2 DEF NoEntry
  <2> QED BY <2>4, <2>5, <2>11, <2>12 DEF Bounded
<1>5. CASE Current(a) = 0
  <2>1. /\ Cardinality(failedAt[a]) <= PerWindow - 1
        /\ failedAt[a] # {} => windowStart[a] + WindowMs <= now
    <3>1. CASE Expired(a)
      BY <3>1, WindowOver
    <3>2. CASE ~Expired(a)
      BY <1>1, <1>5, <3>2 DEF Current, Bounded, NoEntry
    <3> QED BY <3>1, <3>2
  <2>2. windowStart'[a] = now /\ count'[a] = 1
    BY <1>2, <1>5
  <2>3. \A f \in failedAt[a] : f.at \in Nat /\ f.at < now /\ now - f.at < WindowMs
    BY <1>1, <2>1 DEF Bounded, Remembered
  <2>4. Remembered(a)'
    BY <1>1, <1>2, <1>3, <2>2, <2>3 DEF Remembered
  <2>5. Admitted(a)'
    BY <1>1, <1>2, <2>2 DEF Admitted, PerWindow
  <2>6. InWindow(a)' = {failure} /\ After(a)' = {} /\ Before(a)' = failedAt[a]
    BY <1>1, <1>2, <2>2, <2>3 DEF InWindow, After, Before
  <2>7. Cardinality({failure}) = 1 /\ Cardinality({}) = 0
    BY FS_Singleton, FS_EmptySet
  <2>8. Entry(a)'
    BY <2>1, <2>2, <2>6, <2>7 DEF Entry
  <2>9. NoEntry(a)'
    BY <2>2 DEF NoEntry
  <2> QED BY <2>4, <2>5, <2>8, <2>9 DEF Bounded
<1>6. Current(a) > 0 \/ Current(a) = 0
  BY <1>1 DEF Current
<1> QED BY <1>4, <1>5, <1>6

\* Time forgets failures and adds none.
LEMMA TimeKeeps ==
  ASSUME LimiterInv, PassTime, NEW a \in Addresses
  PROVE  Bounded(a)'
<1> USE LimiterAssumption
<1>1. /\ Bounded(a) /\ now \in Nat /\ windowStart[a] \in Nat /\ count[a] \in Nat
  BY DEF LimiterInv, TypedLimiter
<1>2. /\ now' = now + 1 /\ UNCHANGED <<count, windowStart, lookups>>
      /\ failedAt'[a] = {f \in failedAt[a] : now' - f.at < WindowMs}
  BY DEF PassTime
<1>3. /\ failedAt'[a] \subseteq failedAt[a] /\ IsFiniteSet(failedAt[a])
      /\ Before(a)' \subseteq Before(a) /\ Before(a) \subseteq failedAt[a]
      /\ InWindow(a)' \subseteq InWindow(a) /\ InWindow(a) \subseteq failedAt[a]
      /\ After(a)' \subseteq After(a) /\ After(a) \subseteq failedAt[a]
  BY <1>1, <1>2 DEF Bounded, Remembered, Before, InWindow, After
<1>4. IsFiniteSet(Before(a)) /\ IsFiniteSet(InWindow(a)) /\ IsFiniteSet(After(a))
  BY <1>3, FewerFailures
<1>5. /\ Cardinality(Before(a)') <= Cardinality(Before(a))
      /\ Cardinality(Before(a)') \in Nat /\ Cardinality(Before(a)) \in Nat
  BY <1>3, <1>4, FewerFailures
<1>6. /\ Cardinality(InWindow(a)') <= Cardinality(InWindow(a))
      /\ Cardinality(InWindow(a)') \in Nat /\ Cardinality(InWindow(a)) \in Nat
  BY <1>3, <1>4, FewerFailures
<1>7. /\ Cardinality(After(a)') <= Cardinality(After(a))
      /\ Cardinality(After(a)') \in Nat /\ Cardinality(After(a)) \in Nat
  BY <1>3, <1>4, FewerFailures
<1>8. /\ IsFiniteSet(failedAt'[a])
      /\ Cardinality(failedAt'[a]) <= Cardinality(failedAt[a])
      /\ Cardinality(failedAt'[a]) \in Nat /\ Cardinality(failedAt[a]) \in Nat
  BY <1>3, FewerFailures
<1>9. Remembered(a)'
  BY <1>1, <1>2, <1>8 DEF Bounded, Remembered
<1>10. Admitted(a)'
  BY <1>1, <1>2 DEF Bounded, Admitted
<1>11. Entry(a)'
  BY <1>1, <1>2, <1>5, <1>6, <1>7, PerWindowPositive DEF Bounded, Entry
<1>12. NoEntry(a)'
  <2>1. failedAt'[a] # {} => failedAt[a] # {}
    BY <1>3
  <2> QED BY <1>1, <1>2, <1>8, <2>1, PerWindowPositive DEF Bounded, NoEntry
<1> QED BY <1>9, <1>10, <1>11, <1>12 DEF Bounded

\* The limiter's variables keep their types.
LEMMA LimiterTypeStep ==
  ASSUME TypedLimiter, [LimiterNext]_limiterVars
  PROVE  TypedLimiter'
<1> USE LimiterAssumption
<1>0. \A a \in Addresses : Current(a) \in Nat
  BY DEF TypedLimiter, Current
<1>1. ASSUME NEW a \in Addresses, NoCredential(a) PROVE TypedLimiter'
  BY <1>0, <1>1 DEF TypedLimiter, NoCredential, Ask
<1>2. ASSUME NEW a \in Addresses, BeginLookup(a) PROVE TypedLimiter'
  BY <1>0, <1>2 DEF TypedLimiter, BeginLookup, Ask
<1>3. ASSUME NEW a \in Addresses, EndLookup(a) PROVE TypedLimiter'
  BY <1>3 DEF TypedLimiter, EndLookup
<1>4. ASSUME NEW a \in Addresses, FailLookup(a) PROVE TypedLimiter'
  <2>1. now' \in Nat /\ lookups' \in [Addresses -> 0..MaxLookups]
    BY <1>4 DEF TypedLimiter, FailLookup
  <2>2. windowStart' \in [Addresses -> Nat] /\ DOMAIN failedAt' = Addresses
    BY <1>4 DEF TypedLimiter, FailLookup, RecordFailure
  <2>3. PICK E : count' = [b \in Addresses |->
                             IF b = a THEN Current(a) + 1
                             ELSE IF b \in E THEN 0 ELSE count[b]]
    BY <1>4 DEF FailLookup, RecordFailure
  <2>4. count' \in [Addresses -> Nat]
    BY <1>0, <2>3 DEF TypedLimiter
  <2> QED BY <2>1, <2>2, <2>4 DEF TypedLimiter
<1>5. CASE PassTime
  BY <1>5 DEF TypedLimiter, PassTime
<1>6. CASE UNCHANGED limiterVars
  BY <1>6 DEF TypedLimiter, limiterVars
<1> QED BY <1>1, <1>2, <1>3, <1>4, <1>5, <1>6 DEF LimiterNext

\* Every step of the limiter keeps its invariant.
LEMMA LimiterStep == LimiterInv /\ [LimiterNext]_limiterVars => LimiterInv'
<1> SUFFICES ASSUME LimiterInv, [LimiterNext]_limiterVars,
                    NEW b \in Addresses
             PROVE  Bounded(b)'
  BY LimiterTypeStep DEF LimiterInv
<1> USE LimiterAssumption
<1>1. /\ DOMAIN count = Addresses /\ DOMAIN lookups = Addresses
      /\ DOMAIN windowStart = Addresses /\ lookups[b] \in 0..MaxLookups
      /\ count[b] \in Nat
  BY DEF LimiterInv, TypedLimiter
<1>2. ASSUME NEW a \in Addresses, NoCredential(a) PROVE Bounded(b)'
  <2>1. CASE a = b
    <3>1. ~Blocked(b) /\ Ask(b) /\ UNCHANGED <<now, windowStart, failedAt>>
          /\ lookups'[b] \in 0..MaxLookups
      BY <1>1, <1>2, <2>1 DEF NoCredential
    <3> QED BY <3>1, AskKeeps
  <2>2. CASE a # b
    BY <1>1, <1>2, <2>2, OtherKeeps DEF NoCredential, Ask
  <2> QED BY <2>1, <2>2
<1>3. ASSUME NEW a \in Addresses, BeginLookup(a) PROVE Bounded(b)'
  <2>1. CASE a = b
    <3>1. ~Blocked(b) /\ Ask(b) /\ UNCHANGED <<now, windowStart, failedAt>>
          /\ lookups'[b] \in 0..MaxLookups
      BY <1>1, <1>3, <2>1 DEF BeginLookup
    <3> QED BY <3>1, AskKeeps
  <2>2. CASE a # b
    BY <1>1, <1>3, <2>2, OtherKeeps DEF BeginLookup, Ask
  <2> QED BY <2>1, <2>2
<1>4. ASSUME NEW a \in Addresses, EndLookup(a) PROVE Bounded(b)'
  <2>1. CASE a = b
    <3>1. lookups'[b] = lookups[b] - 1 /\ UNCHANGED <<now, count, windowStart, failedAt>>
      BY <1>1, <1>4, <2>1 DEF EndLookup
    <3>2. Admitted(b)'
      BY <1>1, <3>1, PerWindowPositive DEF LimiterInv, Bounded, Admitted
    <3> QED BY <3>1, <3>2 DEF LimiterInv, Bounded, Remembered, Entry, NoEntry,
                              Before, InWindow, After
  <2>2. CASE a # b
    BY <1>1, <1>4, <2>2, OtherKeeps DEF EndLookup
  <2> QED BY <2>1, <2>2
<1>5. ASSUME NEW a \in Addresses, FailLookup(a) PROVE Bounded(b)'
  <2>1. CASE a = b
    BY <1>5, <2>1, FailureKeeps
  <2>2. CASE a # b
    <3>1. /\ lookups'[b] = lookups[b] /\ windowStart'[b] = windowStart[b]
          /\ now' = now
      BY <1>1, <1>5, <2>2 DEF FailLookup, RecordFailure
    <3>2. \/ count'[b] = count[b] /\ failedAt'[b] = failedAt[b]
          \/ count'[b] = 0 /\ failedAt'[b] = {}
      BY <1>5, <2>2 DEF FailLookup, RecordFailure
    <3> QED BY <3>1, <3>2, OtherKeeps
  <2> QED BY <2>1, <2>2
<1>6. CASE PassTime
  BY <1>6, TimeKeeps
<1>7. CASE UNCHANGED limiterVars
  BY <1>7, OtherKeeps DEF limiterVars
<1> QED BY <1>2, <1>3, <1>4, <1>5, <1>6, <1>7 DEF LimiterNext

(***************************************************************************)
(* However lookups, failures, evictions and windows interleave: in the     *)
(* window of its entry an address fails at most as often as the limit lets *)
(* lookups begin, and in any span as long as a window, which may touch two *)
(* of them, fewer than twice as often, since it was last evicted           *)
(* (failure-limiter.ts, authentication.ts onRequest).                      *)
(***************************************************************************)
THEOREM BoundedFailures == LimiterSpec => []FailuresAreBounded
<1> USE LimiterAssumption
<1>1. LimiterInit => LimiterInv
  <2> SUFFICES ASSUME LimiterInit PROVE LimiterInv
    OBVIOUS
  <2>1. TypedLimiter
    BY DEF LimiterInit, TypedLimiter
  <2>2. ASSUME NEW a \in Addresses PROVE Bounded(a)
    <3>1. IsFiniteSet({}) /\ Cardinality({}) = 0
      BY FS_EmptySet
    <3>2. /\ now = 0 /\ count[a] = 0 /\ windowStart[a] = 0 /\ lookups[a] = 0
          /\ failedAt[a] = {}
      BY DEF LimiterInit
    <3> QED BY <3>1, <3>2, PerWindowPositive
            DEF Bounded, Remembered, Admitted, Entry, NoEntry
  <2> QED BY <2>1, <2>2 DEF LimiterInv
<1>2. LimiterInv => FailuresAreBounded
  <2> SUFFICES ASSUME LimiterInv, NEW a \in Addresses
               PROVE  /\ count[a] > 0 =>
                           Cardinality(InWindow(a)) + lookups[a] <= PerWindow
                      /\ Cardinality(failedAt[a]) < 2 * PerWindow
    BY DEF FailuresAreBounded, PerWindow
  <2>1. /\ IsFiniteSet(failedAt[a]) /\ count[a] \in Nat /\ lookups[a] \in Nat
        /\ windowStart[a] \in Nat
    BY DEF LimiterInv, TypedLimiter, Bounded, Remembered
  <2>2. CASE count[a] = 0
    <3>1. Cardinality(failedAt[a]) <= PerWindow - 1
      BY <2>2 DEF LimiterInv, Bounded, NoEntry
    <3>2. Cardinality(failedAt[a]) \in Nat
      BY <2>1, FS_CardinalityType
    <3> QED BY <2>2, <3>1, <3>2, PerWindowPositive
  <2>3. CASE count[a] > 0
    <3>1. failedAt[a] = Before(a) \cup InWindow(a)
      BY <2>1 DEF LimiterInv, Bounded, Remembered, Before, InWindow
    <3>2. IsFiniteSet(Before(a)) /\ IsFiniteSet(InWindow(a))
      BY <2>1, FewerFailures DEF Before, InWindow
    <3>3. /\ Cardinality(Before(a)) \in Nat /\ Cardinality(InWindow(a)) \in Nat
          /\ Cardinality(Before(a) \cap InWindow(a)) \in Nat
      <4>1. Before(a) \cap InWindow(a) \subseteq InWindow(a)
        OBVIOUS
      <4> QED BY <3>2, <4>1, FewerFailures, FS_CardinalityType
    <3>4. Cardinality(failedAt[a]) =
            Cardinality(Before(a)) + Cardinality(InWindow(a))
              - Cardinality(Before(a) \cap InWindow(a))
      BY <3>1, <3>2, FS_Union
    <3>5. /\ Cardinality(InWindow(a)) <= count[a]
          /\ Cardinality(Before(a)) <= PerWindow - 1
          /\ count[a] + lookups[a] <= PerWindow
      BY <2>3 DEF LimiterInv, Bounded, Entry, Admitted
    <3> QED BY <2>1, <3>3, <3>4, <3>5, PerWindowPositive
  <2> QED BY <2>1, <2>2, <2>3
<1> QED BY <1>1, <1>2, LimiterStep, PTL DEF LimiterSpec
=============================================================================
