----------------------------- MODULE ApiProcess -----------------------------
(***************************************************************************)
(* One API process from its first request to its exit: request handlers,   *)
(* the last-used tracker they feed, the connection pool both need, and the *)
(* shutdown that ends all three in order.                                  *)
(*                                                                         *)
(*   server.ts               wiring and shutdown                           *)
(*   last-used-tracker.ts    seen, flush, start, stop                      *)
(*   api-key.authentication  recordUse, the write of a flush               *)
(*   connection.ts           the pool                                      *)
(*   asset.routes.ts, asset.service.ts   what a handler waits for          *)
(*                                                                         *)
(* A handler takes a connection to look its key up, notes the key, waits   *)
(* for its client's body, and takes another connection for its             *)
(* transaction, which an upload holds while it stores its object.  (The    *)
(* look-up of the project and the statements of the idempotency table take *)
(* a connection as the key's does, and are left out.)  Nothing bounds the  *)
(* two waits on others, the client and the storage: app.ts sets no request *)
(* or connection timeout, the adapters none of their own.  app.close waits *)
(* for requests whose client is there: when the client has gone, its       *)
(* handler runs on unobserved.                                             *)
(***************************************************************************)
EXTENDS Naturals, FiniteSets

CONSTANTS
  Handlers,   \* request handlers that run at once (a bound)
  Keys,
  Timers,     \* periodic flushes under way at once (a bound)
  PoolMax,    \* DbOptions.poolMax
  MaxTouches  \* uses of one key (a bound)

ASSUME PoolAssumption == PoolMax \in Nat \ {0}

\* There is a key: without one no request gets past authentication.
ASSUME KeysAssumption == Keys # {}

\* The flush of stop, which shutdown awaits.
StopFlush == "stop"

ASSUME FlushAssumption == StopFlush \notin Timers

Flushes == Timers \cup {StopFlush}

Resources == {"database", "redis", "storage"}

VARIABLES
  phase,      \* "serving", "closing" (app.close), "flushing" (lastUsed.stop),
              \* "releasing" (allSettled) or "exited"
  exit,       \* how: "clean" (0), "forced" (a second signal) or "killed"
  handler,    \* handler[h]: "free", "key_wait", "key_query", "body" (awaited),
              \* "tx_wait", "tx", "put" (awaited in the transaction), "commit"
  usedKey,    \* usedKey[h]: the key its request presents
  connected,  \* connected[h]: its client is still there
  released,   \* resources whose end has settled
  pending,    \* the tracker's set
  flush,      \* flush[f]: "free", "waiting" for a connection or "writing"
  batch,      \* batch[f]: its key ids
  stamp,      \* stamp[f][k]: uses of k it stands for (its `at`)
  touched,    \* touched[k]: uses of k so far (history)
  recorded,   \* recorded[k]: uses last_used_at stands for (committed)
  excused     \* uses noted or put back after stop began (history)

requests == <<handler, usedKey, connected>>
tracker == <<pending, flush, batch, stamp, touched, excused>>
apiVars == <<phase, exit, requests, released, tracker, recorded>>

ApiTypeOK ==
  /\ phase \in {"serving", "closing", "flushing", "releasing", "exited"}
  /\ exit \in {"none", "clean", "forced", "killed"}
  /\ (phase = "exited") = (exit # "none")
  /\ handler \in [Handlers ->
                    {"free", "key_wait", "key_query", "body", "tx_wait",
                     "tx", "put", "commit"}]
  /\ usedKey \in [Handlers -> Keys]
  /\ connected \in [Handlers -> BOOLEAN]
  /\ released \subseteq Resources
  /\ pending \subseteq Keys
  /\ flush \in [Flushes -> {"free", "waiting", "writing"}]
  /\ batch \in [Flushes -> SUBSET Keys]
  /\ stamp \in [Flushes -> [Keys -> Nat]]
  /\ touched \in [Keys -> Nat]
  /\ recorded \in [Keys -> Nat]
  /\ excused \subseteq Keys

ApiInit ==
  /\ phase = "serving" /\ exit = "none"
  /\ handler = [h \in Handlers |-> "free"]
  /\ usedKey \in {[h \in Handlers |-> k] : k \in {CHOOSE k \in Keys : TRUE}}
  /\ connected = [h \in Handlers |-> TRUE]
  /\ released = {}
  /\ pending = {}
  /\ flush = [f \in Flushes |-> "free"]
  /\ batch = [f \in Flushes |-> {}]
  /\ stamp = [f \in Flushes |-> [k \in Keys |-> 0]]
  /\ touched = [k \in Keys |-> 0]
  /\ recorded = [k \in Keys |-> 0]
  /\ excused = {}

Running == phase # "exited"
Active(h) == handler[h] # "free"

\* stop has begun: its flush is the last one.
Stopping == phase \in {"flushing", "releasing"}

-----------------------------------------------------------------------------
(* The pool.                                                               *)
Clients ==
  {h \in Handlers : handler[h] \in {"key_query", "tx", "put", "commit"}}
Writers == {f \in Flushes : flush[f] = "writing"}

\* A free connection; none is given out once the pool is ending.
Available ==
  /\ phase # "releasing"
  /\ Cardinality(Clients) + Cardinality(Writers) < PoolMax

-----------------------------------------------------------------------------
(* Requests.                                                               *)
Become(h, at) == handler' = [handler EXCEPT ![h] = at]

\* A closed server answers a new request 503 by itself.
Accept(h, k) ==
  /\ phase = "serving" /\ ~Active(h)
  /\ Become(h, "key_wait")
  /\ usedKey' = [usedKey EXCEPT ![h] = k]
  /\ UNCHANGED <<phase, exit, connected, released, tracker, recorded>>

Connect(h) ==
  /\ Running /\ Available
  /\ \/ handler[h] = "key_wait" /\ Become(h, "key_query")
     \/ handler[h] = "tx_wait" /\ Become(h, "tx")
  /\ UNCHANGED <<phase, exit, usedKey, connected, released, tracker, recorded>>

Finish(h) ==
  /\ Become(h, "free")
  /\ connected' = [connected EXCEPT ![h] = TRUE]
  /\ UNCHANGED <<phase, exit, usedKey, released, tracker, recorded>>

\* No connection in connectionTimeoutMillis, or a pool that has ended: the
\* request fails.
Unserved(h) ==
  /\ Running /\ handler[h] \in {"key_wait", "tx_wait"}
  /\ Finish(h)

\* The lookup refuses the key or fails, or the transaction is over.
Answered(h) ==
  /\ Running /\ handler[h] \in {"key_query", "tx", "commit"}
  /\ Finish(h)

\* authenticate ends well: seen(key), then the body is read.
Seen(h) ==
  LET k == usedKey[h]
  IN /\ Running /\ handler[h] = "key_query" /\ touched[k] < MaxTouches
     /\ Become(h, "body")
     /\ pending' = pending \cup {k}
     /\ touched' = [touched EXCEPT ![k] = @ + 1]
     /\ excused' = IF Stopping THEN excused \cup {k} ELSE excused
     /\ UNCHANGED <<phase, exit, usedKey, connected, released, flush, batch,
                    stamp, recorded>>

\* The client has sent all of its body; a request without one waits for
\* nothing.
BodyArrives(h) ==
  /\ Running /\ handler[h] = "body" /\ connected[h]
  /\ Become(h, "tx_wait")
  /\ UNCHANGED <<phase, exit, usedKey, connected, released, tracker, recorded>>

\* The body ends early with its client, or is refused.
BodyRefused(h) ==
  /\ Running /\ handler[h] = "body"
  /\ Finish(h)

\* upload, inside its transaction: storage.put is called.
BeginPut(h) ==
  /\ Running /\ handler[h] = "tx"
  /\ Become(h, "put")
  /\ UNCHANGED <<phase, exit, usedKey, connected, released, tracker, recorded>>

\* The put succeeds.
PutStored(h) ==
  /\ Running /\ handler[h] = "put"
  /\ Become(h, "commit")
  /\ UNCHANGED <<phase, exit, usedKey, connected, released, tracker, recorded>>

\* The put fails: the transaction is rolled back and the request answered.
PutRejects(h) ==
  /\ Running /\ handler[h] = "put"
  /\ Finish(h)

Disconnect(h) ==
  /\ Running /\ Active(h) /\ connected[h]
  /\ connected' = [connected EXCEPT ![h] = FALSE]
  /\ UNCHANGED <<phase, exit, handler, usedKey, released, tracker, recorded>>

-----------------------------------------------------------------------------
(* The tracker.                                                            *)

\* flush up to its await: nothing to do, or the whole set becomes a batch.
BeginFlush(f) ==
  IF pending = {} THEN UNCHANGED <<pending, flush, batch, stamp>>
  ELSE /\ flush' = [flush EXCEPT ![f] = "waiting"]
       /\ batch' = [batch EXCEPT ![f] = pending]
       /\ stamp' = [stamp EXCEPT ![f] = touched]
       /\ pending' = {}

\* The interval; it does not wait for an earlier flush.
TimerFlush(f) ==
  /\ phase \in {"serving", "closing"} /\ pending # {} /\ flush[f] = "free"
  /\ BeginFlush(f)
  /\ UNCHANGED <<phase, exit, requests, released, touched, recorded, excused>>

ConnectFlush(f) ==
  /\ Running /\ flush[f] = "waiting" /\ Available
  /\ flush' = [flush EXCEPT ![f] = "writing"]
  /\ UNCHANGED <<phase, exit, requests, released, pending, batch, stamp,
                 touched, recorded, excused>>

\* recordUse: a later last_used_at stays.
RecordUse_Overwrites(ids, at) ==
  [k \in Keys |-> IF k \in ids THEN at[k] ELSE recorded[k]]

RecordUse(ids, at) ==
  [k \in Keys |-> IF k \in ids /\ recorded[k] < at[k] THEN at[k]
                  ELSE recorded[k]]

Done(f) ==
  /\ flush' = [flush EXCEPT ![f] = "free"]
  /\ batch' = [batch EXCEPT ![f] = {}]
  /\ stamp' = [stamp EXCEPT ![f] = [k \in Keys |-> 0]]

Written(f) ==
  /\ Running /\ flush[f] = "writing"
  /\ recorded' = RecordUse(batch[f], stamp[f])
  /\ Done(f)
  /\ UNCHANGED <<phase, exit, requests, released, pending, touched, excused>>

\* The write fails, or gets no connection in time: the ids are put back for
\* the next flush.
WriteFails_Retries(f) ==
  /\ Running /\ flush[f] \in {"waiting", "writing"}
  /\ flush' = [flush EXCEPT ![f] = "waiting"]
  /\ UNCHANGED <<phase, exit, requests, released, pending, batch, stamp,
                 touched, recorded, excused>>

WriteFails(f) ==
  /\ Running /\ flush[f] \in {"waiting", "writing"}
  /\ pending' = pending \cup batch[f]
  /\ Done(f)
  /\ excused' = IF Stopping THEN excused \cup batch[f] ELSE excused
  /\ UNCHANGED <<phase, exit, requests, released, touched, recorded>>

-----------------------------------------------------------------------------
(* Shutdown.                                                               *)
Signal ==
  /\ phase = "serving"
  /\ phase' = "closing"
  /\ UNCHANGED <<exit, requests, released, tracker, recorded>>

Terminate(how) ==
  /\ phase' = "exited" /\ exit' = how
  /\ UNCHANGED <<requests, released, tracker, recorded>>

SecondSignal == phase \in {"closing", "flushing", "releasing"}
                /\ Terminate("forced")

Killed == Running /\ Terminate("killed")

\* app.close resolves; stop clears the timer and flushes.
Closed_AtOnce == TRUE

Closed == \A h \in Handlers : Active(h) => ~connected[h]

Close ==
  /\ phase = "closing" /\ Closed
  /\ phase' = "flushing"
  /\ BeginFlush(StopFlush)
  /\ UNCHANGED <<exit, requests, released, touched, recorded, excused>>

\* stop resolves; the database, Redis and storage are ended together.
Release ==
  /\ phase = "flushing" /\ flush[StopFlush] = "free"
  /\ phase' = "releasing"
  /\ excused' = excused \cup UNION {batch[f] : f \in Flushes}
  /\ UNCHANGED <<exit, requests, released, pending, flush, batch, stamp,
                 touched, recorded>>

\* An end settles, well or not; the pool's waits for its clients.
Settle(r) ==
  /\ phase = "releasing" /\ r \in Resources \ released
  /\ r = "database" => Clients = {} /\ Writers = {}
  /\ released' = released \cup {r}
  /\ UNCHANGED <<phase, exit, requests, tracker, recorded>>

Exit ==
  /\ phase = "releasing" /\ released = Resources
  /\ Terminate("clean")

-----------------------------------------------------------------------------
\* What a handler does by itself or with the database, whose waits the pool
\* bounds.
HandlerStep(h) ==
  Connect(h) \/ Unserved(h) \/ Answered(h) \/ Seen(h) \/ BeginPut(h)

ClientStep(h) ==
  \/ BodyArrives(h) \/ BodyRefused(h) \/ Disconnect(h)
  \/ \E k \in Keys : Accept(h, k)

StorageStep(h) == PutStored(h) \/ PutRejects(h)

FlushStep(f) == ConnectFlush(f) \/ Written(f) \/ WriteFails(f)

\* The ends that another service has to answer.
Remote == {"redis", "storage"}

ShutdownStep == Close \/ Release \/ Settle("database") \/ Exit

ApiNext ==
  \/ \E h \in Handlers : HandlerStep(h) \/ ClientStep(h) \/ StorageStep(h)
  \/ \E f \in Flushes : FlushStep(f)
  \/ \E f \in Timers : TimerFlush(f)
  \/ \E r \in Remote : Settle(r)
  \/ ShutdownStep \/ Signal \/ SecondSignal \/ Killed

(***************************************************************************)
(* Statements end by the pool's statement_timeout and waits for a          *)
(* connection by its connectionTimeoutMillis, so what a handler or a flush *)
(* does next with the database happens; the event loop resumes shutdown    *)
(* when what it awaits has settled.  Nothing is asked of whom no timeout   *)
(* of the code bounds: the client and its body, the storage and its puts,  *)
(* the ends of Redis and of the storage; nor of signals and timers.        *)
(***************************************************************************)
ApiFairness ==
  /\ \A h \in Handlers : WF_apiVars(HandlerStep(h))
  /\ \A f \in Flushes : WF_apiVars(FlushStep(f))
  /\ WF_apiVars(ShutdownStep)

ApiSpec == ApiInit /\ [][ApiNext]_apiVars /\ ApiFairness

-----------------------------------------------------------------------------
(***************************************************************************)
(* A use that was noted is not lost: while the process runs, a use that    *)
(* last_used_at does not cover yet is pending or in a batch that covers    *)
(* it, through overlapping and failing flushes; after a clean exit, all    *)
(* that is missing was noted, put back or left unwritten after stop began. *)
(***************************************************************************)
InHand(k) ==
  \/ k \in pending
  \/ \E f \in Flushes : k \in batch[f] /\ stamp[f][k] = touched[k]

TouchesAreKept ==
  \A k \in Keys :
    recorded[k] < touched[k] =>
      /\ Running => InHand(k)
      /\ exit = "clean" => k \in excused

(***************************************************************************)
(* "Let in-flight requests finish, then release connections" (server.ts):  *)
(* once the pool is ending, and at a clean exit, the handlers left have    *)
(* lost their client, and a clean exit interrupts no statement.            *)
(***************************************************************************)
ShutdownCutsNoRequest ==
  /\ phase = "releasing" \/ exit = "clean" =>
       \A h \in Handlers : Active(h) => ~connected[h]
  /\ exit = "clean" => Clients = {} /\ Writers = {}

(***************************************************************************)
(* What a shutdown can hang on for ever is exactly this: a body that its   *)
(* client, still there, does not finish; a put that the storage does not   *)
(* settle, which keeps its request and then its connection of the pool;    *)
(* and the end of Redis or of the storage.  Short of those a signal ends   *)
(* the process: no client that left, no request that waits for a           *)
(* connection, no statement and no overlapping or failing flush does hold  *)
(* it up.                                                                  *)
(***************************************************************************)
ShuttingDown == phase \notin {"serving", "exited"}

ShutdownEnds ==
  <>[]ShuttingDown =>
    \/ \E h \in Handlers : <>[](handler[h] = "body" /\ connected[h])
    \/ \E h \in Handlers : <>[](handler[h] = "put")
    \/ \E r \in Remote : <>[](phase = "releasing" /\ r \notin released)
=============================================================================
