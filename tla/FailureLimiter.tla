--------------------------- MODULE FailureLimiter ---------------------------
(***************************************************************************)
(* The failed-authentication limiter of one API process                    *)
(* (failure-limiter.ts) and the hook that asks and tells it                *)
(* (authentication.ts, onRequest).                                         *)
(*                                                                         *)
(* The hook asks before it awaits the key lookup and tells after it, so    *)
(* lookups of one address that are under way together are admitted by the  *)
(* same count.  A refusal (429) and a request without a bearer token       *)
(* change nothing but what asking already forgot.                          *)
(***************************************************************************)
EXTENDS Naturals, Sequences, FiniteSets

CONSTANTS
  Addresses,
  MaxFailures,  \* failures allowed per window
  WindowMs,     \* the length of a window, in ticks of the clock
  MaxTracked,   \* addresses tracked at most
  MaxLookups,   \* lookups of one address under way at once (a bound)
  MaxNow        \* where the clock stops (a bound)

ASSUME LimiterAssumption ==
  /\ MaxFailures \in Nat \ {0} /\ WindowMs \in Nat \ {0}
  /\ MaxTracked \in Nat \ {0} /\ MaxLookups \in Nat \ {0} /\ MaxNow \in Nat

VARIABLES
  now,
  count,        \* count[a]: the entry's failures, 0 without an entry
  windowStart,  \* windowStart[a]: when the entry was made
  order,        \* the tracked addresses, oldest entry first (the Map's order)
  lookups,      \* lookups[a]: requests of a whose lookup is awaited
  failedAt      \* failedAt[a]: when a failed within the last window, nth to
                \* tell failures of one tick apart, since a was last evicted
                \* (history)

limiterVars == <<now, count, windowStart, order, lookups, failedAt>>

LimiterTypeOK ==
  /\ now \in Nat
  /\ count \in [Addresses -> Nat]
  /\ windowStart \in [Addresses -> Nat]
  /\ order \in Seq(Addresses)
  /\ lookups \in [Addresses -> 0..MaxLookups]
  /\ failedAt \in [Addresses -> SUBSET [at : Nat, nth : Nat]]

LimiterInit ==
  /\ now = 0
  /\ count = [a \in Addresses |-> 0]
  /\ windowStart = [a \in Addresses |-> 0]
  /\ order = <<>>
  /\ lookups = [a \in Addresses |-> 0]
  /\ failedAt = [a \in Addresses |-> {}]

-----------------------------------------------------------------------------
\* current: an entry whose window is over is forgotten when it is read.
Expired(a) == count[a] > 0 /\ now - windowStart[a] >= WindowMs

Current(a) == IF Expired(a) THEN 0 ELSE count[a]

Without(a) == SelectSeq(order, LAMBDA b : b # a)

\* blockedForSeconds is positive.
Blocked_Late(a) == Current(a) > MaxFailures

Blocked(a) == Current(a) >= MaxFailures

\* What asking does, whatever the answer.
Ask(a) ==
  /\ count' = [count EXCEPT ![a] = Current(a)]
  /\ order' = IF Expired(a) THEN Without(a) ELSE order

\* No bearer token: 401, and no failure is recorded.
NoCredential(a) ==
  /\ ~Blocked(a)
  /\ Ask(a)
  /\ UNCHANGED <<now, windowStart, lookups, failedAt>>

BeginLookup(a) ==
  /\ ~Blocked(a)
  /\ lookups[a] < MaxLookups
  /\ Ask(a)
  /\ lookups' = [lookups EXCEPT ![a] = @ + 1]
  /\ UNCHANGED <<now, windowStart, failedAt>>

\* A valid key, or an unreachable credential store (503).
EndLookup(a) ==
  /\ lookups[a] > 0
  /\ lookups' = [lookups EXCEPT ![a] = @ - 1]
  /\ UNCHANGED <<now, count, windowStart, order, failedAt>>

\* recordFailure: count in the current entry, or make one, forgetting the
\* oldest entry when the map is full.
RecordFailure(a) ==
  LET kept == IF Expired(a) THEN Without(a) ELSE order
      full == Current(a) = 0 /\ Len(kept) >= MaxTracked
      evicted == IF full THEN {Head(kept)} ELSE {}
      failure == [at |-> now, nth |-> Cardinality(failedAt[a]) + 1]
  IN /\ order' = IF Current(a) > 0 THEN order
                 ELSE Append(IF full THEN Tail(kept) ELSE kept, a)
     /\ count' = [b \in Addresses |->
                    IF b = a THEN Current(a) + 1
                    ELSE IF b \in evicted THEN 0 ELSE count[b]]
     /\ windowStart' =
          [windowStart EXCEPT ![a] = IF Current(a) > 0 THEN @ ELSE now]
     /\ failedAt' = [b \in Addresses |->
                       IF b = a THEN failedAt[a] \cup {failure}
                       ELSE IF b \in evicted THEN {} ELSE failedAt[b]]

\* The lookup finds no such key: 401, recorded.
FailLookup(a) ==
  /\ lookups[a] > 0
  /\ lookups' = [lookups EXCEPT ![a] = @ - 1]
  /\ RecordFailure(a)
  /\ UNCHANGED now

\* Time passes; the history keeps the failures of the last window.
PassTime ==
  /\ now < MaxNow
  /\ now' = now + 1
  /\ failedAt' = [a \in Addresses |->
                    {f \in failedAt[a] : now' - f.at < WindowMs}]
  /\ UNCHANGED <<count, windowStart, order, lookups>>

LimiterNext ==
  \/ \E a \in Addresses : NoCredential(a) \/ BeginLookup(a)
                          \/ EndLookup(a) \/ FailLookup(a)
  \/ PassTime

LimiterSpec == LimiterInit /\ [][LimiterNext]_limiterVars

-----------------------------------------------------------------------------
\* The failures that belong to the window of an address's entry.
InWindow(a) == {f \in failedAt[a] : f.at >= windowStart[a]}

(***************************************************************************)
(* What the limiter is worth.  Within the window of its entry an address   *)
(* fails MaxFailures - 1 times before the attempts under way are the last, *)
(* and those under way still count against it.  Two windows may touch, so  *)
(* any span of WindowMs, wherever it starts, holds fewer than twice that.  *)
(* Neither holds of an address that was forgotten for others.              *)
(***************************************************************************)
FailuresAreBounded ==
  \A a \in Addresses :
    /\ count[a] > 0 =>
         Cardinality(InWindow(a)) + lookups[a] <= MaxFailures - 1 + MaxLookups
    /\ Cardinality(failedAt[a]) < 2 * (MaxFailures - 1 + MaxLookups)
=============================================================================
