------------------------- MODULE IdempotentCreate -------------------------
(***************************************************************************)
(* What a client of the API is promised about a create with an             *)
(* Idempotency-Key (docs/API/08-IDEMPOTENCY.md), with no word of rows,     *)
(* claims or transactions: a create takes effect in one step, at most one  *)
(* effect is remembered per key, a key forgets its effect only after its   *)
(* 24 hours, and an answer tells the truth about the effect.  Module       *)
(* IdempotentUploadRefinement shows that IdempotentUpload implements it.   *)
(***************************************************************************)
CONSTANTS
  Requests, Keys, Payloads, None,
  OtherKeys    \* what a request has in place of an idempotency key

VARIABLES
  asked,     \* asked[r]: the key, or what stands in its place, and the payload
  created,   \* the requests whose asset exists
  effect,    \* effect[k]: the create that key k remembers, or None
  lapsed,    \* the keys whose 24 hours have passed
  told       \* told[r]: what r's client was answered

vars == <<asked, created, effect, lapsed, told>>

Silent == [code |-> "none", asset |-> None]
Unasked == [key |-> None, payload |-> None]

Init ==
  /\ asked = [r \in Requests |-> Unasked]
  /\ created = {}
  /\ effect = [k \in Keys |-> None]
  /\ lapsed = {}
  /\ told = [r \in Requests |-> Silent]

Tell(r, code, asset) ==
  /\ told[r] = Silent
  /\ told' = [told EXCEPT ![r] = [code |-> code, asset |-> asset]]

\* A malformed key is refused in the step in which the request is asked.
Ask(r) ==
  /\ asked[r] = Unasked
  /\ \E k \in Keys \cup OtherKeys, p \in Payloads :
       asked' = [asked EXCEPT ![r] = [key |-> k, payload |-> p]]
  /\ UNCHANGED told \/ Tell(r, "error", None)
  /\ UNCHANGED <<created, effect, lapsed>>

\* The create of r takes effect; without a key its answer may go out at once.
Create(r) ==
  /\ asked[r] # Unasked
  /\ r \notin created
  /\ told[r] = Silent
  /\ created' = created \cup {r}
  /\ \/ /\ asked[r].key \in Keys
        /\ effect[asked[r].key] = None
        /\ effect' = [effect EXCEPT ![asked[r].key] = r]
        /\ UNCHANGED told
     \/ /\ asked[r].key \notin Keys
        /\ Tell(r, "created", r)
        /\ UNCHANGED effect
  /\ UNCHANGED <<asked, lapsed>>

AnswerCreated(r) ==
  /\ r \in created
  /\ Tell(r, "created", r)
  /\ UNCHANGED <<asked, created, effect, lapsed>>

AnswerReplayed(r) ==
  /\ asked[r].key \in Keys
  /\ LET s == effect[asked[r].key] IN
       /\ s # None
       /\ asked[s].payload = asked[r].payload
       /\ Tell(r, "replayed", s)
  /\ UNCHANGED <<asked, created, effect, lapsed>>

\* An error is only told to a request that created nothing.
AnswerError(r) ==
  /\ asked[r] # Unasked
  /\ r \notin created
  /\ Tell(r, "error", None)
  /\ UNCHANGED <<asked, created, effect, lapsed>>

Lapse(k) ==
  /\ lapsed' = lapsed \cup {k}
  /\ UNCHANGED <<asked, created, effect, told>>

Forget(k) ==
  /\ k \in lapsed
  /\ lapsed' = lapsed \ {k}
  /\ effect' = [effect EXCEPT ![k] = None]
  /\ UNCHANGED <<asked, created, told>>

Next ==
  \/ \E r \in Requests : \/ Ask(r) \/ Create(r)
                         \/ AnswerCreated(r) \/ AnswerReplayed(r)
                         \/ AnswerError(r)
  \/ \E k \in Keys : Lapse(k) \/ Forget(k)

Spec == Init /\ [][Next]_vars
=============================================================================
