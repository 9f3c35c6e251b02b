----------------------------- MODULE ProxyTokens -----------------------------
(***************************************************************************)
(* Presigned URLs for providers that cannot sign their own                 *)
(* (proxy-presign.ts), and the endpoint that serves them                   *)
(* (storage-proxy.routes.ts).                                              *)
(*                                                                         *)
(* A token is its payload: without the secret nobody makes another one     *)
(* that verifies (HMAC).  It can be presented by anybody, to either        *)
(* method, any number of times and several times at once, and is verified  *)
(* when the request arrives; the body is read, and stored, later.          *)
(***************************************************************************)
EXTENDS Integers, FiniteSets

CONSTANTS
  ObjectKeys,
  Types,           \* content types
  Sizes,           \* the sizes, in chunks, presigners ask for
  Lifetimes,       \* the lifetimes, in seconds, presigners ask for
  Uploads,         \* PUT requests under way at once (a bound)
  UploadMaxBytes,  \* UPLOAD_MAX_BYTES, in chunks
  MaxTokens,       \* tokens issued (a bound)
  MaxTick          \* where the clock stops (a bound)

ASSUME ProxyAssumption ==
  Sizes \subseteq Nat /\ Lifetimes \subseteq Nat /\ UploadMaxBytes \in Nat

\* The clock is finer than the seconds an expiry is written in.
TicksPerSecond == 2

NoLimit == -1

VARIABLES
  tick,
  issued,   \* [token, expiresAt]: what presigning signed and answered
  upload,   \* upload[u]: the request's verified payload, its body so far
  stored,   \* stored[k]: the object at k, or Absent
  served    \* [token, at]: what GET answered with an object (history)

proxyVars == <<tick, issued, upload, stored, served>>

Absent == [size |-> -1]
NoUpload == [since |-> -1]

ProxyInit ==
  /\ tick = 0
  /\ issued = {}
  /\ upload = [u \in Uploads |-> NoUpload]
  /\ stored = [k \in ObjectKeys |-> Absent]
  /\ served = {}

-----------------------------------------------------------------------------
(* Issuing: e is the expiry in whole seconds, rounded down.                *)
Seconds_Up(t) == -((-t) \div TicksPerSecond)

Seconds(t) == t \div TicksPerSecond

Issue(token, expiresAt) ==
  /\ Cardinality(issued) < MaxTokens
  /\ issued' = issued \cup {[token |-> token, expiresAt |-> expiresAt]}
  /\ UNCHANGED <<tick, upload, stored, served>>

PresignPut(k, type, max, lifetime) ==
  LET expiresAt == tick + lifetime * TicksPerSecond
  IN Issue([k |-> k, m |-> "PUT", e |-> Seconds(expiresAt), ct |-> type,
            max |-> max], expiresAt)

PresignGet(k, lifetime) ==
  LET expiresAt == tick + lifetime * TicksPerSecond
  IN Issue([k |-> k, m |-> "GET", e |-> Seconds(expiresAt)], expiresAt)

\* verifyProxyToken, of a token whose signature verifies.
Verified(token, method) ==
  /\ token.m = method
  /\ token.e * TicksPerSecond > tick

-----------------------------------------------------------------------------
(* PUT.                                                                    *)
Limit(token) == IF token.max = NoLimit THEN UploadMaxBytes ELSE token.max

\* declared: Content-Length, or NoLimit for a chunked body.
PutBegins(u, token, type, declared) ==
  /\ upload[u] = NoUpload
  /\ Verified(token, "PUT")
  /\ declared # NoLimit /\ token.max # NoLimit => declared <= token.max
  /\ token.max # NoLimit => token.max <= UploadMaxBytes
  /\ type = token.ct
  /\ upload' = [upload EXCEPT ![u] =
                  [token |-> token, declared |-> declared, total |-> 0,
                   since |-> tick]]
  /\ UNCHANGED <<tick, issued, stored, served>>

\* readBoundedBody: one chunk more, unless it passes the limit, which ends
\* the request.
ReadChunk(u) ==
  LET r == upload[u]
      longer == [r EXCEPT !.total = @ + 1]
  IN /\ r # NoUpload
     /\ r.declared # NoLimit => r.total < r.declared
     /\ upload' = [upload EXCEPT ![u] =
                     IF longer.total > Limit(r.token) THEN NoUpload ELSE longer]
     /\ UNCHANGED <<tick, issued, stored, served>>

\* The client goes away, or storage.put fails (503).
PutFails(u) ==
  /\ upload[u] # NoUpload
  /\ upload' = [upload EXCEPT ![u] = NoUpload]
  /\ UNCHANGED <<tick, issued, stored, served>>

\* The body is complete and put.
PutEnds(u) ==
  LET r == upload[u]
  IN /\ r # NoUpload
     /\ r.declared # NoLimit => r.total = r.declared
     /\ stored' = [stored EXCEPT ![r.token.k] =
                     [size |-> r.total, type |-> r.token.ct,
                      since |-> r.since]]
     /\ upload' = [upload EXCEPT ![u] = NoUpload]
     /\ UNCHANGED <<tick, issued, served>>

-----------------------------------------------------------------------------
(* GET.                                                                    *)
Get(token) ==
  /\ Verified(token, "GET")
  /\ stored[token.k] # Absent
  /\ served' = served \cup {[k |-> token.k, at |-> tick]}
  /\ UNCHANGED <<tick, issued, upload, stored>>

PassTick ==
  /\ tick < MaxTick
  /\ tick' = tick + 1
  /\ UNCHANGED <<issued, upload, stored, served>>

Presented == {i.token : i \in issued}

ProxyNext ==
  \/ \E k \in ObjectKeys, l \in Lifetimes :
       \/ PresignGet(k, l)
       \/ \E type \in Types, max \in Sizes \cup {NoLimit} :
            PresignPut(k, type, max, l)
  \/ \E u \in Uploads :
       \/ \E token \in Presented, type \in Types,
             declared \in Sizes \cup {NoLimit} :
            PutBegins(u, token, type, declared)
       \/ ReadChunk(u) \/ PutFails(u) \/ PutEnds(u)
  \/ \E token \in Presented : Get(token)
  \/ PassTick

ProxySpec == ProxyInit /\ [][ProxyNext]_proxyVars

-----------------------------------------------------------------------------
(***************************************************************************)
(* "A URL a client holds cannot be re-pointed at another object, re-used   *)
(* for another method, raised in size, or replayed after its expiry"       *)
(* (storage-proxy.routes.ts): every object that is stored was promised, in *)
(* its type and within its size, by a PUT URL that was valid, to the       *)
(* instant it was answered with, when the request began; every read by a   *)
(* GET URL of that object.                                                 *)
(***************************************************************************)
OnlyAsPresigned ==
  /\ \A k \in ObjectKeys : stored[k] # Absent =>
       \E i \in issued :
         /\ i.token.m = "PUT" /\ i.token.k = k
         /\ i.token.ct = stored[k].type
         /\ i.token.max # NoLimit => stored[k].size <= i.token.max
         /\ stored[k].size <= UploadMaxBytes
         /\ stored[k].since < i.expiresAt
  /\ \A s \in served : \E i \in issued :
       i.token.m = "GET" /\ i.token.k = s.k /\ s.at < i.expiresAt
=============================================================================
