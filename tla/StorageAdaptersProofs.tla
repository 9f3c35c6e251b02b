------------------------- MODULE StorageAdaptersProofs -------------------------
(***************************************************************************)
(* Proofs about StorageAdapters and StorageRefinement for every set of     *)
(* operations, every finite set of keys, every adapter and page size, and  *)
(* any number of failures and crashes.                                     *)
(***************************************************************************)
EXTENDS StorageRefinement, FiniteSetTheorems, SequenceTheorems, WellFoundedInduction,
        TLAPS

-----------------------------------------------------------------------------
(***************************************************************************)
(* Types                                                                   *)
(***************************************************************************)
Kinds == Reads \cup Updates \cup {"list", "none"}
Types == Writes \cup {DefaultType, None}
Infos == [size : Writes \cup {None}, type : Types, body : Writes \cup {None}]

StoreTypes ==
  /\ provider \in Providers
  /\ object \in [Keys -> Writes \cup {None}]
  /\ sidecar \in [Keys -> Types]
  /\ pc \in [Ops -> RunPc \cup {"idle", "done", "crashed"}]
  /\ call \in [Ops -> [kind : Kinds, key : Keys \cup {0}, from : Keys \cup {0}]]
  /\ info \in [Ops -> Infos]
  /\ answer \in [Ops -> {"none", "ok", "not_found", "failed"}]
  /\ DOMAIN settled = Keys
  /\ alone \in [Ops -> BOOLEAN]
  /\ DOMAIN expect = Ops

\* The operations that make a call.
ReadLabels == {"stat", "type", "blob_read"}
WriteLabels == {"sidecar", "object", "put_stat", "blob_upload"}
DeleteLabels == {"rm_object", "rm_sidecar", "blob_delete"}

Sensible(o) ==
  /\ call[o].kind \in Reads \cup Updates => call[o].key \in Keys
  /\ call[o].kind = "copy" => call[o].from \in Keys \ {call[o].key}
  /\ pc[o] = "idle" => call[o] = NoCall
  /\ pc[o] \in ReadLabels => call[o].kind \in Reads
  /\ pc[o] = "body" => call[o].kind \in {"get", "copy"}
  /\ pc[o] \in WriteLabels => call[o].kind \in {"put", "copy"}
  /\ pc[o] \in DeleteLabels => call[o].kind = "delete"
  /\ pc[o] = "blob_copy" => call[o].kind = "copy"
  /\ pc[o] \in {"walk", "walking", "list_stat", "blob_page"} => call[o].kind = "list"
  /\ pc[o] # "done" => answer[o] = "none"

-----------------------------------------------------------------------------
(***************************************************************************)
(* The invariant                                                           *)
(***************************************************************************)
Content(k) == <<object[k], sidecar[k]>>
Whole(k) == object[k] = None <=> sidecar[k] = None

\* o is writing k.
Writing(o, k) == InFlight(o) /\ call[o].kind \in Updates /\ call[o].key = k

\* A settled key is written by nobody, and has two files or none.
Settled(k) ==
  settled[k] # Unsettled =>
    /\ Content(k) = settled[k] /\ Whole(k)
    /\ \A x \in Ops : ~Writing(x, k)

\* A write that is alone has no rival.
Alone(o) ==
  alone[o] =>
    /\ Writing(o, call[o].key)
    /\ \A x \in Ops : Writing(x, call[o].key) => x = o

\* What a write that is alone leaves, if that is certain.
Result(o) ==
  CASE call[o].kind = "put" -> <<o, o>>
    [] call[o].kind = "delete" -> Absent
    [] call[o].kind = "copy" -> expect[o]

\* How far a write that is alone has come.
Halfway(o) ==
  alone[o] /\ Result(o) # Unsettled =>
    /\ pc[o] = "object" => sidecar[call[o].key] = Result(o)[2]
    /\ pc[o] = "put_stat" => Content(call[o].key) = Result(o) /\ Whole(call[o].key)
    /\ pc[o] = "rm_sidecar" => object[call[o].key] = None

\* Until a read ends, what it must find is what its key holds.
Expecting(o) ==
  expect[o] # Unsettled =>
    /\ call[o].kind \in Reads
    /\ InFlight(o) => settled[ReadKey(o)] = expect[o]

\* What a read that expects something has found so far.
Found(o) ==
  /\ pc[o] \in {"idle", "stat", "type", "body"} => info[o].body = None
  /\ call[o].kind \in Reads /\ expect[o] # Unsettled =>
       /\ pc[o] \in {"type", "body", "sidecar", "object", "blob_upload"} =>
            info[o].size = expect[o][1] /\ info[o].size # None
       /\ pc[o] \in {"body", "sidecar", "object", "blob_upload"} =>
            info[o].type = expect[o][2]
       /\ pc[o] \in {"sidecar", "object"} => info[o].body \in {None, expect[o][1]}
       /\ pc[o] = "blob_upload" => info[o].body = expect[o][1]
       /\ pc[o] = "put_stat" => expect[o] # Absent

\* UndisturbedReadIsExact, for one read.
Exact(o) ==
  expect[o] # Unsettled =>
    /\ answer[o] = "not_found" => expect[o] = Absent
    /\ answer[o] = "ok" => expect[o] # Absent
    /\ answer[o] = "ok" /\ call[o].kind \in {"get", "stat"} =>
         <<info[o].size, info[o].type>> = expect[o]
    /\ answer[o] = "ok" /\ call[o].kind = "get" => info[o].body = expect[o][1]

AdapterInv ==
  /\ StoreTypes
  /\ \A k \in Keys : Settled(k)
  /\ \A o \in Ops : /\ Sensible(o) /\ Alone(o) /\ Halfway(o)
                    /\ Expecting(o) /\ Found(o) /\ Exact(o)

-----------------------------------------------------------------------------
(***************************************************************************)
(* A step of one operation                                                 *)
(***************************************************************************)
\* o changes what only o may change.
OwnStep(o) ==
  /\ provider' = provider /\ call' = call /\ expect' = expect
  /\ \A x \in Ops \ {o} : /\ pc'[x] = pc[x] /\ info'[x] = info[x]
                          /\ answer'[x] = answer[x] /\ alone'[x] = alone[x]
  /\ \A k \in Keys : ~Writing(o, k) => object'[k] = object[k] /\ sidecar'[k] = sidecar[k]

Continues(o) ==
  /\ InFlight(o)' /\ UNCHANGED <<settled, alone, answer>>
  /\ Sensible(o)' /\ Halfway(o)' /\ Found(o)'

Succeeds(o) == answer'[o] = "ok" /\ alone[o]

Ends(o) ==
  /\ pc'[o] = "done" /\ ~alone'[o]
  /\ \A k \in Keys :
       settled'[k] = IF Succeeds(o) /\ Writing(o, k) THEN Result(o) ELSE settled[k]
  /\ Succeeds(o) /\ Result(o) # Unsettled =>
       Content(call[o].key)' = Result(o) /\ Whole(call[o].key)'
  /\ Exact(o)'

\* A key that o writes is not settled; the others keep what they hold.
LEMMA KeysOfStep ==
  ASSUME AdapterInv, NEW o \in Ops, InFlight(o), OwnStep(o),
         Continues(o) \/ Ends(o), NEW k \in Keys
  PROVE  Settled(k)'
<1>1. \A x \in Ops : Writing(x, k)' => Writing(x, k)
  BY DEF OwnStep, Continues, Writing, InFlight, Ends
<1>2. CASE settled'[k] = settled[k]
  <2>1. SUFFICES ASSUME settled[k] # Unsettled
                 PROVE  /\ Content(k)' = settled[k] /\ Whole(k)'
                        /\ \A x \in Ops : ~Writing(x, k)'
    BY <1>2 DEF Settled
  <2>2. Content(k) = settled[k] /\ Whole(k) /\ \A x \in Ops : ~Writing(x, k)
    BY <2>1 DEF AdapterInv, Settled
  <2>3. object'[k] = object[k] /\ sidecar'[k] = sidecar[k]
    BY <2>2 DEF OwnStep
  <2> QED BY <1>1, <2>2, <2>3 DEF Content, Whole
<1>3. CASE Ends(o) /\ Succeeds(o) /\ Writing(o, k)
  <2>1. settled'[k] = Result(o) /\ call[o].key = k
    BY <1>3 DEF Ends, Writing
  <2>2. Result(o) # Unsettled => Content(k)' = Result(o) /\ Whole(k)'
    BY <1>3, <2>1 DEF Ends, OwnStep, Content, Whole
  <2>3. \A x \in Ops : Writing(x, k) => x = o
    BY <1>3, <2>1 DEF AdapterInv, Alone, Succeeds
  <2>4. ~Writing(o, k)'
    BY <1>3 DEF Ends, Writing, InFlight, RunPc
  <2> QED BY <1>1, <2>1, <2>2, <2>3, <2>4 DEF Settled
<1> QED BY <1>2, <1>3 DEF Continues, Ends

\* What the invariant says of another operation stays true.
LEMMA OthersOfStep ==
  ASSUME AdapterInv, NEW o \in Ops, InFlight(o), OwnStep(o),
         Continues(o) \/ Ends(o), NEW x \in Ops \ {o}
  PROVE  /\ Sensible(x)' /\ Alone(x)' /\ Halfway(x)'
         /\ Expecting(x)' /\ Found(x)' /\ Exact(x)'
<1>1. /\ pc'[x] = pc[x] /\ info'[x] = info[x] /\ answer'[x] = answer[x]
      /\ alone'[x] = alone[x] /\ call' = call /\ expect' = expect
  BY DEF OwnStep
<1>2. /\ Sensible(x) /\ Alone(x) /\ Halfway(x)
      /\ Expecting(x) /\ Found(x) /\ Exact(x)
  BY DEF AdapterInv
<1>3. Sensible(x)'
  BY <1>1, <1>2 DEF Sensible
<1>4. Alone(x)'
  <2>1. \A y \in Ops, k \in Keys : Writing(y, k)' => Writing(y, k)
    BY DEF OwnStep, Continues, Writing, InFlight, Ends
  <2>2. call[x].kind \in Updates => call[x].key \in Keys
    BY <1>2 DEF Sensible
  <2> QED BY <1>1, <1>2, <2>1, <2>2 DEF Alone, Writing, InFlight
<1>5. Halfway(x)'
  <2>1. SUFFICES ASSUME alone[x]
                 PROVE  Halfway(x)'
    BY <1>1 DEF Halfway
  <2>2. call[x].key \in Keys /\ ~Writing(o, call[x].key)
    BY <1>2, <2>1 DEF Alone, Writing, Sensible
  <2>3. /\ object'[call[x].key] = object[call[x].key]
        /\ sidecar'[call[x].key] = sidecar[call[x].key]
    BY <2>2 DEF OwnStep
  <2>4. Result(x)' = Result(x)
    BY <1>1 DEF Result
  <2> QED BY <1>1, <1>2, <2>3, <2>4 DEF Halfway, Content, Whole
<1>6. Expecting(x)'
  <2>1. SUFFICES ASSUME expect[x] # Unsettled, InFlight(x)
                 PROVE  settled'[ReadKey(x)] = expect[x]
    BY <1>1, <1>2 DEF Expecting, InFlight, ReadKey
  <2>2. settled[ReadKey(x)] = expect[x] /\ ReadKey(x) \in Keys
    BY <1>2, <2>1 DEF Expecting, Sensible, ReadKey, Reads
  <2>3. ~Writing(o, ReadKey(x))
    BY <2>1, <2>2 DEF AdapterInv, Settled
  <2> QED BY <2>2, <2>3 DEF Continues, Ends
<1>7. Found(x)' /\ Exact(x)'
  BY <1>1, <1>2 DEF Found, Exact
<1> QED BY <1>3, <1>4, <1>5, <1>6, <1>7

\* A step that goes on or ends as it may keeps the invariant.
LEMMA OwnKeeps ==
  ASSUME AdapterInv, NEW o \in Ops, InFlight(o), OwnStep(o), StoreTypes',
         Continues(o) \/ Ends(o)
  PROVE  AdapterInv'
<1>1. CASE Continues(o)
  <2>1. Alone(o)'
    <3>1. \A y \in Ops : Writing(y, call[o].key)' => Writing(y, call[o].key)
      BY DEF OwnStep, Writing, InFlight
    <3> QED BY <1>1, <3>1 DEF AdapterInv, Alone, Continues, OwnStep, Writing, InFlight
  <2>2. Expecting(o)'
    BY <1>1 DEF AdapterInv, Expecting, Continues, OwnStep, ReadKey
  <2>3. answer'[o] = "none"
    BY <1>1 DEF Continues, AdapterInv, Sensible, InFlight, RunPc
  <2>4. Exact(o)'
    BY <2>3 DEF Exact
  <2> QED BY <1>1, <2>1, <2>2, <2>4, KeysOfStep, OthersOfStep
          DEF AdapterInv, Continues
<1>2. CASE Ends(o)
  <2>1. Alone(o)' /\ Halfway(o)'
    BY <1>2 DEF Ends, Alone, Halfway
  <2>2. Sensible(o)' /\ Found(o)'
    BY <1>2 DEF Ends, OwnStep, AdapterInv, Sensible, Found, ReadLabels,
                WriteLabels, DeleteLabels
  <2>3. Expecting(o)'
    BY <1>2 DEF AdapterInv, Ends, OwnStep, Expecting, InFlight, RunPc
  <2> QED BY <1>2, <2>1, <2>2, <2>3, KeysOfStep, OthersOfStep
          DEF AdapterInv, Ends
<1> QED BY <1>1, <1>2

-----------------------------------------------------------------------------
(***************************************************************************)
(* How a step goes on or ends                                              *)
(***************************************************************************)
\* What o's step leaves apart from where o goes next.
Frame(o) ==
  /\ UNCHANGED <<provider, call, expect>>
  /\ object' \in [Keys -> Writes \cup {None}] /\ sidecar' \in [Keys -> Types]
  /\ info' \in [Ops -> Infos]
  /\ \A x \in Ops \ {o} : info'[x] = info[x]
  /\ \A k \in Keys : ~Writing(o, k) => object'[k] = object[k] /\ sidecar'[k] = sidecar[k]

\* So a step that goes on has these things to show,
LEMMA GotoKeeps ==
  ASSUME AdapterInv, NEW o \in Ops, InFlight(o), NEW label \in RunPc, Goto(o, label),
         Frame(o), Sensible(o)', Halfway(o)', Found(o)'
  PROVE  AdapterInv'
<1>1. OwnStep(o)
  BY DEF OwnStep, Frame, Goto, AdapterInv, StoreTypes
<1>2. Continues(o)
  BY DEF Continues, Goto, InFlight, AdapterInv, StoreTypes
<1>3. StoreTypes'
  BY DEF StoreTypes, AdapterInv, Frame, Goto
<1> QED BY <1>1, <1>2, <1>3, OwnKeeps

\* and a step that ends these.
LEMMA EndKeeps ==
  ASSUME AdapterInv, NEW o \in Ops, InFlight(o),
         NEW a \in {"ok", "not_found", "failed"}, End(o, a), Frame(o), Exact(o)',
         a = "ok" /\ alone[o] /\ Result(o) # Unsettled =>
           Content(call[o].key)' = Result(o) /\ Whole(call[o].key)'
  PROVE  AdapterInv'
<1>1. /\ pc' = [pc EXCEPT ![o] = "done"] /\ answer' = [answer EXCEPT ![o] = a]
      /\ alone' = [alone EXCEPT ![o] = FALSE]
  BY DEF End
<1>2. OwnStep(o)
  BY <1>1 DEF OwnStep, Frame, AdapterInv, StoreTypes
<1>3. DOMAIN settled' = Keys
      /\ \A k \in Keys :
           settled'[k] = IF Succeeds(o) /\ Writing(o, k) THEN Result(o) ELSE settled[k]
  BY <1>1 DEF End, Succeeds, Writing, Result, AdapterInv, StoreTypes
<1>4. Ends(o)
  BY <1>1, <1>3 DEF Ends, Succeeds, AdapterInv, StoreTypes
<1>5. StoreTypes'
  BY <1>1, <1>3 DEF StoreTypes, AdapterInv, Frame
<1> QED BY <1>2, <1>4, <1>5, OwnKeeps

\* What is learned is one field of what o has read.
LEMMA LearnIs ==
  ASSUME StoreTypes, NEW o \in Ops, NEW field, NEW v, Learn(o, field, v)
  PROVE  info' = [info EXCEPT ![o] = [info[o] EXCEPT ![field] = v]]
BY DEF Learn

\* A read that learns something changes nothing else.
LEMMA LearnFrame ==
  ASSUME AdapterInv, NEW o \in Ops, NEW field \in {"size", "type", "body"},
         NEW v \in Types, field # "type" => v \in Writes \cup {None},
         Learn(o, field, v), UNCHANGED <<provider, files, call, expect>>
  PROVE  /\ Frame(o) /\ info'[o][field] = v
         /\ field # "size" => info'[o].size = info[o].size
         /\ field # "type" => info'[o].type = info[o].type
         /\ field # "body" => info'[o].body = info[o].body
<1>1. info' = [info EXCEPT ![o] = [info[o] EXCEPT ![field] = v]]
  BY LearnIs DEF AdapterInv
<1>2. info[o] \in Infos
  BY DEF AdapterInv, StoreTypes
<1>3. [info[o] EXCEPT ![field] = v] \in Infos
  BY <1>2 DEF Infos, Types
<1>4. info' \in [Ops -> Infos] /\ info'[o] = [info[o] EXCEPT ![field] = v]
  BY <1>1, <1>3 DEF AdapterInv, StoreTypes
<1>5. Frame(o)
  BY <1>1, <1>4 DEF Frame, AdapterInv, StoreTypes, files
<1> QED BY <1>2, <1>4, <1>5 DEF Infos

\* A step that reads nothing and writes nothing changes nothing else.
LEMMA SameFrame ==
  ASSUME AdapterInv, NEW o \in Ops, UNCHANGED <<provider, files, call, info, expect>>
  PROVE  Frame(o)
BY DEF Frame, AdapterInv, StoreTypes, files

\* A read that expects something finds it under its key.
LEMMA ReadFacts ==
  ASSUME AdapterInv, NEW o \in Ops, InFlight(o), call[o].kind \in Reads
  PROVE  /\ ReadKey(o) \in Keys
         /\ expect[o] # Unsettled => Content(ReadKey(o)) = expect[o] /\ Whole(ReadKey(o))
BY DEF AdapterInv, Sensible, Expecting, Settled, ReadKey, Reads, Updates

-----------------------------------------------------------------------------
(***************************************************************************)
(* Reads of the file adapters                                              *)
(***************************************************************************)
LEMMA StatKeeps ==
  ASSUME AdapterInv, NEW o \in Ops, Stat(o)
  PROVE  AdapterInv'
<1>1. InFlight(o) /\ pc[o] = "stat" /\ call[o].kind \in Reads
  BY DEF Stat, At, InFlight, RunPc, AdapterInv, Sensible, ReadLabels
<1>2. UNCHANGED <<provider, files, call, expect>>
  BY DEF Stat
<1>3. CASE object[ReadKey(o)] = None /\ End(o, "not_found") /\ UNCHANGED info
  <2>1. Frame(o)
    BY <1>2, <1>3, SameFrame
  <2>2. Exact(o)'
    BY <1>1, <1>2, <1>3, ReadFacts
       DEF Exact, End, Content, Whole, Absent, AdapterInv, StoreTypes
  <2> QED BY <1>1, <1>3, <2>1, <2>2, EndKeeps
<1>4. CASE /\ object[ReadKey(o)] # None
           /\ Learn(o, "size", object[ReadKey(o)]) /\ Goto(o, "type")
  <2>1. object[ReadKey(o)] \in Types \cap (Writes \cup {None})
    BY <1>1, ReadFacts DEF AdapterInv, StoreTypes, Types
  <2>2. /\ Frame(o) /\ info'[o].size = object[ReadKey(o)]
        /\ info'[o].body = info[o].body
    BY <1>2, <1>4, <2>1, LearnFrame
  <2>3. pc'[o] = "type" /\ alone' = alone /\ answer' = answer
    BY <1>4 DEF Goto, AdapterInv, StoreTypes
  <2>4. Sensible(o)'
    BY <1>1, <1>2, <2>3
       DEF Sensible, AdapterInv, ReadLabels, WriteLabels, DeleteLabels
  <2>5. Halfway(o)'
    BY <2>3 DEF Halfway
  <2>6. Found(o)'
    BY <1>1, <1>2, <1>4, <2>2, <2>3, ReadFacts DEF Found, AdapterInv, Content
  <2> QED BY <1>1, <1>4, <2>2, <2>4, <2>5, <2>6, GotoKeeps DEF RunPc
<1> QED BY <1>3, <1>4 DEF Stat

\* The type of a settled key is the one that was written with it.
LEMMA ReadTypeKeeps ==
  ASSUME AdapterInv, NEW o \in Ops, ReadType(o)
  PROVE  AdapterInv'
<1> DEFINE type == IF sidecar[ReadKey(o)] = None THEN DefaultType ELSE sidecar[ReadKey(o)]
<1>1. InFlight(o) /\ pc[o] = "type" /\ call[o].kind \in Reads
  BY DEF ReadType, At, InFlight, RunPc, AdapterInv, Sensible, ReadLabels
<1>2. UNCHANGED <<provider, files, call, expect>> /\ Learn(o, "type", type)
  BY DEF ReadType
<1>3. type \in Types
  BY <1>1, ReadFacts DEF AdapterInv, StoreTypes, Types
<1>4. /\ Frame(o) /\ info'[o].type = type /\ info'[o].size = info[o].size
      /\ info'[o].body = info[o].body
  BY <1>2, <1>3, LearnFrame
<1>5. expect[o] # Unsettled =>
        /\ info[o].size = expect[o][1] /\ info[o].size # None
        /\ type = expect[o][2] /\ Content(ReadKey(o)) = expect[o]
  BY <1>1, ReadFacts DEF AdapterInv, Found, Content, Whole
<1>6. info[o].body = None
  BY <1>1 DEF AdapterInv, Found
<1> HIDE DEF type
<1>7. CASE call[o].kind = "stat" /\ End(o, "ok")
  <2>1. answer'[o] = "ok"
    BY <1>7 DEF End, AdapterInv, StoreTypes
  <2>2. Exact(o)'
    BY <1>2, <1>4, <1>5, <1>7, <2>1 DEF Exact, Content, Absent
  <2>3. ~alone[o]
    BY <1>7 DEF AdapterInv, Alone, Writing, Updates
  <2> QED BY <1>1, <1>4, <1>7, <2>2, <2>3, EndKeeps
<1>8. ASSUME NEW label \in {"body", "sidecar"}, Goto(o, label),
             label = "body" => call[o].kind \in {"get", "copy"},
             label = "sidecar" => call[o].kind = "copy"
      PROVE  AdapterInv'
  <2>1. pc'[o] = label /\ alone' = alone /\ answer' = answer
    BY <1>8 DEF Goto, AdapterInv, StoreTypes
  <2>2. Sensible(o)'
    BY <1>1, <1>2, <1>8, <2>1
       DEF Sensible, AdapterInv, ReadLabels, WriteLabels, DeleteLabels
  <2>3. Halfway(o)'
    BY <2>1 DEF Halfway
  <2>4. Found(o)'
    BY <1>2, <1>4, <1>5, <1>6, <2>1 DEF Found
  <2> QED BY <1>1, <1>4, <1>8, <2>2, <2>3, <2>4, GotoKeeps DEF RunPc
<1> QED BY <1>1, <1>7, <1>8 DEF ReadType, Reads

\* The bytes of a settled key are there, and those of its type.
LEMMA ReadBodyKeeps ==
  ASSUME AdapterInv, NEW o \in Ops, ReadBody(o)
  PROVE  AdapterInv'
<1> DEFINE bytes == object[ReadKey(o)]
<1>1. InFlight(o) /\ pc[o] = "body" /\ call[o].kind \in {"get", "copy"}
      /\ call[o].kind \in Reads
  BY DEF ReadBody, At, InFlight, RunPc, AdapterInv, Sensible, Reads
<1>2. UNCHANGED <<provider, files, call, expect>>
  BY DEF ReadBody
<1>3. CASE End(o, "failed") /\ UNCHANGED info
  <2>1. Frame(o)
    BY <1>2, <1>3, SameFrame
  <2>2. Exact(o)'
    BY <1>3 DEF Exact, End, AdapterInv, StoreTypes
  <2> QED BY <1>1, <1>3, <2>1, <2>2, EndKeeps
<1>4. CASE /\ bytes # None /\ Learn(o, "body", bytes)
           /\ IF call[o].kind = "get" THEN End(o, "ok") ELSE Goto(o, "sidecar")
  <2>1. bytes \in Types \cap (Writes \cup {None})
    BY <1>1, ReadFacts DEF AdapterInv, StoreTypes, Types
  <2>2. /\ Frame(o) /\ info'[o].body = bytes /\ info'[o].size = info[o].size
        /\ info'[o].type = info[o].type
    BY <1>2, <1>4, <2>1, LearnFrame
  <2>3. expect[o] # Unsettled =>
          /\ info[o].size = expect[o][1] /\ info[o].size # None
          /\ info[o].type = expect[o][2] /\ bytes = expect[o][1]
          /\ Content(ReadKey(o)) = expect[o]
    BY <1>1, ReadFacts DEF AdapterInv, Found, Content
  <2> HIDE DEF bytes
  <2>4. CASE call[o].kind = "get" /\ End(o, "ok")
    <3>1. answer'[o] = "ok"
      BY <2>4 DEF End, AdapterInv, StoreTypes
    <3>2. Exact(o)'
      BY <1>2, <2>2, <2>3, <2>4, <3>1 DEF Exact, Content, Absent
    <3>3. ~alone[o]
      BY <2>4 DEF AdapterInv, Alone, Writing, Updates
    <3> QED BY <1>1, <2>2, <2>4, <3>2, <3>3, EndKeeps
  <2>5. CASE call[o].kind = "copy" /\ Goto(o, "sidecar")
    <3>1. pc'[o] = "sidecar" /\ alone' = alone /\ answer' = answer
      BY <2>5 DEF Goto, AdapterInv, StoreTypes
    <3>2. Sensible(o)'
      BY <1>1, <1>2, <2>5, <3>1
         DEF Sensible, AdapterInv, ReadLabels, WriteLabels, DeleteLabels
    <3>3. Halfway(o)'
      BY <3>1 DEF Halfway
    <3>4. Found(o)'
      BY <1>2, <2>2, <2>3, <3>1 DEF Found
    <3> QED BY <1>1, <2>2, <2>5, <3>2, <3>3, <3>4, GotoKeeps DEF RunPc
  <2> QED BY <1>1, <1>4, <2>4, <2>5
<1> QED BY <1>3, <1>4 DEF ReadBody

-----------------------------------------------------------------------------
(***************************************************************************)
(* Writes of the file adapters                                             *)
(***************************************************************************)
\* What a put or copy that has read its source is about to write.
LEMMA WrittenFacts ==
  ASSUME AdapterInv, NEW o \in Ops, pc[o] \in {"sidecar", "object", "blob_upload"}
  PROVE  /\ InFlight(o) /\ call[o].kind \in {"put", "copy"}
         /\ call[o].key \in Keys /\ Writing(o, call[o].key)
         /\ Written(o)[1] \in Writes \cup {None} /\ Written(o)[2] \in Types
         /\ Result(o) # Unsettled =>
              /\ Written(o)[2] = Result(o)[2] /\ Written(o)[2] # None
              /\ pc[o] = "object" /\ Written(o)[1] # None => Written(o)[1] = Result(o)[1]
              /\ pc[o] = "blob_upload" =>
                   Written(o)[1] = Result(o)[1] /\ Written(o)[1] # None
              /\ Result(o) = <<Result(o)[1], Result(o)[2]>>
<1>1. /\ InFlight(o) /\ call[o].kind \in {"put", "copy"} /\ call[o].key \in Keys
      /\ Writing(o, call[o].key)
  BY DEF InFlight, RunPc, AdapterInv, Sensible, WriteLabels, Writing, Updates
<1>2. info[o] \in Infos
  BY DEF AdapterInv, StoreTypes
<1>3. CASE call[o].kind = "put"
  BY <1>1, <1>3, ValuesAssumption DEF Written, Result, Writes, Types
<1>4. CASE call[o].kind = "copy"
  <2>1. Written(o) = <<info[o].body, info[o].type>> /\ Result(o) = expect[o]
    BY <1>4 DEF Written, Result
  <2>2. expect[o] # Unsettled =>
          /\ expect[o] = <<object[ReadKey(o)], sidecar[ReadKey(o)]>>
          /\ object[ReadKey(o)] = None <=> sidecar[ReadKey(o)] = None
    BY <1>1, <1>4, ReadFacts DEF Content, Whole, Reads
  <2>3. expect[o] # Unsettled =>
          /\ info[o].size = expect[o][1] /\ info[o].size # None
          /\ info[o].type = expect[o][2]
          /\ pc[o] = "object" => info[o].body \in {None, expect[o][1]}
          /\ pc[o] = "blob_upload" => info[o].body = expect[o][1]
    BY <1>4 DEF AdapterInv, Found, Reads
  <2> QED BY <1>1, <1>2, <2>1, <2>2, <2>3 DEF Infos
<1> QED BY <1>1, <1>3, <1>4

\* The sidecar of a write that is alone is the one its result has.
LEMMA WriteSidecarKeeps ==
  ASSUME AdapterInv, NEW o \in Ops, WriteSidecar(o)
  PROVE  AdapterInv'
<1>1. /\ pc[o] = "sidecar" /\ UNCHANGED <<provider, object, call, info, expect>>
      /\ sidecar' = [sidecar EXCEPT ![call[o].key] = Written(o)[2]]
      /\ Goto(o, "object")
  BY DEF WriteSidecar, At
<1>2. Frame(o) /\ sidecar'[call[o].key] = Written(o)[2]
  BY <1>1, WrittenFacts DEF Frame, AdapterInv, StoreTypes
<1>3. pc'[o] = "object" /\ alone' = alone /\ answer' = answer
  BY <1>1 DEF Goto, AdapterInv, StoreTypes
<1>4. Sensible(o)'
  BY <1>1, <1>3, WrittenFacts
     DEF Sensible, AdapterInv, ReadLabels, WriteLabels, DeleteLabels
<1>5. Halfway(o)'
  BY <1>1, <1>2, <1>3, WrittenFacts DEF Halfway, Result
<1>6. Found(o)'
  BY <1>1, <1>3 DEF AdapterInv, Found
<1> QED BY <1>1, <1>2, <1>4, <1>5, <1>6, WrittenFacts, GotoKeeps DEF RunPc

\* The object of a write that is alone meets its own sidecar.
LEMMA RenameObjectKeeps ==
  ASSUME AdapterInv, NEW o \in Ops, RenameObject(o)
  PROVE  AdapterInv'
<1>1. /\ pc[o] = "object" /\ UNCHANGED <<provider, sidecar, call, info, expect>>
      /\ object' = [object EXCEPT ![call[o].key] = Written(o)[1]]
      /\ Written(o)[1] # None /\ Goto(o, "put_stat")
  BY DEF RenameObject, At, SetObject
<1>2. Frame(o) /\ object'[call[o].key] = Written(o)[1]
  BY <1>1, WrittenFacts DEF Frame, AdapterInv, StoreTypes
<1>3. pc'[o] = "put_stat" /\ alone' = alone /\ answer' = answer
  BY <1>1 DEF Goto, AdapterInv, StoreTypes
<1>4. Sensible(o)'
  BY <1>1, <1>3, WrittenFacts
     DEF Sensible, AdapterInv, ReadLabels, WriteLabels, DeleteLabels
<1>5. Halfway(o)'
  <2>1. alone[o] /\ Result(o) # Unsettled =>
          /\ sidecar[call[o].key] = Result(o)[2] /\ Written(o)[1] = Result(o)[1]
          /\ Result(o)[2] # None /\ Result(o) = <<Result(o)[1], Result(o)[2]>>
    BY <1>1, WrittenFacts DEF AdapterInv, Halfway
  <2> QED BY <1>1, <1>2, <1>3, <2>1 DEF Halfway, Result, Content, Whole
<1>6. Found(o)'
  BY <1>1, <1>3 DEF AdapterInv, Found, Absent
<1> QED BY <1>1, <1>2, <1>4, <1>5, <1>6, WrittenFacts, GotoKeeps DEF RunPc

\* The stat at the end of a put changes nothing.
LEMMA PutStatKeeps ==
  ASSUME AdapterInv, NEW o \in Ops, PutStat(o)
  PROVE  AdapterInv'
<1>1. InFlight(o) /\ pc[o] = "put_stat" /\ call[o].kind \in {"put", "copy"}
  BY DEF PutStat, At, InFlight, RunPc, AdapterInv, Sensible, WriteLabels
<1>2. UNCHANGED <<provider, files, call, info, expect>>
  BY DEF PutStat
<1>3. PICK a \in {"ok", "failed"} : End(o, a)
  BY DEF PutStat
<1>4. Frame(o)
  BY <1>2, SameFrame
<1>5. Exact(o)'
  <2>1. answer'[o] \in {"ok", "failed"}
    BY <1>3 DEF End, AdapterInv, StoreTypes
  <2>2. expect[o] # Unsettled => expect[o] # Absent
    BY <1>1 DEF AdapterInv, Found, Expecting
  <2> QED BY <1>1, <1>2, <2>1, <2>2 DEF Exact
<1>6. alone[o] /\ Result(o) # Unsettled =>
        Content(call[o].key)' = Result(o) /\ Whole(call[o].key)'
  BY <1>1, <1>2 DEF AdapterInv, Halfway, Content, Whole, files
<1> QED BY <1>1, <1>3, <1>4, <1>5, <1>6, EndKeeps

\* A delete, which is not a read, expects nothing.
LEMMA DeleteFacts ==
  ASSUME AdapterInv, NEW o \in Ops, pc[o] \in DeleteLabels
  PROVE  /\ InFlight(o) /\ call[o].kind = "delete" /\ call[o].key \in Keys
         /\ Writing(o, call[o].key) /\ Result(o) = Absent /\ expect[o] = Unsettled
BY DEF AdapterInv, Sensible, InFlight, RunPc, DeleteLabels, Writing, Updates,
       Result, Expecting, Reads

\* A delete removes the object first,
LEMMA RmObjectKeeps ==
  ASSUME AdapterInv, NEW o \in Ops, RmObject(o)
  PROVE  AdapterInv'
<1>1. /\ pc[o] = "rm_object" /\ UNCHANGED <<provider, sidecar, call, info, expect>>
      /\ object' = [object EXCEPT ![call[o].key] = None] /\ Goto(o, "rm_sidecar")
  BY DEF RmObject, At, SetObject
<1>2. pc[o] \in DeleteLabels
  BY <1>1 DEF DeleteLabels
<1>3. Frame(o) /\ object'[call[o].key] = None
  BY <1>1, <1>2, DeleteFacts DEF Frame, AdapterInv, StoreTypes
<1>4. pc'[o] = "rm_sidecar" /\ alone' = alone /\ answer' = answer
  BY <1>1 DEF Goto, AdapterInv, StoreTypes
<1>5. Sensible(o)'
  BY <1>1, <1>2, <1>4, DeleteFacts
     DEF Sensible, AdapterInv, ReadLabels, WriteLabels, DeleteLabels
<1>6. Halfway(o)' /\ Found(o)'
  BY <1>1, <1>2, <1>3, <1>4, DeleteFacts DEF Halfway, Found, Reads
<1> QED BY <1>1, <1>2, <1>3, <1>5, <1>6, DeleteFacts, GotoKeeps DEF RunPc

\* and then the sidecar, which leaves neither.
LEMMA RmSidecarKeeps ==
  ASSUME AdapterInv, NEW o \in Ops, RmSidecar(o)
  PROVE  AdapterInv'
<1>1. /\ pc[o] = "rm_sidecar" /\ UNCHANGED <<provider, object, call, info, expect>>
      /\ sidecar' = [sidecar EXCEPT ![call[o].key] = None] /\ End(o, "ok")
  BY DEF RmSidecar, At
<1>2. pc[o] \in DeleteLabels
  BY <1>1 DEF DeleteLabels
<1>3. Frame(o) /\ sidecar'[call[o].key] = None
  BY <1>1, <1>2, DeleteFacts DEF Frame, AdapterInv, StoreTypes, Types
<1>4. Exact(o)'
  BY <1>1, <1>2, DeleteFacts DEF Exact
<1>5. alone[o] /\ Result(o) # Unsettled =>
        Content(call[o].key)' = Result(o) /\ Whole(call[o].key)'
  <2>1. alone[o] /\ Result(o) # Unsettled => object[call[o].key] = None
    BY <1>1 DEF AdapterInv, Halfway
  <2> QED BY <1>1, <1>2, <1>3, <2>1, DeleteFacts DEF Content, Whole, Absent
<1> QED BY <1>1, <1>2, <1>3, <1>4, <1>5, DeleteFacts, EndKeeps

-----------------------------------------------------------------------------
(***************************************************************************)
(* s3 and azure                                                            *)
(***************************************************************************)
LEMMA BlobReadKeeps ==
  ASSUME AdapterInv, NEW o \in Ops, BlobRead(o)
  PROVE  AdapterInv'
<1> DEFINE k == ReadKey(o)
           read == [size |-> object[k], type |-> sidecar[k], body |-> object[k]]
<1>1. InFlight(o) /\ pc[o] = "blob_read" /\ call[o].kind \in Reads
  BY DEF BlobRead, InFlight, RunPc, AdapterInv, Sensible, ReadLabels
<1>2. UNCHANGED <<provider, files, call, expect>>
  BY DEF BlobRead
<1>3. /\ k \in Keys
      /\ expect[o] # Unsettled =>
           /\ expect[o] = <<object[k], sidecar[k]>>
           /\ object[k] = None <=> sidecar[k] = None
  BY <1>1, ReadFacts DEF Content, Whole
<1>4. CASE object[k] = None /\ End(o, "not_found") /\ UNCHANGED info
  <2>1. Frame(o)
    BY <1>2, <1>4, SameFrame
  <2>2. Exact(o)'
    BY <1>2, <1>3, <1>4 DEF Exact, End, Absent, AdapterInv, StoreTypes
  <2> QED BY <1>1, <1>4, <2>1, <2>2, EndKeeps
<1>5. CASE /\ object[k] # None /\ info' = [info EXCEPT ![o] = read]
           /\ IF call[o].kind = "copy" THEN Goto(o, "blob_upload") ELSE End(o, "ok")
  <2>1. read \in Infos
    BY <1>3 DEF AdapterInv, StoreTypes, Infos
  <2>2. /\ info'[o].size = object[k] /\ info'[o].type = sidecar[k]
        /\ info'[o].body = object[k]
    BY <1>5 DEF AdapterInv, StoreTypes
  <2>3. Frame(o)
    <3> HIDE DEF read
    <3> QED BY <1>2, <1>5, <2>1 DEF Frame, AdapterInv, StoreTypes, files
  <2> HIDE DEF read, k
  <2>4. CASE call[o].kind = "copy" /\ Goto(o, "blob_upload")
    <3>1. pc'[o] = "blob_upload" /\ alone' = alone /\ answer' = answer
      BY <2>4 DEF Goto, AdapterInv, StoreTypes
    <3>2. Sensible(o)'
      BY <1>1, <1>2, <2>4, <3>1
         DEF Sensible, AdapterInv, ReadLabels, WriteLabels, DeleteLabels
    <3>3. Halfway(o)'
      BY <3>1 DEF Halfway
    <3>4. Found(o)'
      BY <1>2, <1>3, <1>5, <2>2, <3>1 DEF Found
    <3> QED BY <1>1, <2>3, <2>4, <3>2, <3>3, <3>4, GotoKeeps DEF RunPc
  <2>5. CASE call[o].kind # "copy" /\ End(o, "ok")
    <3>1. answer'[o] = "ok"
      BY <2>5 DEF End, AdapterInv, StoreTypes
    <3>2. Exact(o)'
      BY <1>2, <1>3, <1>5, <2>2, <3>1 DEF Exact, Absent
    <3>3. ~alone[o]
      BY <1>1, <2>5 DEF AdapterInv, Alone, Writing, Updates, Reads
    <3> QED BY <1>1, <2>3, <2>5, <3>2, <3>3, EndKeeps
  <2> QED BY <1>5, <2>4, <2>5
<1> QED BY <1>4, <1>5 DEF BlobRead

\* A service stores what is sent in one call.
LEMMA BlobUploadKeeps ==
  ASSUME AdapterInv, NEW o \in Ops, BlobUpload(o)
  PROVE  AdapterInv'
<1>1. /\ pc[o] = "blob_upload" /\ UNCHANGED <<provider, call, info, expect>>
      /\ object' = [object EXCEPT ![call[o].key] = Written(o)[1]]
      /\ sidecar' = [sidecar EXCEPT ![call[o].key] = Written(o)[2]]
      /\ Goto(o, "put_stat")
  BY DEF BlobUpload, SetBlob, SetObject
<1>2. /\ Frame(o) /\ object'[call[o].key] = Written(o)[1]
      /\ sidecar'[call[o].key] = Written(o)[2]
  BY <1>1, WrittenFacts DEF Frame, AdapterInv, StoreTypes
<1>3. pc'[o] = "put_stat" /\ alone' = alone /\ answer' = answer
  BY <1>1 DEF Goto, AdapterInv, StoreTypes
<1>4. Sensible(o)'
  BY <1>1, <1>3, WrittenFacts
     DEF Sensible, AdapterInv, ReadLabels, WriteLabels, DeleteLabels
<1>5. Halfway(o)'
  <2>1. Result(o) # Unsettled =>
          /\ Written(o)[1] = Result(o)[1] /\ Written(o)[2] = Result(o)[2]
          /\ Written(o)[1] # None /\ Written(o)[2] # None
          /\ Result(o) = <<Result(o)[1], Result(o)[2]>>
    BY <1>1, WrittenFacts
  <2> QED BY <1>1, <1>2, <1>3, <2>1 DEF Halfway, Result, Content, Whole
<1>6. Found(o)'
  BY <1>1, <1>3 DEF AdapterInv, Found, Absent
<1> QED BY <1>1, <1>2, <1>4, <1>5, <1>6, WrittenFacts, GotoKeeps DEF RunPc

\* A copy inside the service stores what its source holds.
LEMMA BlobCopyKeeps ==
  ASSUME AdapterInv, NEW o \in Ops, BlobCopy(o)
  PROVE  AdapterInv'
<1> DEFINE k == call[o].key
           from == call[o].from
<1>1. /\ InFlight(o) /\ pc[o] = "blob_copy" /\ call[o].kind = "copy"
      /\ UNCHANGED <<provider, call, info, expect>>
  BY DEF BlobCopy, InFlight, RunPc, AdapterInv, Sensible
<1>2. /\ k \in Keys /\ from \in Keys \ {k} /\ Writing(o, k) /\ Result(o) = expect[o]
      /\ call[o].kind \in Reads /\ ReadKey(o) = from
  BY <1>1 DEF AdapterInv, Sensible, Writing, Updates, Reads, Result, ReadKey
<1>3. expect[o] # Unsettled =>
        /\ expect[o] = <<object[from], sidecar[from]>>
        /\ object[from] = None <=> sidecar[from] = None
  BY <1>1, <1>2, ReadFacts DEF Content, Whole
<1>4. CASE object[from] = None /\ End(o, "not_found") /\ UNCHANGED files
  <2>1. Frame(o)
    BY <1>1, <1>4, SameFrame
  <2>2. Exact(o)'
    BY <1>1, <1>3, <1>4 DEF Exact, End, Absent, AdapterInv, StoreTypes
  <2> QED BY <1>1, <1>4, <2>1, <2>2, EndKeeps
<1>5. CASE /\ object[from] # None /\ SetBlob(k, <<object[from], sidecar[from]>>)
           /\ Goto(o, "put_stat")
  <2>1. /\ object' = [object EXCEPT ![k] = object[from]]
        /\ sidecar' = [sidecar EXCEPT ![k] = sidecar[from]]
    BY <1>5 DEF SetBlob, SetObject
  <2>2. Frame(o) /\ object'[k] = object[from] /\ sidecar'[k] = sidecar[from]
    BY <1>1, <1>2, <2>1 DEF Frame, AdapterInv, StoreTypes
  <2>3. pc'[o] = "put_stat" /\ alone' = alone /\ answer' = answer
    BY <1>5 DEF Goto, AdapterInv, StoreTypes
  <2>4. Sensible(o)'
    BY <1>1, <2>3 DEF Sensible, AdapterInv, ReadLabels, WriteLabels, DeleteLabels
  <2>5. Halfway(o)'
    BY <1>1, <1>2, <1>3, <1>5, <2>2, <2>3 DEF Halfway, Result, Content, Whole
  <2>6. Found(o)'
    BY <1>1, <1>3, <1>5, <2>3 DEF Found, Absent
  <2> QED BY <1>1, <1>5, <2>2, <2>4, <2>5, <2>6, GotoKeeps DEF RunPc
<1> QED BY <1>4, <1>5 DEF BlobCopy

\* A service removes an object with its type.
LEMMA BlobDeleteKeeps ==
  ASSUME AdapterInv, NEW o \in Ops, BlobDelete(o)
  PROVE  AdapterInv'
<1>1. /\ pc[o] = "blob_delete" /\ UNCHANGED <<provider, call, info, expect>>
      /\ object' = [object EXCEPT ![call[o].key] = None]
      /\ sidecar' = [sidecar EXCEPT ![call[o].key] = None] /\ End(o, "ok")
  BY DEF BlobDelete, SetBlob, SetObject, Absent
<1>2. pc[o] \in DeleteLabels
  BY <1>1 DEF DeleteLabels
<1>3. Frame(o) /\ object'[call[o].key] = None /\ sidecar'[call[o].key] = None
  BY <1>1, <1>2, DeleteFacts DEF Frame, AdapterInv, StoreTypes, Types
<1>4. Exact(o)'
  BY <1>1, <1>2, DeleteFacts DEF Exact
<1>5. Content(call[o].key)' = Result(o) /\ Whole(call[o].key)'
  BY <1>1, <1>2, <1>3, DeleteFacts DEF Content, Whole, Absent
<1> QED BY <1>1, <1>2, <1>3, <1>4, <1>5, DeleteFacts, EndKeeps

-----------------------------------------------------------------------------
(***************************************************************************)
(* Lists, streams that are opened late, failures and deaths                *)
(***************************************************************************)
LEMMA SameState ==
  ASSUME AdapterInv, UNCHANGED <<provider, files, pc, call, info, answer, history>>
  PROVE  AdapterInv'
<1>1. /\ provider' = provider /\ object' = object /\ sidecar' = sidecar /\ pc' = pc
      /\ call' = call /\ info' = info /\ answer' = answer /\ settled' = settled
      /\ alone' = alone /\ expect' = expect
  BY DEF files, history
<1>2. StoreTypes'
  BY <1>1 DEF AdapterInv, StoreTypes
<1>3. ASSUME NEW k \in Keys PROVE Settled(k)'
  BY <1>1 DEF AdapterInv, Settled, Content, Whole, Writing, InFlight
<1>4. ASSUME NEW o \in Ops
      PROVE  /\ Sensible(o)' /\ Alone(o)' /\ Halfway(o)'
             /\ Expecting(o)' /\ Found(o)' /\ Exact(o)'
  <2>1. Sensible(o)' /\ Found(o)' /\ Exact(o)'
    BY <1>1 DEF AdapterInv, Sensible, Found, Exact
  <2>2. Alone(o)' /\ Expecting(o)'
    BY <1>1 DEF AdapterInv, Alone, Expecting, Writing, InFlight, ReadKey
  <2>3. Halfway(o)'
    BY <1>1 DEF AdapterInv, Halfway, Result, Content, Whole
  <2> QED BY <2>1, <2>2, <2>3
<1> QED BY <1>2, <1>3, <1>4 DEF AdapterInv

\* A list changes nothing but itself.
LEMMA ListKeeps ==
  ASSUME AdapterInv, NEW o \in Ops, Walk(o) \/ ListStat(o) \/ Page(o) \/ BlobPage(o)
  PROVE  AdapterInv'
<1>1. InFlight(o) /\ call[o].kind = "list"
  BY DEF Walk, ListStat, Page, BlobPage, At, InFlight, RunPc, AdapterInv, Sensible
<1>2. UNCHANGED <<provider, files, call, info, expect>>
  BY DEF Walk, ListStat, Page, BlobPage, history
<1>3. Frame(o)
  BY <1>2, SameFrame
<1>4. ASSUME NEW label \in {"walk", "walking", "list_stat", "blob_page"},
             Goto(o, label)
      PROVE  AdapterInv'
  <2>1. pc'[o] = label /\ alone' = alone /\ answer' = answer
    BY <1>4 DEF Goto, AdapterInv, StoreTypes
  <2>2. Sensible(o)'
    BY <1>1, <1>2, <2>1
       DEF Sensible, AdapterInv, ReadLabels, WriteLabels, DeleteLabels, InFlight, RunPc
  <2>3. Halfway(o)' /\ Found(o)'
    BY <1>1, <1>2, <2>1 DEF Halfway, Found, Reads
  <2> QED BY <1>1, <1>3, <1>4, <2>2, <2>3, GotoKeeps DEF RunPc
<1>5. CASE End(o, "ok")
  <2>1. expect[o] = Unsettled /\ ~alone[o]
    BY <1>1 DEF AdapterInv, Expecting, Alone, Writing, Reads, Updates
  <2>2. Exact(o)'
    BY <1>2, <2>1 DEF Exact
  <2> QED BY <1>1, <1>3, <1>5, <2>1, <2>2, EndKeeps
<1>6. CASE UNCHANGED <<pc, answer, history>>
  BY <1>2, <1>6, SameState
<1> QED BY <1>4, <1>5, <1>6 DEF Walk, ListStat, Page, BlobPage, HandOut

\* The operations of a process that dies are under way no more.
LEMMA DeadKeeps ==
  ASSUME AdapterInv, NEW p, Dead(p), UNCHANGED <<provider, files, call, info, expect>>
  PROVE  AdapterInv'
<1>1. \A x \in Ops : /\ pc'[x] = pc[x] \/ pc'[x] = "crashed"
                     /\ alone'[x] => alone[x] /\ pc'[x] # "crashed"
                     /\ pc[x] \in {"idle", "done"} => pc'[x] = pc[x]
  BY DEF Dead, InFlight, RunPc, AdapterInv, StoreTypes
<1>2. StoreTypes'
  BY DEF Dead, AdapterInv, StoreTypes, files
<1>3. \A x \in Ops : InFlight(x)' => InFlight(x) /\ pc'[x] = pc[x]
  BY <1>1 DEF InFlight, RunPc
<1>4. ASSUME NEW k \in Keys PROVE Settled(k)'
  BY <1>3 DEF AdapterInv, Settled, Content, Whole, Writing, Dead, files
<1>5. ASSUME NEW x \in Ops
      PROVE  /\ Sensible(x)' /\ Alone(x)' /\ Halfway(x)'
             /\ Expecting(x)' /\ Found(x)' /\ Exact(x)'
  <2>1. Sensible(x)'
    BY <1>1 DEF AdapterInv, Sensible, Dead, ReadLabels, WriteLabels, DeleteLabels
  <2>2. Alone(x)'
    BY <1>1, <1>3 DEF AdapterInv, Alone, Writing, InFlight
  <2>3. Halfway(x)'
    BY <1>1 DEF AdapterInv, Halfway, Result, Content, Whole, files
  <2>4. Expecting(x)'
    BY <1>3 DEF AdapterInv, Expecting, ReadKey, Dead
  <2>5. Found(x)' /\ Exact(x)'
    BY <1>1 DEF AdapterInv, Found, Exact, Dead
  <2> QED BY <2>1, <2>2, <2>3, <2>4, <2>5
<1> QED BY <1>2, <1>4, <1>5 DEF AdapterInv

\* An operation that fails leaves its key unsettled.
LEMMA FailureKeeps ==
  ASSUME AdapterInv, NEW o \in Ops, InFlight(o), End(o, "failed"),
         UNCHANGED <<provider, files, call, info, expect>>
  PROVE  AdapterInv'
<1>1. Exact(o)'
  BY DEF End, Exact, AdapterInv, StoreTypes
<1> QED BY <1>1, SameFrame, EndKeeps

\* The stream that is opened late reads what the stat found.
LEMMA OpenSourceKeeps ==
  ASSUME AdapterInv, NEW o \in Ops, OpenSource(o)
  PROVE  AdapterInv'
<1> DEFINE bytes == object[call[o].from]
<1>1. /\ InFlight(o) /\ pc[o] \in {"sidecar", "object"} /\ call[o].kind = "copy"
      /\ call[o].kind \in Reads /\ ReadKey(o) = call[o].from
  BY DEF OpenSource, InFlight, RunPc, Reads, ReadKey
<1>2. UNCHANGED <<provider, files, call, expect>>
  BY DEF OpenSource
<1>3. CASE /\ bytes # None /\ Learn(o, "body", bytes)
           /\ UNCHANGED <<pc, answer, settled, alone>>
  <2>1. bytes \in Types \cap (Writes \cup {None})
    BY <1>1, ReadFacts DEF AdapterInv, StoreTypes, Types
  <2>2. /\ Frame(o) /\ info'[o].body = bytes /\ info'[o].size = info[o].size
        /\ info'[o].type = info[o].type
    BY <1>2, <1>3, <2>1, LearnFrame
  <2>3. expect[o] # Unsettled => bytes = expect[o][1]
    BY <1>1, ReadFacts DEF Content
  <2> HIDE DEF bytes
  <2>4. Found(o)'
    BY <1>1, <1>2, <1>3, <2>2, <2>3 DEF AdapterInv, Found
  <2>5. Sensible(o)' /\ Halfway(o)'
    <3>1. Sensible(o) /\ Halfway(o)
      BY DEF AdapterInv
    <3>2. Sensible(o)'
      BY <1>2, <1>3, <3>1 DEF Sensible
    <3>3. Halfway(o)'
      BY <1>2, <1>3, <3>1 DEF Halfway, Result, Content, Whole, files
    <3> QED BY <3>2, <3>3
  <2>6. Continues(o)
    BY <1>1, <1>3, <2>4, <2>5 DEF Continues, InFlight
  <2>7. OwnStep(o) /\ StoreTypes'
    BY <1>3, <2>2 DEF OwnStep, Frame, AdapterInv, StoreTypes
  <2> QED BY <1>1, <2>6, <2>7, OwnKeeps
<1>4. CASE Dead(ProcessOf[o]) /\ UNCHANGED info
  BY <1>2, <1>4, DeadKeeps
<1>5. CASE End(o, "failed") /\ UNCHANGED info
  BY <1>1, <1>2, <1>5, FailureKeeps
<1> QED BY <1>3, <1>4, <1>5 DEF OpenSource

-----------------------------------------------------------------------------
(***************************************************************************)
(* The start of an operation                                               *)
(***************************************************************************)
\* The first label of an operation is one of its kind.
LEMMA FirstLabels ==
  ASSUME NEW kind \in Reads \cup Updates \cup {"list"}
  PROVE  /\ kind = "put" => FirstLabel(kind) \in {"sidecar", "blob_upload"}
         /\ kind \in {"get", "stat"} => FirstLabel(kind) \in {"stat", "blob_read"}
         /\ kind = "copy" => FirstLabel(kind) \in {"stat", "blob_read", "blob_copy"}
         /\ kind = "delete" => FirstLabel(kind) \in {"rm_object", "blob_delete"}
         /\ kind = "list" => FirstLabel(kind) \in {"walk", "blob_page"}
BY DEF FirstLabel, Reads, Updates

\* What o's beginning changes.
BeginsWith(o, c) ==
  LET from == IF c.kind = "copy" THEN c.from ELSE c.key
      change == c.kind \in Updates
  IN /\ pc[o] = "idle" /\ c \in Requests
     /\ call' = [call EXCEPT ![o] = c]
     /\ pc' = [pc EXCEPT ![o] = FirstLabel(c.kind)]
     /\ UNCHANGED <<provider, files, info, answer>>
     /\ DOMAIN settled' = Keys /\ DOMAIN expect' = Ops /\ alone' \in [Ops -> BOOLEAN]
     /\ \A k \in Keys :
          settled'[k] = IF change /\ k = c.key THEN Unsettled ELSE settled[k]
     /\ expect'[o] = IF c.kind \in Reads THEN settled[from] ELSE Unsettled
     /\ \A x \in Ops \ {o} :
          /\ expect'[x] \in {expect[x], Unsettled}
          /\ change /\ InFlight(x) /\ call[x].kind \in Reads /\ ReadKey(x) = c.key =>
               expect'[x] = Unsettled
     /\ alone'[o] => change /\ \A x \in Ops : ~Writing(x, c.key)
     /\ \A x \in Ops \ {o} :
          alone'[x] => alone[x] /\ ~(change /\ Writing(x, c.key))

\* Begin, with the histories it starts spelled out.
LEMMA BeginIs ==
  ASSUME AdapterInv, NEW o \in Ops, Begin(o)
  PROVE  \E c \in Requests : BeginsWith(o, c)
<1>1. PICK c \in Requests :
       /\ call' = [call EXCEPT ![o] = c]
       /\ pc' = [pc EXCEPT ![o] = FirstLabel(c.kind)]
       /\ LET from == IF c.kind = "copy" THEN c.from ELSE c.key
              change == c.kind \in Updates
              disturbed == IF change
                           THEN {x \in Ops : InFlight(x) /\ call[x].kind \in Reads
                                             /\ ReadKey(x) = c.key}
                           ELSE {}
              rivals == IF change THEN Writers(c.key) ELSE {} IN
          /\ expect' = [x \in Ops |->
               IF x = o THEN IF c.kind \in Reads THEN settled[from] ELSE Unsettled
               ELSE IF x \in disturbed THEN Unsettled ELSE expect[x]]
          /\ alone' = [x \in Ops |-> IF x = o THEN change /\ rivals = {}
                                     ELSE alone[x] /\ x \notin rivals]
          /\ settled' = IF change THEN [settled EXCEPT ![c.key] = Unsettled] ELSE settled
  BY DEF Begin
<1>2. pc[o] = "idle" /\ UNCHANGED <<provider, files, info, answer>>
  BY DEF Begin
<1>3. DOMAIN settled = Keys /\ alone \in [Ops -> BOOLEAN]
  BY DEF AdapterInv, StoreTypes
<1>4. Writers(c.key) = {x \in Ops : Writing(x, c.key)}
  BY DEF Writers, Writing
<1>5. BeginsWith(o, c)
  BY <1>1, <1>2, <1>3, <1>4 DEF BeginsWith
<1> QED BY <1>5

\* An operation that begins unsettles what it is going to write.
LEMMA BeginKeeps ==
  ASSUME AdapterInv, NEW o \in Ops, Begin(o)
  PROVE  AdapterInv'
<1>1. PICK c \in Requests : BeginsWith(o, c)
  BY BeginIs
<1> DEFINE change == c.kind \in Updates
<1>2. /\ pc[o] = "idle" /\ UNCHANGED <<provider, files, info, answer>>
      /\ pc'[o] = FirstLabel(c.kind) /\ call'[o] = c
      /\ \A x \in Ops \ {o} : pc'[x] = pc[x] /\ call'[x] = call[x]
  BY <1>1 DEF BeginsWith, AdapterInv, StoreTypes
<1>3. /\ c \in [kind : Reads \cup Updates \cup {"list"}, key : Keys \cup {0},
                from : Keys \cup {0}]
      /\ c.kind # "list" => c.key \in Keys
      /\ c.kind = "copy" => c.from \in Keys \ {c.key}
  BY DEF Requests, Allowed
<1>4. pc'[o] \in RunPc
  BY <1>2, <1>3, FirstLabels DEF Reads, Updates, RunPc
<1>5. StoreTypes'
  BY <1>1, <1>3, <1>4 DEF BeginsWith, AdapterInv, StoreTypes, Kinds, files
<1>6. ~InFlight(o)
  BY <1>2 DEF InFlight, RunPc
<1>7. /\ \A x \in Ops \ {o}, k \in Keys : Writing(x, k)' <=> Writing(x, k)
      /\ \A k \in Keys : Writing(o, k)' <=> change /\ k = c.key
      /\ \A k \in Keys : ~Writing(o, k)
  BY <1>2, <1>4, <1>6 DEF Writing, InFlight
<1>8. ASSUME NEW k \in Keys PROVE Settled(k)'
  <2>1. settled'[k] = IF change /\ k = c.key THEN Unsettled ELSE settled[k]
    BY <1>1 DEF BeginsWith
  <2> QED BY <1>2, <1>7, <2>1 DEF AdapterInv, Settled, Content, Whole, files
<1>9. /\ Sensible(o)' /\ Alone(o)' /\ Halfway(o)'
      /\ Expecting(o)' /\ Found(o)' /\ Exact(o)'
  <2>1. answer'[o] = "none" /\ info'[o].body = None
    BY <1>2 DEF AdapterInv, Sensible, Found
  <2>2. Sensible(o)'
    BY <1>2, <1>3, <2>1, FirstLabels
       DEF Sensible, Reads, Updates, ReadLabels, WriteLabels, DeleteLabels
  <2>3. Alone(o)'
    <3>1. SUFFICES ASSUME alone'[o] PROVE Alone(o)'
      BY DEF Alone
    <3>2. change /\ \A x \in Ops : ~Writing(x, c.key)
      BY <1>1, <3>1 DEF BeginsWith
    <3>3. c.key \in Keys
      BY <1>3, <3>2 DEF Updates
    <3> QED BY <1>2, <1>7, <3>2, <3>3 DEF Alone
  <2>4. Halfway(o)'
    BY <1>2, <1>3, FirstLabels DEF Halfway, Reads, Updates
  <2>5. Expecting(o)'
    <3>1. SUFFICES ASSUME expect'[o] # Unsettled
                   PROVE  c.kind \in Reads /\ settled'[ReadKey(o)'] = expect'[o]
      BY <1>2 DEF Expecting
    <3>2. c.kind \in Reads
          /\ expect'[o] = settled[IF c.kind = "copy" THEN c.from ELSE c.key]
      BY <1>1, <3>1 DEF BeginsWith
    <3>3. ReadKey(o)' = (IF c.kind = "copy" THEN c.from ELSE c.key)
      BY <1>2 DEF ReadKey
    <3>4. ReadKey(o)' \in Keys /\ ~(change /\ ReadKey(o)' = c.key)
      BY <1>3, <3>2, <3>3 DEF Reads, Updates
    <3>5. settled'[ReadKey(o)'] = settled[ReadKey(o)']
      BY <1>1, <3>4 DEF BeginsWith
    <3> QED BY <3>2, <3>3, <3>5
  <2>6. Found(o)'
    BY <1>2, <1>3, <2>1, FirstLabels DEF Found, Reads, Updates
  <2>7. Exact(o)'
    BY <2>1 DEF Exact
  <2> QED BY <2>2, <2>3, <2>4, <2>5, <2>6, <2>7
<1>10. ASSUME NEW x \in Ops \ {o}
       PROVE  /\ Sensible(x)' /\ Alone(x)' /\ Halfway(x)'
              /\ Expecting(x)' /\ Found(x)' /\ Exact(x)'
  <2>1. /\ Sensible(x) /\ Alone(x) /\ Halfway(x)
        /\ Expecting(x) /\ Found(x) /\ Exact(x)
    BY DEF AdapterInv
  <2>2. /\ pc'[x] = pc[x] /\ call'[x] = call[x] /\ info'[x] = info[x]
        /\ answer'[x] = answer[x] /\ expect'[x] \in {expect[x], Unsettled}
        /\ alone'[x] => alone[x] /\ ~(change /\ Writing(x, c.key))
    BY <1>1, <1>2 DEF BeginsWith
  <2>3. Sensible(x)'
    BY <2>1, <2>2 DEF Sensible
  <2>4. Alone(x)'
    <3>1. SUFFICES ASSUME alone'[x] PROVE Alone(x)'
      BY DEF Alone
    <3>2. Writing(x, call[x].key) /\ call[x].key \in Keys
          /\ \A y \in Ops : Writing(y, call[x].key) => y = x
      BY <2>1, <2>2, <3>1 DEF Alone, Writing, Sensible
    <3>3. ~Writing(o, call[x].key)'
      BY <1>7, <2>2, <3>1, <3>2
    <3> QED BY <1>7, <2>2, <3>2, <3>3 DEF Alone
  <2>5. Halfway(x)'
    <3>1. SUFFICES ASSUME alone'[x] PROVE Halfway(x)'
      BY DEF Halfway
    <3>2. alone[x] /\ call[x].kind \in {"put", "delete", "copy"}
      BY <2>1, <2>2, <3>1 DEF Alone, Writing, Updates
    <3>3. Result(x)' \in {Result(x), Unsettled}
      BY <2>2, <3>2 DEF Result
    <3> QED BY <1>2, <2>1, <2>2, <3>2, <3>3 DEF Halfway, Content, Whole, files
  <2>6. Expecting(x)'
    <3>1. SUFFICES ASSUME expect'[x] # Unsettled, InFlight(x)
                   PROVE  settled'[ReadKey(x)] = expect[x]
      BY <2>1, <2>2 DEF Expecting, InFlight, ReadKey
    <3>2. settled[ReadKey(x)] = expect[x] /\ call[x].kind \in Reads
          /\ ReadKey(x) \in Keys
      BY <2>1, <2>2, <3>1 DEF Expecting, ReadKey, Sensible, Reads
    <3>3. ~(change /\ ReadKey(x) = c.key)
      BY <1>1, <3>1, <3>2 DEF BeginsWith
    <3> QED BY <1>1, <3>2, <3>3 DEF BeginsWith
  <2>7. Found(x)' /\ Exact(x)'
    BY <2>1, <2>2 DEF Found, Exact
  <2> QED BY <2>3, <2>4, <2>5, <2>6, <2>7
<1> QED BY <1>5, <1>8, <1>9, <1>10 DEF AdapterInv

-----------------------------------------------------------------------------
\* The invariant holds at the start, when nothing is under way.
LEMMA AdapterInit == Init => AdapterInv
<1> SUFFICES ASSUME Init PROVE AdapterInv
  OBVIOUS
<1>1. PICK K \in SUBSET (Keys \ Fresh) :
        /\ object = [k \in Keys |-> IF k \in K THEN Old ELSE None]
        /\ sidecar = object
        /\ settled = [k \in Keys |-> <<object[k], object[k]>>]
  BY DEF Init
<1>2. StoreTypes
  BY <1>1 DEF Init, StoreTypes, Types, Writes, Kinds, NoCall, Infos, NoInfo
<1>3. ASSUME NEW k \in Keys PROVE Settled(k)
  BY <1>1 DEF Init, Settled, Content, Whole, Writing, InFlight, RunPc
<1>4. ASSUME NEW o \in Ops
      PROVE  /\ Sensible(o) /\ Alone(o) /\ Halfway(o)
             /\ Expecting(o) /\ Found(o) /\ Exact(o)
  BY DEF Init, Sensible, Alone, Halfway, Expecting, Found, Exact, NoCall, NoInfo,
         Reads, Updates, ReadLabels, WriteLabels, DeleteLabels
<1> QED BY <1>2, <1>3, <1>4 DEF AdapterInv

\* Every step keeps it.
LEMMA AdapterStep == AdapterInv /\ [Next]_vars => AdapterInv'
<1> SUFFICES ASSUME AdapterInv, [Next]_vars PROVE AdapterInv'
  OBVIOUS
<1>1. ASSUME NEW o \in Ops, Begin(o) \/ Step(o) PROVE AdapterInv'
  <2>1. CASE IoFails(o)
    BY <2>1, FailureKeeps DEF IoFails
  <2> QED BY <1>1, <2>1, BeginKeeps, StatKeeps, ReadTypeKeeps, ReadBodyKeeps,
             OpenSourceKeeps, WriteSidecarKeeps, RenameObjectKeeps, PutStatKeeps,
             RmObjectKeeps, RmSidecarKeeps, ListKeeps, BlobReadKeeps,
             BlobUploadKeeps, BlobCopyKeeps, BlobDeleteKeeps
          DEF Step
<1>2. ASSUME NEW p, Crash(p) PROVE AdapterInv'
  BY <1>2, DeadKeeps DEF Crash
<1>3. CASE UNCHANGED vars
  BY <1>3, SameState DEF vars
<1> QED BY <1>1, <1>2, <1>3 DEF Next, Rest

(***************************************************************************)
(* What a put, copy or delete leaves when no other write of its key is     *)
(* under way, in every adapter, stays until the next one begins.           *)
(***************************************************************************)
THEOREM LastWriteWins == Spec => []SerialWriteWins
<1>1. AdapterInv => SerialWriteWins
  BY DEF AdapterInv, Settled, Content, SerialWriteWins
<1> QED BY <1>1, AdapterInit, AdapterStep, PTL DEF Spec

(***************************************************************************)
(* A get, stat or copy of a key that is not written meanwhile finds the    *)
(* size, the type and the bytes of its last write, in every adapter.       *)
(***************************************************************************)
THEOREM ExactReads == Spec => []UndisturbedReadIsExact
<1>1. AdapterInv => UndisturbedReadIsExact
  BY DEF AdapterInv, Exact, UndisturbedReadIsExact
<1> QED BY <1>1, AdapterInit, AdapterStep, PTL DEF Spec

-----------------------------------------------------------------------------
(***************************************************************************)
(* Pages                                                                   *)
(***************************************************************************)
\* A set of naturals has a least element.
LEMMA Least ==
  ASSUME NEW T, T \subseteq Nat, T # {}
  PROVE  \E x \in T : \A y \in T : x <= y
<1> DEFINE R == OpToRel(<, Nat)
<1>1. IsWellFoundedOn(R, Nat)
  BY NatLessThanWellFounded
<1>2. \A a, b \in Nat : a < b => <<a, b>> \in R
  BY DEF OpToRel
<1> HIDE DEF R
<1>3. PICK x \in T : \A y \in T : ~(<<y, x>> \in R)
  BY <1>1, WFMin
<1>4. ASSUME NEW y \in T PROVE x <= y
  <2>1. ~(y < x)
    BY <1>2, <1>3, Zenon
  <2>2. x \in Nat /\ y \in Nat
    OBVIOUS
  <2> QED BY <2>1, <2>2, SMT
<1> QED BY <1>4

\* A finite one has a greatest: the one with the fewest above it.
LEMMA Greatest ==
  ASSUME NEW S, S \subseteq Nat, IsFiniteSet(S), S # {}
  PROVE  Max(S) \in S /\ \A y \in S : Max(S) >= y
<1> DEFINE Above(x) == {y \in S : y > x}
           Counts == {n \in Nat : \E x \in S : Cardinality(Above(x)) = n}
<1>1. \A x \in S : IsFiniteSet(Above(x)) /\ Cardinality(Above(x)) \in Nat
  BY FS_Subset, FS_CardinalityType
<1>2. PICK n \in Counts : \A m \in Counts : n <= m
  <2>1. Counts # {} /\ Counts \subseteq Nat
    BY <1>1
  <2> HIDE DEF Counts
  <2> QED BY <2>1, Least
<1>3. PICK x \in S : Cardinality(Above(x)) = n
  BY <1>2
<1>4. ASSUME NEW y \in S, y > x PROVE FALSE
  <2>1. Above(y) \in SUBSET Above(x) /\ Above(y) # Above(x)
    <3>1. y \in Above(x) /\ y \notin Above(y)
      BY <1>4
    <3>2. \A z \in Above(y) : z \in Above(x)
      BY <1>4
    <3> HIDE DEF Above
    <3> QED BY <3>1, <3>2
  <2>2. Cardinality(Above(y)) < Cardinality(Above(x))
    <3> HIDE DEF Above
    <3>1. /\ Cardinality(Above(y)) <= Cardinality(Above(x))
          /\ Cardinality(Above(x)) # Cardinality(Above(y))
      BY <1>1, <2>1, FS_Subset
    <3> QED BY <1>1, <3>1
  <2>3. n <= Cardinality(Above(y))
    BY <1>1, <1>2
  <2> QED BY <1>1, <1>3, <2>2, <2>3
<1>5. \A y \in S : x >= y
  BY <1>4
<1> QED BY <1>5 DEF Max

Ascending(s) == \A i, j \in DOMAIN s : i < j => s[i] < s[j]

\* Every finite set of keys can be put in order; a smallest one that cannot
\* would have an order but for its greatest key.
LEMMA Sorted ==
  ASSUME NEW S \in SUBSET Keys
  PROVE  \E s \in [1..Cardinality(S) -> S] : Range(s) = S /\ Ascending(s)
<1> DEFINE Orders(T) == {s \in [1..Cardinality(T) -> T] : Range(s) = T /\ Ascending(s)}
           Bad == {n \in Nat : \E T \in SUBSET Keys : Cardinality(T) = n /\ Orders(T) = {}}
<1>1. \A T \in SUBSET Keys : IsFiniteSet(T) /\ Cardinality(T) \in Nat /\ T \subseteq Nat
  BY FiniteKeys, KeysAssumption, FS_Subset, FS_CardinalityType
<1>2. SUFFICES Bad = {}
  <2>1. Orders(S) # {}
    BY <1>1, <1>2
  <2> QED BY <2>1
<1>3. SUFFICES ASSUME Bad # {} PROVE FALSE
  OBVIOUS
<1>4. PICK n \in Bad : \A m \in Bad : n <= m
  <2>1. Bad \subseteq Nat
    OBVIOUS
  <2> HIDE DEF Bad
  <2> QED BY <1>3, <2>1, Least
<1>5. PICK T \in SUBSET Keys : Cardinality(T) = n /\ Orders(T) = {}
  BY <1>4
<1>6. CASE T = {}
  <2>1. n = 0
    BY <1>5, <1>6, FS_EmptySet
  <2>2. [i \in 1..0 |-> 0] \in Orders(T)
    BY <1>5, <1>6, <2>1 DEF Range, Ascending
  <2> QED BY <1>5, <2>2
<1>7. CASE T # {}
  <2> DEFINE top == Max(T)
             U == T \ {top}
  <2>1. top \in T /\ \A k \in T : top >= k
    BY <1>1, <1>7, Greatest
  <2> HIDE DEF top
  <2>2. Cardinality(U) = n - 1 /\ n - 1 \in Nat /\ U \in SUBSET Keys
    <3>1. Cardinality(U) = n - 1
      BY <1>1, <1>5, <2>1, FS_RemoveElement
    <3> QED BY <1>1, <3>1
  <2>3. n - 1 \notin Bad
    BY <1>4
  <2>4. Orders(U) # {}
    BY <2>2, <2>3
  <2>5. PICK u \in [1..(n - 1) -> U] : Range(u) = U /\ Ascending(u)
    BY <2>2, <2>4
  <2> DEFINE s == [i \in 1..n |-> IF i = n THEN top ELSE u[i]]
  <2>6. s \in [1..n -> T]
    BY <2>1, <2>2, <2>5
  <2>7. Range(s) = T
    <3>1. Range(s) \subseteq T
      BY <2>6 DEF Range
    <3>2. ASSUME NEW k \in T PROVE k \in Range(s)
      <4>1. CASE k = top
        <5>1. n \in 1..n /\ s[n] = k
          BY <2>2, <4>1
        <5> QED BY <5>1 DEF Range
      <4>2. CASE k # top
        <5>1. PICK i \in 1..(n - 1) : u[i] = k
          BY <2>5, <4>2 DEF Range
        <5>2. i \in 1..n /\ s[i] = k
          BY <2>2, <5>1
        <5> QED BY <5>2 DEF Range
      <4> QED BY <4>1, <4>2
    <3> QED BY <3>1, <3>2
  <2>8. Ascending(s)
    <3>1. ASSUME NEW i \in 1..n, NEW j \in 1..n, i < j PROVE s[i] < s[j]
      <4>1. i \in 1..(n - 1) /\ u[i] \in U /\ s[i] = u[i]
        BY <2>2, <2>5, <3>1
      <4>2. CASE j = n
        <5>1. s[j] = top /\ top \in Nat /\ u[i] \in Nat /\ u[i] # top /\ top >= u[i]
          BY <1>1, <2>1, <4>1, <4>2
        <5> QED BY <4>1, <5>1
      <4>3. CASE j # n
        BY <2>2, <2>5, <3>1, <4>1, <4>3 DEF Ascending
      <4> QED BY <4>2, <4>3
    <3> QED BY <3>1 DEF Ascending
  <2> HIDE DEF s
  <2>9. s \in Orders(T)
    BY <1>5, <2>6, <2>7, <2>8
  <2> QED BY <1>5, <2>9
<1> QED BY <1>6, <1>7

\* So a page, sorted, is what it says.
LEMMA SortedPage ==
  ASSUME NEW S \in SUBSET Keys
  PROVE  InOrder(S) \in Seq(Keys) /\ Range(InOrder(S)) = S /\ Ascending(InOrder(S))
<1>1. \E s \in [1..Cardinality(S) -> S] :
        Range(s) = S /\ \A i, j \in DOMAIN s : i < j => s[i] < s[j]
  BY Sorted DEF Ascending
<1>2. /\ InOrder(S) \in [1..Cardinality(S) -> S]
      /\ Range(InOrder(S)) = S /\ Ascending(InOrder(S))
  BY <1>1, Zenon DEF InOrder, Ascending
<1>3. Cardinality(S) \in Nat
  BY FiniteKeys, FS_Subset, FS_CardinalityType
<1>4. InOrder(S) \in Seq(S)
  BY <1>2, <1>3
<1> QED BY <1>2, <1>4, SeqMonotonic

\* A page is the first keys after the cursor, all of them when there is no
\* next one, and at least one when there is.
LEMMA PageIs ==
  ASSUME NEW keys \in SUBSET Keys, NEW cursor \in Nat
  PROVE  /\ PageOf(keys, cursor) \subseteq {k \in keys : k > cursor}
         /\ \A k \in PageOf(keys, cursor), x \in keys :
              cursor < x /\ x < k => x \in PageOf(keys, cursor)
         /\ ~MoreAfter(keys, cursor) =>
              PageOf(keys, cursor) = {k \in keys : k > cursor}
         /\ MoreAfter(keys, cursor) => PageOf(keys, cursor) # {}
<1> DEFINE rest == {k \in keys : k > cursor}
           Before(k) == {x \in rest : x < k}
<1>1. Keys \subseteq Nat /\ rest \subseteq Nat /\ IsFiniteSet(rest) /\ Cardinality(rest) \in Nat
  BY FiniteKeys, KeysAssumption, FS_Subset, FS_CardinalityType
<1>2. \A k \in Nat : IsFiniteSet(Before(k)) /\ Cardinality(Before(k)) \in Nat
  BY <1>1, FS_Subset, FS_CardinalityType
<1>3. /\ PageOf(keys, cursor) = {k \in rest : Cardinality(Before(k)) < Limit}
      /\ MoreAfter(keys, cursor) <=> Cardinality(rest) > Limit
  BY Zenon DEF PageOf, MoreAfter
<1>4. Limit \in Nat \ {0}
  BY LimitAssumption
<1>5. ASSUME NEW k \in PageOf(keys, cursor), NEW x \in keys, cursor < x, x < k
      PROVE  x \in PageOf(keys, cursor)
  <2>1. x \in rest /\ k \in rest /\ Cardinality(Before(k)) < Limit
    BY <1>3, <1>5
  <2>2. Before(x) \in SUBSET Before(k)
    BY <1>1, <1>5, <2>1
  <2>3. Cardinality(Before(x)) <= Cardinality(Before(k))
    BY <1>1, <1>2, <2>1, <2>2, FS_Subset
  <2>4. Cardinality(Before(x)) < Limit
    BY <1>1, <1>2, <1>4, <2>1, <2>3
  <2> QED BY <1>3, <2>1, <2>4
<1>6. ASSUME ~MoreAfter(keys, cursor) PROVE PageOf(keys, cursor) = rest
  <2>1. ASSUME NEW k \in rest PROVE Cardinality(Before(k)) < Limit
    <3>1. Before(k) \in SUBSET rest /\ Before(k) # rest
      BY <1>1
    <3>2. /\ Cardinality(Before(k)) <= Cardinality(rest)
          /\ Cardinality(rest) # Cardinality(Before(k))
      <4> HIDE DEF rest, Before
      <4> QED BY <1>1, <3>1, FS_Subset
    <3>3. Cardinality(rest) <= Limit
      BY <1>1, <1>3, <1>4, <1>6
    <3> QED BY <1>1, <1>2, <1>4, <3>2, <3>3
  <2> QED BY <1>3, <2>1
<1>7. ASSUME MoreAfter(keys, cursor) PROVE PageOf(keys, cursor) # {}
  <2>1. rest # {}
    BY <1>1, <1>3, <1>4, <1>7, FS_EmptySet
  <2>2. PICK k \in rest : \A x \in rest : k <= x
    BY <1>1, <2>1, Least
  <2>3. Before(k) = {}
    BY <1>1, <2>2
  <2>4. Cardinality(Before(k)) = 0
    BY <2>3, FS_EmptySet
  <2> QED BY <1>3, <1>4, <2>4
<1> QED BY <1>3, <1>5, <1>6, <1>7
-----------------------------------------------------------------------------
(***************************************************************************)
(* Lists                                                                   *)
(***************************************************************************)
Listings == [todo : SUBSET Keys, found : SUBSET Keys, there : SUBSET Keys,
             cursor : Keys \cup {0}, pages : Seq(Keys), steady : SUBSET Keys,
             ever : SUBSET Keys]

\* A list under way has handed out, in order, the keys up to its cursor that
\* had an object all along, and has the others ahead of it.
UnderWay(o) ==
  LET l == listing[o] IN
  /\ l.steady \subseteq Present /\ Present \subseteq l.ever
  /\ \A k \in Range(l.pages) : k <= l.cursor
  /\ \A k \in l.steady : k <= l.cursor => k \in Range(l.pages)
  /\ l.found \cup l.there \subseteq l.ever
  /\ pc[o] \in {"walk", "walking", "list_stat"} =>
       l.steady \subseteq l.todo \cup l.found \cup l.there
  /\ pc[o] = "list_stat" => l.todo = {}

Listed(o) ==
  /\ pc[o] = "idle" => listing[o] = NoListing
  /\ call[o].kind = "list" =>
       /\ Ascending(listing[o].pages) /\ Range(listing[o].pages) \subseteq listing[o].ever
       /\ InFlight(o) => UnderWay(o)
       /\ answer[o] = "ok" => listing[o].steady \subseteq Range(listing[o].pages)

ListInv == listing \in [Ops -> Listings] /\ \A o \in Ops : Listed(o)

\* Steps of other operations, and those that end a list without success.
Aside(x) ==
  /\ call'[x] = call[x]
  /\ \/ pc'[x] = pc[x] /\ answer'[x] = answer[x]
     \/ call[x].kind # "list" /\ pc'[x] # "idle"
     \/ pc'[x] \in {"done", "crashed"} /\ answer'[x] \in {answer[x], "failed"}

LEMMA AsideListed ==
  ASSUME AdapterInv, ListInv, object' = object, NEW x \in Ops, Aside(x),
         listing'[x] = listing[x]
  PROVE  Listed(x)'
<1>1. Listed(x)
  BY DEF ListInv
<1>2. Present' = Present
  BY DEF Present
<1>3. CASE pc'[x] = pc[x] /\ answer'[x] = answer[x]
  BY <1>1, <1>2, <1>3 DEF Listed, UnderWay, InFlight, Aside
<1>4. CASE call[x].kind # "list" /\ pc'[x] # "idle"
  BY <1>4 DEF Listed, Aside
<1>5. CASE pc'[x] \in {"done", "crashed"} /\ answer'[x] \in {answer[x], "failed"}
  BY <1>1, <1>5 DEF Listed, Aside, InFlight, RunPc
<1> QED BY <1>3, <1>4, <1>5 DEF Aside

\* Steps that store nothing and list nothing.
LEMMA AsideKeeps ==
  ASSUME AdapterInv, ListInv, object' = object, listing' = listing, \A x \in Ops : Aside(x)
  PROVE  ListInv'
BY AsideListed DEF ListInv

\* A key that appears or goes while a list is under way.
LEMMA SetObjectKeeps ==
  ASSUME AdapterInv, ListInv, NEW k \in Keys, NEW w, SetObject(k, w), \A x \in Ops : Aside(x),
         \A x \in Ops : call[x].kind = "list" => pc'[x] = pc[x] /\ answer'[x] = answer[x]
  PROVE  ListInv'
<1> DEFINE busy(x) == InFlight(x) /\ call[x].kind = "list"
           gone(x) == [listing[x] EXCEPT !.steady = listing[x].steady \ {k}]
           come(x) == [listing[x] EXCEPT !.ever = listing[x].ever \cup {k}]
<1>1. \A x \in Ops : listing[x] \in Listings
  BY DEF ListInv
<1>2. listing' = [x \in Ops |-> IF ~busy(x) THEN listing[x]
                                ELSE IF w = None THEN gone(x) ELSE come(x)]
  BY Zenon DEF SetObject
<1>3. \A x \in Ops : gone(x) \in Listings /\ come(x) \in Listings
  BY <1>1 DEF Listings
<1>4. listing' \in [Ops -> Listings]
  BY <1>1, <1>2, <1>3
<1>5. Present' = IF w = None THEN Present \ {k} ELSE Present \cup {k}
  BY DEF SetObject, Present, AdapterInv, StoreTypes
<1>6. ASSUME NEW x \in Ops PROVE Listed(x)'
  <2>1. Listed(x) /\ call'[x] = call[x] /\ listing[x] \in Listings
    BY <1>1 DEF ListInv, Aside
  <2>2. CASE ~busy(x)
    <3>1. listing'[x] = listing[x]
      BY <1>2, <2>2
    <3>2. call[x].kind = "list" => pc'[x] = pc[x] /\ answer'[x] = answer[x]
      OBVIOUS
    <3>3. pc'[x] = "idle" => pc[x] = "idle"
      BY <3>2 DEF Aside
    <3> QED BY <2>1, <2>2, <3>1, <3>2, <3>3 DEF Listed, InFlight
  <2>3. CASE busy(x)
    <3>1. pc'[x] = pc[x] /\ answer'[x] = answer[x] /\ answer[x] # "ok" /\ pc[x] # "idle"
      BY <2>3 DEF AdapterInv, Sensible, InFlight, RunPc
    <3>2. UnderWay(x) /\ Ascending(listing[x].pages)
          /\ Range(listing[x].pages) \subseteq listing[x].ever
      BY <2>1, <2>3 DEF Listed
    <3>3. CASE w = None
      <4>1. /\ listing'[x].todo = listing[x].todo /\ listing'[x].found = listing[x].found
            /\ listing'[x].there = listing[x].there /\ listing'[x].cursor = listing[x].cursor
            /\ listing'[x].pages = listing[x].pages /\ listing'[x].ever = listing[x].ever
            /\ listing'[x].steady = listing[x].steady \ {k}
        BY <1>2, <2>1, <2>3, <3>3 DEF Listings
      <4>2. UnderWay(x)'
        BY <1>5, <3>1, <3>2, <3>3, <4>1 DEF UnderWay
      <4> QED BY <3>1, <3>2, <4>1, <4>2 DEF Listed
    <3>4. CASE w # None
      <4>1. /\ listing'[x].todo = listing[x].todo /\ listing'[x].found = listing[x].found
            /\ listing'[x].there = listing[x].there /\ listing'[x].cursor = listing[x].cursor
            /\ listing'[x].pages = listing[x].pages /\ listing'[x].steady = listing[x].steady
            /\ listing'[x].ever = listing[x].ever \cup {k}
        BY <1>2, <2>1, <2>3, <3>4 DEF Listings
      <4>2. UnderWay(x)'
        BY <1>5, <3>1, <3>2, <3>4, <4>1 DEF UnderWay
      <4> QED BY <3>1, <3>2, <4>1, <4>2 DEF Listed
    <3> QED BY <3>3, <3>4
  <2> QED BY <2>2, <2>3
<1> QED BY <1>4, <1>6 DEF ListInv

\* Keys that come after all of a list's, in order, go to its end.
LEMMA Appended ==
  ASSUME NEW s \in Seq(Keys), NEW t \in Seq(Keys), Ascending(s), Ascending(t),
         NEW cursor \in Nat, \A k \in Range(s) : k <= cursor, \A k \in Range(t) : k > cursor
  PROVE  Range(s \o t) = Range(s) \cup Range(t) /\ Ascending(s \o t)
<1>1. /\ s \in [1..Len(s) -> Keys] /\ t \in [1..Len(t) -> Keys]
      /\ Len(s) \in Nat /\ Len(t) \in Nat /\ Keys \subseteq Nat
  BY LenProperties, KeysAssumption
<1> DEFINE n == Len(s)
           m == Len(t)
           st == s \o t
<1>2. /\ DOMAIN st = 1..(n + m)
      /\ \A i \in 1..(n + m) : st[i] = IF i <= n THEN s[i] ELSE t[i - n]
  <2>1. st \in Seq(Keys) /\ Len(st) = n + m
    BY ConcatProperties
  <2>2. DOMAIN st = 1..(n + m)
    BY <2>1, LenProperties
  <2> QED BY <2>2, ConcatProperties
<1> HIDE DEF st
<1>3. \A i \in 1..n : s[i] \in Range(s) /\ s[i] <= cursor /\ s[i] \in Nat
  BY <1>1 DEF Range
<1>4. \A i \in 1..m : t[i] \in Range(t) /\ t[i] > cursor /\ t[i] \in Nat
  BY <1>1 DEF Range
<1>5. ASSUME NEW i \in 1..(n + m), NEW j \in 1..(n + m), i < j PROVE st[i] < st[j]
  <2>1. CASE j <= n
    BY <1>1, <1>2, <1>5, <2>1 DEF Ascending
  <2>2. CASE i <= n /\ j > n
    <3>1. i \in 1..n /\ j - n \in 1..m /\ st[i] = s[i] /\ st[j] = t[j - n]
      BY <1>1, <1>2, <1>5, <2>2
    <3>2. s[i] <= cursor /\ t[j - n] > cursor /\ s[i] \in Nat /\ t[j - n] \in Nat
      BY <1>3, <1>4, <3>1
    <3> QED BY <3>1, <3>2
  <2>3. CASE i > n
    <3>1. /\ i - n \in 1..m /\ j - n \in 1..m /\ i - n < j - n
          /\ st[i] = t[i - n] /\ st[j] = t[j - n]
      BY <1>1, <1>2, <1>5, <2>3
    <3> QED BY <1>1, <3>1 DEF Ascending
  <2> QED BY <1>1, <2>1, <2>2, <2>3
<1>6. \A i \in 1..(n + m) : st[i] \in Range(s) \cup Range(t)
  <2> TAKE i \in 1..(n + m)
  <2>1. i \in 1..n \/ i - n \in 1..m
    BY <1>1
  <2> QED BY <1>1, <1>2, <1>3, <1>4, <2>1
<1>7. Range(s) \subseteq Range(st)
  <2> SUFFICES ASSUME NEW i \in 1..n PROVE s[i] \in Range(st)
    BY <1>1 DEF Range
  <2>1. i \in 1..(n + m) /\ st[i] = s[i]
    BY <1>1, <1>2
  <2> QED BY <1>2, <2>1 DEF Range
<1>8. Range(t) \subseteq Range(st)
  <2> SUFFICES ASSUME NEW i \in 1..m PROVE t[i] \in Range(st)
    BY <1>1 DEF Range
  <2>1. i + n \in 1..(n + m) /\ st[i + n] = t[i]
    BY <1>1, <1>2
  <2> QED BY <1>2, <2>1 DEF Range
<1>9. Range(st) \subseteq Range(s) \cup Range(t)
  BY <1>2, <1>6 DEF Range
<1> QED BY <1>2, <1>5, <1>7, <1>8, <1>9 DEF Ascending, st

\* What the list of o makes of its listing, the others being left alone.
LEMMA OwnList ==
  ASSUME AdapterInv, ListInv, NEW o \in Ops, NEW l \in Listings,
         listing' = [listing EXCEPT ![o] = l], object' = object,
         \A x \in Ops \ {o} : Aside(x), Listed(o)'
  PROVE  ListInv'
<1>1. ASSUME NEW x \in Ops \ {o} PROVE Listed(x)'
  BY AsideListed DEF ListInv
<1> QED BY <1>1 DEF ListInv

\* A list begins with all directories ahead of it.
LEMMA BeginListed ==
  ASSUME AdapterInv, ListInv, NEW o \in Ops, Begin(o)
  PROVE  ListInv'
<1>1. PICK c \in Requests :
       /\ call' = [call EXCEPT ![o] = c]
       /\ pc' = [pc EXCEPT ![o] = FirstLabel(c.kind)]
       /\ listing' = IF c.kind = "list"
                     THEN [listing EXCEPT ![o].todo = Keys, ![o].steady = Present,
                                          ![o].ever = Present]
                     ELSE listing
  BY DEF Begin
<1>2. /\ pc[o] = "idle" /\ object' = object /\ answer' = answer
      /\ StoreTypes /\ listing \in [Ops -> Listings]
  BY DEF Begin, files, AdapterInv, ListInv
<1>3. /\ call'[o] = c /\ pc'[o] = FirstLabel(c.kind)
      /\ \A x \in Ops \ {o} : Aside(x)
  BY <1>1, <1>2 DEF Aside, StoreTypes
<1>4. c.kind \in Reads \cup Updates \cup {"list"}
  BY DEF Requests
<1>5. CASE c.kind = "list"
  <2> DEFINE l == [listing[o] EXCEPT !.todo = Keys, !.steady = Present, !.ever = Present]
  <2>1. Present \subseteq Keys
    BY DEF Present
  <2>2. listing[o] = NoListing /\ answer[o] = "none"
    BY <1>2 DEF ListInv, Listed, AdapterInv, Sensible
  <2>3. /\ l \in Listings /\ l.todo = Keys /\ l.steady = Present /\ l.ever = Present
        /\ l.found = {} /\ l.there = {} /\ l.cursor = 0 /\ l.pages = <<>>
    <3>1. listing[o] \in Listings
      BY <1>2
    <3>2. /\ l \in Listings /\ l.todo = Keys /\ l.steady = Present /\ l.ever = Present
          /\ l.found = listing[o].found /\ l.there = listing[o].there
          /\ l.cursor = listing[o].cursor /\ l.pages = listing[o].pages
      BY <2>1, <3>1 DEF Listings
    <3>3. /\ listing[o].found = {} /\ listing[o].there = {}
          /\ listing[o].cursor = 0 /\ listing[o].pages = <<>>
      BY <2>2 DEF NoListing
    <3> HIDE DEF l
    <3> QED BY <3>2, <3>3
  <2>4. listing' = [listing EXCEPT ![o] = l]
    BY <1>1, <1>2, <1>5, <2>3
  <2> HIDE DEF l
  <2>5. listing'[o] = l /\ Present' = Present
    BY <1>2, <2>4 DEF Present
  <2>6. pc'[o] \in {"walk", "blob_page"} /\ answer'[o] = "none"
    BY <1>2, <1>3, <1>4, <1>5, <2>2, FirstLabels
  <2>7. Range(l.pages) = {} /\ Ascending(l.pages)
    BY <2>3 DEF Range, Ascending
  <2>8. \A k \in Present : ~(k <= 0)
    BY KeysAssumption DEF Present
  <2>9. UnderWay(o)'
    BY <2>1, <2>3, <2>5, <2>6, <2>7, <2>8 DEF UnderWay
  <2>10. Listed(o)'
    BY <2>5, <2>6, <2>7, <2>9 DEF Listed
  <2> QED BY <1>2, <1>3, <2>3, <2>4, <2>10, OwnList
<1>6. CASE c.kind # "list"
  <2>1. listing' = listing /\ pc'[o] # "idle"
    BY <1>1, <1>3, <1>4, <1>6, FirstLabels DEF Reads, Updates
  <2>2. Listed(o)'
    BY <1>3, <1>6, <2>1 DEF Listed
  <2>3. \A x \in Ops \ {o} : Listed(x)'
    BY <1>2, <1>3, <2>1, AsideListed
  <2> QED BY <2>1, <2>2, <2>3 DEF ListInv
<1> QED BY <1>5, <1>6

\* The facts a list starts a step from.
LEMMA ListFacts ==
  ASSUME AdapterInv, ListInv, NEW o \in Ops,
         pc[o] \in {"walk", "walking", "list_stat", "blob_page"}
  PROVE  /\ InFlight(o) /\ call[o].kind = "list" /\ answer[o] = "none"
         /\ UnderWay(o) /\ listing[o] \in Listings
         /\ Ascending(listing[o].pages) /\ Range(listing[o].pages) \subseteq listing[o].ever
BY DEF AdapterInv, Sensible, InFlight, RunPc, ListInv, Listed

\* One directory after the other.
LEMMA WalkListed ==
  ASSUME AdapterInv, ListInv, NEW o \in Ops, Walk(o)
  PROVE  ListInv'
<1>1. PICK k \in listing[o].todo :
        /\ listing' = [listing EXCEPT ![o].todo = @ \ {k},
                                      ![o].found = @ \cup ({k} \cap Present)]
        /\ Goto(o, IF listing[o].todo = {k} THEN "list_stat" ELSE "walking")
  BY DEF Walk
<1>2. /\ pc[o] \in {"walk", "walking"} /\ object' = object /\ call' = call
      /\ StoreTypes /\ listing \in [Ops -> Listings]
  BY DEF Walk, files, AdapterInv, ListInv
<1>3. /\ InFlight(o) /\ call[o].kind = "list" /\ answer[o] = "none"
      /\ UnderWay(o) /\ listing[o] \in Listings
      /\ Ascending(listing[o].pages) /\ Range(listing[o].pages) \subseteq listing[o].ever
  BY <1>2, ListFacts
<1> DEFINE l == [listing[o] EXCEPT !.todo = @ \ {k}, !.found = @ \cup ({k} \cap Present)]
<1>4. /\ l \in Listings /\ l.todo = listing[o].todo \ {k}
      /\ l.found = listing[o].found \cup ({k} \cap Present)
      /\ l.there = listing[o].there /\ l.cursor = listing[o].cursor
      /\ l.pages = listing[o].pages /\ l.steady = listing[o].steady
      /\ l.ever = listing[o].ever
  BY <1>3 DEF Listings, Present
<1>5. listing' = [listing EXCEPT ![o] = l]
  BY <1>1, <1>2, <1>4
<1> HIDE DEF l
<1>6. listing'[o] = l /\ Present' = Present
  BY <1>2, <1>5 DEF Present
<1>7. /\ pc'[o] = IF listing[o].todo = {k} THEN "list_stat" ELSE "walking"
      /\ answer'[o] = "none" /\ \A x \in Ops \ {o} : Aside(x)
  BY <1>1, <1>2, <1>3 DEF Goto, Aside, StoreTypes
<1>8. UnderWay(o)'
  BY <1>2, <1>3, <1>4, <1>6, <1>7 DEF UnderWay
<1>9. Listed(o)'
  BY <1>3, <1>4, <1>6, <1>7, <1>8 DEF Listed
<1> QED BY <1>2, <1>4, <1>5, <1>7, <1>9, OwnList

\* One object after the other.
LEMMA ListStatListed ==
  ASSUME AdapterInv, ListInv, NEW o \in Ops, ListStat(o)
  PROVE  ListInv'
<1> DEFINE k == Min(listing[o].found)
           l == [listing[o] EXCEPT !.found = @ \ {k}, !.there = @ \cup ({k} \cap Present)]
<1>1. /\ pc[o] = "list_stat" /\ listing[o].found # {}
      /\ listing' = [listing EXCEPT ![o].found = @ \ {k},
                                    ![o].there = @ \cup ({k} \cap Present)]
      /\ object' = object /\ call' = call /\ pc' = pc /\ answer' = answer
      /\ StoreTypes /\ listing \in [Ops -> Listings]
  BY DEF ListStat, At, files, AdapterInv, ListInv
<1>2. /\ InFlight(o) /\ call[o].kind = "list" /\ answer[o] = "none"
      /\ UnderWay(o) /\ listing[o] \in Listings
      /\ Ascending(listing[o].pages) /\ Range(listing[o].pages) \subseteq listing[o].ever
  BY <1>1, ListFacts
<1> HIDE DEF k
<1>4. /\ l \in Listings /\ l.found = listing[o].found \ {k}
      /\ l.there = listing[o].there \cup ({k} \cap Present)
      /\ l.todo = listing[o].todo /\ l.cursor = listing[o].cursor
      /\ l.pages = listing[o].pages /\ l.steady = listing[o].steady
      /\ l.ever = listing[o].ever
  BY <1>2 DEF Listings, Present
<1>5. listing' = [listing EXCEPT ![o] = l]
  BY <1>1, <1>4
<1> HIDE DEF l
<1>6. listing'[o] = l /\ Present' = Present
  BY <1>1, <1>5 DEF Present
<1>7. UnderWay(o)'
  BY <1>1, <1>2, <1>4, <1>6 DEF UnderWay
<1>8. Listed(o)'
  BY <1>1, <1>2, <1>4, <1>6, <1>7 DEF Listed
<1>9. \A x \in Ops \ {o} : Aside(x)
  BY <1>1 DEF Aside
<1> QED BY <1>1, <1>4, <1>5, <1>8, <1>9, OwnList

LEMMA CursorIs ==
  ASSUME NEW l \in Listings
  PROVE  l.cursor \in Nat /\ Keys \subseteq Nat
<1>1. l.cursor \in Keys \cup {0}
  BY DEF Listings
<1>2. Keys \subseteq Nat
  BY KeysAssumption
<1>3. CASE l.cursor = 0
  BY <1>2, <1>3
<1>4. CASE l.cursor \in Keys
  BY <1>2, <1>4
<1> QED BY <1>1, <1>3, <1>4

\* A page goes after those before it and takes the cursor to its last key;
\* the last page leaves nothing behind.
LEMMA HandOutListed ==
  ASSUME AdapterInv, ListInv, NEW o \in Ops, pc[o] \in {"list_stat", "blob_page"},
         NEW again \in {"walk", "blob_page"}, NEW keys \in SUBSET Keys,
         HandOut(o, keys, again), UNCHANGED <<provider, files, call, info, expect>>,
         listing[o].steady \subseteq keys, keys \subseteq listing[o].ever
  PROVE  ListInv'
<1> DEFINE page == PageOf(keys, listing[o].cursor)
           more == MoreAfter(keys, listing[o].cursor)
           sorted == InOrder(page)
           l == [listing[o] EXCEPT !.pages = @ \o sorted,
                                   !.cursor = IF more THEN Max(page) ELSE 0,
                                   !.todo = IF more THEN Keys ELSE {},
                                   !.there = {}]
<1>1. /\ listing' = [listing EXCEPT ![o].pages = @ \o sorted,
                                    ![o].cursor = IF more THEN Max(page) ELSE 0,
                                    ![o].todo = IF more THEN Keys ELSE {},
                                    ![o].there = {}]
      /\ IF more THEN Goto(o, again) ELSE End(o, "ok")
  BY Zenon DEF HandOut
<1>2. object' = object /\ call' = call /\ StoreTypes /\ listing \in [Ops -> Listings]
  BY DEF files, AdapterInv, ListInv
<1>3. /\ InFlight(o) /\ call[o].kind = "list" /\ answer[o] = "none"
      /\ UnderWay(o) /\ listing[o] \in Listings
      /\ Ascending(listing[o].pages) /\ Range(listing[o].pages) \subseteq listing[o].ever
  BY ListFacts
<1>4. listing[o].cursor \in Nat /\ Keys \subseteq Nat
  BY <1>3, CursorIs
<1>5. /\ page \subseteq {k \in keys : k > listing[o].cursor}
      /\ \A k \in page, x \in keys : listing[o].cursor < x /\ x < k => x \in page
      /\ ~more => page = {k \in keys : k > listing[o].cursor}
      /\ more => page # {}
  BY <1>4, PageIs
<1> HIDE DEF page, more
<1>6. page \in SUBSET Keys /\ IsFiniteSet(page)
  BY <1>5, FiniteKeys, FS_Subset
<1>7. more => Max(page) \in page /\ \A k \in page : Max(page) >= k
  BY <1>4, <1>5, <1>6, Greatest
<1>8. sorted \in Seq(Keys) /\ Range(sorted) = page /\ Ascending(sorted)
  BY <1>6, SortedPage
<1> HIDE DEF sorted
<1>9. listing[o].pages \in Seq(Keys)
  BY <1>3 DEF Listings
<1>10. /\ l \in Listings /\ l.pages = listing[o].pages \o sorted
       /\ l.cursor = IF more THEN Max(page) ELSE 0
       /\ l.found = listing[o].found /\ l.steady = listing[o].steady
       /\ l.ever = listing[o].ever /\ l.there = {}
  <2>1. listing[o].pages \o sorted \in Seq(Keys)
    BY <1>8, <1>9, ConcatProperties
  <2>2. (IF more THEN Max(page) ELSE 0) \in Keys \cup {0}
    BY <1>6, <1>7
  <2> QED BY <1>3, <2>1, <2>2 DEF Listings
<1>11. more => l.todo = Keys
  BY <1>3 DEF Listings
<1>12. listing' = [listing EXCEPT ![o] = l]
  BY <1>1, <1>2, <1>10
<1> HIDE DEF l
<1>13. listing'[o] = l /\ Present' = Present
  BY <1>2, <1>10, <1>12 DEF Present
<1>14. Range(l.pages) = Range(listing[o].pages) \cup page /\ Ascending(l.pages)
  BY <1>3, <1>4, <1>5, <1>8, <1>9, <1>10, Appended DEF UnderWay
<1>15. Range(l.pages) \subseteq l.ever
  BY <1>3, <1>5, <1>10, <1>14
<1>16. \A x \in Ops \ {o} : Aside(x)
  BY <1>1, <1>2 DEF Goto, End, Aside, StoreTypes
<1>17. CASE more
  <2>1. pc'[o] = again /\ answer'[o] = "none"
    BY <1>1, <1>2, <1>3, <1>17 DEF Goto, StoreTypes
  <2>2. l.cursor \in page /\ l.cursor \in Nat /\ l.cursor > listing[o].cursor
        /\ \A k \in page : k <= l.cursor
    BY <1>4, <1>5, <1>6, <1>7, <1>10, <1>17
  <2>3. \A k \in Range(l.pages) : k <= l.cursor
    <3>1. \A k \in Range(listing[o].pages) : k \in Nat /\ k <= listing[o].cursor
      BY <1>3, <1>4 DEF UnderWay, Listings
    <3> QED BY <1>4, <1>14, <2>2, <3>1
  <2>4. ASSUME NEW k \in l.steady, k <= l.cursor PROVE k \in Range(l.pages)
    <3>1. k \in keys /\ k \in Nat /\ k \in listing[o].steady
      BY <1>4, <1>10
    <3>2. CASE k <= listing[o].cursor
      BY <1>3, <1>14, <3>1, <3>2 DEF UnderWay
    <3>3. CASE k > listing[o].cursor /\ k < l.cursor
      BY <1>4, <1>5, <1>14, <2>2, <3>1, <3>3
    <3>4. CASE k = l.cursor
      BY <1>14, <2>2, <3>4
    <3> QED BY <1>4, <2>2, <2>4, <3>1, <3>2, <3>3, <3>4
  <2>5. UnderWay(o)'
    <3>1. l.steady \subseteq Keys
      BY <1>10 DEF Listings
    <3> QED BY <1>3, <1>10, <1>11, <1>13, <1>17, <2>1, <2>3, <2>4, <3>1 DEF UnderWay
  <2>6. Listed(o)'
    BY <1>13, <1>14, <1>15, <2>1, <2>5 DEF Listed
  <2> QED BY <1>2, <1>10, <1>12, <1>16, <2>6, OwnList
<1>18. CASE ~more
  <2>1. pc'[o] = "done"
    BY <1>1, <1>2, <1>18 DEF End, StoreTypes
  <2>2. ASSUME NEW k \in l.steady PROVE k \in Range(l.pages)
    <3>1. k \in keys /\ k \in Nat /\ k \in listing[o].steady
      BY <1>4, <1>10
    <3>2. CASE k <= listing[o].cursor
      BY <1>3, <1>14, <3>1, <3>2 DEF UnderWay
    <3>3. CASE k > listing[o].cursor
      BY <1>5, <1>14, <1>18, <3>1, <3>3
    <3> QED BY <1>4, <3>1, <3>2, <3>3
  <2>3. Listed(o)'
    BY <1>13, <1>14, <1>15, <2>1, <2>2 DEF Listed, InFlight, RunPc
  <2> QED BY <1>2, <1>10, <1>12, <1>16, <2>3, OwnList
<1> QED BY <1>17, <1>18

\* A page of what was found there, or of what the service holds.
LEMMA PagesListed ==
  ASSUME AdapterInv, ListInv, NEW o \in Ops, Page(o) \/ BlobPage(o)
  PROVE  ListInv'
<1>1. CASE Page(o)
  <2>1. /\ pc[o] = "list_stat" /\ listing[o].found = {}
        /\ HandOut(o, listing[o].there, "walk")
        /\ UNCHANGED <<provider, files, call, info, expect>>
    BY <1>1 DEF Page
  <2>2. UnderWay(o) /\ listing[o] \in Listings
    BY <2>1, ListFacts
  <2>3. listing[o].there \in SUBSET Keys
    BY <2>2 DEF Listings
  <2>4. listing[o].steady \subseteq listing[o].there
        /\ listing[o].there \subseteq listing[o].ever
    BY <2>1, <2>2 DEF UnderWay
  <2> QED BY <2>1, <2>3, <2>4, HandOutListed
<1>2. CASE BlobPage(o)
  <2>1. /\ pc[o] = "blob_page" /\ HandOut(o, Present, "blob_page")
        /\ UNCHANGED <<provider, files, call, info, expect>>
    BY <1>2 DEF BlobPage
  <2>2. UnderWay(o)
    BY <2>1, ListFacts
  <2>3. Present \in SUBSET Keys
    BY DEF Present
  <2> QED BY <2>1, <2>2, <2>3, HandOutListed DEF UnderWay
<1> QED BY <1>1, <1>2

\* The steps of an operation that is no list, seen from the lists.
LEMMA AsideSteps ==
  ASSUME AdapterInv, NEW o \in Ops, call' = call, InFlight(o),
         \/ \E label \in RunPc : Goto(o, label)
         \/ \E a : End(o, a)
         \/ UNCHANGED <<pc, answer, settled, alone>>,
         call[o].kind # "list"
  PROVE  \A x \in Ops : /\ Aside(x)
                        /\ call[x].kind = "list" => pc'[x] = pc[x] /\ answer'[x] = answer[x]
<1>1. StoreTypes
  BY DEF AdapterInv
<1>2. \A x \in Ops \ {o} : pc'[x] = pc[x] /\ answer'[x] = answer[x]
  BY <1>1 DEF Goto, End, StoreTypes
<1>3. pc'[o] # "idle"
  BY <1>1 DEF Goto, End, StoreTypes, InFlight, RunPc
<1> QED BY <1>2, <1>3 DEF Aside

LEMMA DeadAside ==
  ASSUME AdapterInv, NEW p, Dead(p), call' = call, NEW x \in Ops
  PROVE  Aside(x)
BY DEF Dead, Aside, AdapterInv, StoreTypes

\* A step that stores nothing is no news to a list.
LEMMA ReadsListed ==
  ASSUME AdapterInv, ListInv, NEW o \in Ops,
         \/ Stat(o) \/ ReadType(o) \/ ReadBody(o) \/ OpenSource(o) \/ BlobRead(o)
         \/ WriteSidecar(o) \/ PutStat(o) \/ RmSidecar(o)
  PROVE  ListInv'
<1>1. /\ InFlight(o) /\ call' = call /\ object' = object /\ listing' = listing
      /\ call[o].kind # "list"
  <2>1. /\ pc[o] \in {"stat", "type", "body", "blob_read", "sidecar", "put_stat", "rm_sidecar"}
           \/ pc[o] \in {"sidecar", "object"}
        /\ call' = call /\ object' = object /\ listing' = listing
    BY DEF Stat, ReadType, ReadBody, OpenSource, BlobRead, WriteSidecar, PutStat, RmSidecar,
           At, files
  <2>2. Sensible(o)
    BY DEF AdapterInv
  <2> QED BY <2>1, <2>2 DEF Sensible, InFlight, RunPc, ReadLabels, WriteLabels, DeleteLabels,
                            Reads, Updates
<1>2. CASE OpenSource(o) /\ Dead(ProcessOf[o])
  BY <1>1, <1>2, DeadAside, AsideKeeps
<1>3. CASE ~(OpenSource(o) /\ Dead(ProcessOf[o]))
  <2>1. \/ \E label \in RunPc : Goto(o, label)
        \/ \E a : End(o, a)
        \/ UNCHANGED <<pc, answer, settled, alone>>
    <3>1. CASE Stat(o)
      BY <3>1 DEF Stat, RunPc
    <3>2. CASE ReadType(o)
      <4>1. Goto(o, "body") \/ Goto(o, "sidecar") \/ End(o, "ok")
        <5>1. call[o].kind \in Reads
          BY <3>2 DEF ReadType, At, AdapterInv, Sensible, ReadLabels
        <5> QED BY <3>2, <5>1 DEF ReadType, Reads
      <4> QED BY <4>1 DEF RunPc
    <3>3. CASE ReadBody(o)
      BY <3>3 DEF ReadBody, RunPc
    <3>4. CASE OpenSource(o)
      <4>1. Dead(ProcessOf[o]) \/ End(o, "failed") \/ UNCHANGED <<pc, answer, settled, alone>>
        BY <3>4, Zenon DEF OpenSource
      <4> QED BY <1>3, <3>4, <4>1
    <3>5. CASE BlobRead(o)
      BY <3>5 DEF BlobRead, RunPc
    <3>6. CASE WriteSidecar(o)
      BY <3>6 DEF WriteSidecar, RunPc
    <3>7. CASE PutStat(o)
      BY <3>7 DEF PutStat
    <3>8. CASE RmSidecar(o)
      BY <3>8 DEF RmSidecar
    <3> QED BY <3>1, <3>2, <3>3, <3>4, <3>5, <3>6, <3>7, <3>8
  <2>2. \A x \in Ops : Aside(x)
    BY <1>1, <2>1, AsideSteps
  <2> QED BY <1>1, <2>2, AsideKeeps
<1> QED BY <1>2, <1>3

\* A step that stores or removes an object is.
LEMMA StoresListed ==
  ASSUME AdapterInv, ListInv, NEW o \in Ops,
         RenameObject(o) \/ RmObject(o) \/ BlobUpload(o) \/ BlobCopy(o) \/ BlobDelete(o)
  PROVE  ListInv'
<1>1. /\ InFlight(o) /\ call' = call /\ call[o].kind \in Updates /\ call[o].key \in Keys
  <2>1. /\ pc[o] \in {"object", "rm_object", "blob_upload", "blob_copy", "blob_delete"}
        /\ call' = call
    BY DEF RenameObject, RmObject, BlobUpload, BlobCopy, BlobDelete, At
  <2>2. Sensible(o)
    BY DEF AdapterInv
  <2> QED BY <2>1, <2>2 DEF Sensible, InFlight, RunPc, WriteLabels, DeleteLabels, Updates
<1>2. (\E label \in RunPc : Goto(o, label)) \/ \E a : End(o, a)
  BY DEF RenameObject, RmObject, BlobUpload, BlobCopy, BlobDelete, RunPc
<1>3. \A x \in Ops : /\ Aside(x)
                     /\ call[x].kind = "list" => pc'[x] = pc[x] /\ answer'[x] = answer[x]
  BY <1>1, <1>2, AsideSteps DEF Updates
<1>4. (\E w : SetObject(call[o].key, w)) \/ UNCHANGED <<files, listing>>
  BY DEF RenameObject, RmObject, BlobUpload, BlobCopy, BlobDelete, SetBlob
<1>5. CASE UNCHANGED <<files, listing>>
  BY <1>3, <1>5, AsideKeeps DEF files
<1> QED BY <1>1, <1>3, <1>4, <1>5, SetObjectKeeps

LEMMA ListInit == Init => ListInv
<1> SUFFICES ASSUME Init PROVE ListInv
  OBVIOUS
<1>1. listing = [o \in Ops |-> NoListing] /\ call = [o \in Ops |-> NoCall]
  BY DEF Init
<1>2. NoListing \in Listings
  BY DEF NoListing, Listings
<1> QED BY <1>1, <1>2 DEF ListInv, Listed, NoCall

LEMMA ListStep == AdapterInv /\ ListInv /\ [Next]_vars => ListInv'
<1> SUFFICES ASSUME AdapterInv, ListInv, [Next]_vars PROVE ListInv'
  OBVIOUS
<1>1. ASSUME NEW o \in Ops, Begin(o) \/ Step(o) PROVE ListInv'
  <2>1. CASE IoFails(o)
    <3>1. /\ InFlight(o) /\ call' = call /\ files' = files /\ listing' = listing
          /\ End(o, "failed")
      BY <2>1 DEF IoFails
    <3>2. \A x \in Ops : Aside(x)
      BY <3>1 DEF Aside, End, AdapterInv, StoreTypes
    <3> QED BY <3>1, <3>2, AsideKeeps DEF files
  <2> QED BY <1>1, <2>1, BeginListed, ReadsListed, StoresListed, WalkListed,
             ListStatListed, PagesListed DEF Step
<1>2. ASSUME NEW p, Crash(p) PROVE ListInv'
  <2>1. call' = call /\ files' = files /\ listing' = listing /\ Dead(p)
    BY <1>2 DEF Crash
  <2> QED BY <2>1, DeadAside, AsideKeeps DEF files
<1>3. CASE UNCHANGED vars
  <2>1. object' = object /\ listing' = listing /\ \A x \in Ops : Aside(x)
    BY <1>3 DEF vars, files, Aside
  <2> QED BY <2>1, AsideKeeps
<1> QED BY <1>1, <1>2, <1>3 DEF Next, Rest

(***************************************************************************)
(* A list that is followed to its end is in order, holds every key that    *)
(* had an object all along and none that never had one, for every store,   *)
(* page size and adapter, whatever is written and removed meanwhile.       *)
(***************************************************************************)
THEOREM CompleteListings == Spec => []ListingIsComplete
<1>1. AdapterInv /\ ListInv => ListingIsComplete
  <2> SUFFICES ASSUME AdapterInv, ListInv, NEW o \in Ops,
                      call[o].kind = "list", answer[o] = "ok"
               PROVE  LET pages == listing[o].pages IN
                      /\ \A i \in 2..Len(pages) : pages[i - 1] < pages[i]
                      /\ listing[o].steady \subseteq {pages[i] : i \in DOMAIN pages}
                      /\ {pages[i] : i \in DOMAIN pages} \subseteq listing[o].ever
    BY Zenon DEF ListingIsComplete
  <2> DEFINE pages == listing[o].pages
  <2>1. /\ Ascending(pages) /\ Range(pages) \subseteq listing[o].ever
        /\ listing[o].steady \subseteq Range(pages) /\ listing[o] \in Listings
    BY DEF ListInv, Listed
  <2>2. pages \in Seq(Keys)
    BY <2>1 DEF Listings
  <2> HIDE DEF pages
  <2>3. DOMAIN pages = 1..Len(pages) /\ Len(pages) \in Nat
    BY <2>2, LenProperties
  <2>4. \A i \in 2..Len(pages) : pages[i - 1] < pages[i]
    <3> TAKE i \in 2..Len(pages)
    <3>1. i - 1 \in DOMAIN pages /\ i \in DOMAIN pages /\ i - 1 < i
      BY <2>3
    <3> QED BY <2>1, <3>1 DEF Ascending
  <2>5. Range(pages) = {pages[i] : i \in DOMAIN pages}
    BY Zenon DEF Range
  <2> QED BY <2>1, <2>4, <2>5 DEF pages
<1> QED BY <1>1, AdapterInit, AdapterStep, ListInit, ListStep, PTL DEF Spec

-----------------------------------------------------------------------------
(***************************************************************************)
(* Keys that are written once                                              *)
(***************************************************************************)
FileLabels == {"stat", "type", "body", "sidecar", "object", "rm_object", "rm_sidecar"}
BlobLabels == {"blob_read", "blob_upload", "blob_copy", "blob_delete"}
AfterStat == {"type", "body", "sidecar", "object", "blob_upload"}
AfterType == AfterStat \ {"type"}

Updater(o, k) == call[o].kind \in Updates /\ call[o].key = k

\* A key written once has one writer, which has stored the object by now if
\* there is one, and its sidecar before.
OnceKey(k) ==
  /\ \A x, y \in Ops : Updater(x, k) /\ Updater(y, k) => x = y
  /\ \A x \in Ops : Updater(x, k) => call[x].kind # "delete"
  /\ object[k] # None =>
       /\ sidecar[k] # None
       /\ \E x \in Ops : Updater(x, k) /\ pc[x] \in {"put_stat", "done", "crashed"}

\* What an operation has read of such a key it still holds, and what it has
\* written is still there.
OnceOp(o) ==
  /\ pc[o] \in FileLabels => provider \notin Blobs
  /\ pc[o] \in BlobLabels => provider \in Blobs
  /\ call[o].kind \in Reads =>
       /\ pc[o] \in AfterStat => info[o].size # None
       /\ pc[o] \in AfterType => info[o].type # None
       /\ pc[o] = "blob_upload" => info[o].body # None
  /\ call[o].key \in Fresh =>
       /\ pc[o] = "object" => sidecar[call[o].key] = Written(o)[2]
       /\ pc[o] = "put_stat" => object[call[o].key] # None
  /\ call[o].kind \in Reads /\ ReadKey(o) \in Fresh =>
       /\ pc[o] \in AfterStat =>
            /\ info[o].size = object[ReadKey(o)]
            /\ info[o].body \in {None, object[ReadKey(o)]}
       /\ pc[o] \in AfterType => info[o].type = sidecar[ReadKey(o)]

\* A service stores no object without its type.
TypedBlobs ==
  provider \in Blobs => \A k \in Keys : object[k] # None => sidecar[k] # None

\* Only a copy has a source.
Sources == \A o \in Ops : call[o].kind # "copy" => call[o].from = 0

OnceInv == /\ AdapterInv /\ TypedBlobs /\ Sources
           /\ \A k \in Fresh : OnceKey(k)
           /\ \A o \in Ops : OnceOp(o)

\* The one writer of such a key has not stored anything before it has.
LEMMA NotYet ==
  ASSUME OnceInv, NEW o \in Ops, NEW k \in Fresh, Updater(o, k),
         pc[o] \notin {"put_stat", "done", "crashed"}
  PROVE  object[k] = None
BY DEF OnceInv, OnceKey

\* A writer of such a key is not a delete.
LEMMA NotDeleted ==
  ASSUME OnceInv, NEW o \in Ops, call[o].kind = "delete"
  PROVE  call[o].key \notin Fresh
BY DEF OnceInv, OnceKey, Updater, Updates

\* What a put or copy stores has a type, and bytes when a service is sent it.
LEMMA WrittenWhole ==
  ASSUME OnceInv, NEW o \in Ops, pc[o] \in {"sidecar", "object", "blob_upload"}
  PROVE  /\ Written(o)[2] # None
         /\ pc[o] = "blob_upload" => Written(o)[1] # None
<1>1. call[o].kind \in {"put", "copy"}
  BY WrittenFacts DEF OnceInv
<1>2. CASE call[o].kind = "put"
  BY <1>2, ValuesAssumption DEF Written
<1>3. CASE call[o].kind = "copy"
  BY <1>3 DEF Written, OnceInv, OnceOp, AfterType, AfterStat, Reads
<1> QED BY <1>1, <1>2, <1>3

\* A step of o leaves the others alone, and what is stored once.
LEMMA OnceKeeps ==
  ASSUME OnceInv, AdapterInv', NEW o \in Ops, InFlight(o), UNCHANGED <<provider, call>>,
         \A x \in Ops \ {o} : pc'[x] = pc[x] /\ info'[x] = info[x],
         pc[o] = "put_stat" => pc'[o] \in {"put_stat", "done"},
         \A k \in Fresh : object[k] # None =>
           object'[k] = object[k] /\ sidecar'[k] = sidecar[k],
         \A k \in Fresh : sidecar'[k] # sidecar[k] => Updater(o, k),
         \A k \in Fresh : object'[k] # None /\ object[k] = None =>
           sidecar'[k] # None /\ Updater(o, k) /\ pc'[o] = "put_stat",
         TypedBlobs', OnceOp(o)'
  PROVE  OnceInv'
<1>1. Fresh \subseteq Keys
  BY KeysAssumption
<1>2. ASSUME NEW k \in Fresh PROVE OnceKey(k)'
  <2>1. \A x \in Ops : Updater(x, k)' <=> Updater(x, k)
    BY DEF Updater
  <2>2. OnceKey(k)
    BY DEF OnceInv
  <2>3. CASE object[k] # None
    <3>1. PICK x \in Ops : Updater(x, k) /\ pc[x] \in {"put_stat", "done", "crashed"}
      BY <2>2, <2>3 DEF OnceKey
    <3>2. pc'[x] \in {"put_stat", "done", "crashed"}
      BY <3>1 DEF InFlight, RunPc
    <3> QED BY <2>1, <2>2, <2>3, <3>1, <3>2 DEF OnceKey
  <2>4. CASE object[k] = None
    BY <2>1, <2>2, <2>4 DEF OnceKey
  <2> QED BY <2>3, <2>4
<1>3. ASSUME NEW x \in Ops \ {o} PROVE OnceOp(x)'
  <2>1. OnceOp(x)
    BY DEF OnceInv
  <2>2. /\ pc'[x] = pc[x] /\ info'[x] = info[x] /\ call' = call /\ provider' = provider
        /\ Written(x)' = Written(x) /\ ReadKey(x)' = ReadKey(x)
    BY DEF Written, ReadKey
  <2>3. call[x].key \in Fresh /\ pc[x] = "object" =>
          sidecar'[call[x].key] = sidecar[call[x].key]
    <3>1. SUFFICES ASSUME call[x].key \in Fresh, pc[x] = "object"
                   PROVE  ~Updater(o, call[x].key)
      OBVIOUS
    <3>2. Updater(x, call[x].key)
      BY <3>1, WrittenFacts DEF OnceInv, Updater, Updates
    <3> QED BY <3>1, <3>2 DEF OnceInv, OnceKey
  <2>4. call[x].key \in Fresh /\ pc[x] = "put_stat" => object'[call[x].key] # None
    BY <2>1 DEF OnceOp
  <2>5. call[x].kind \in Reads /\ ReadKey(x) \in Fresh /\ pc[x] \in AfterStat =>
          /\ object'[ReadKey(x)] = object[ReadKey(x)]
          /\ sidecar'[ReadKey(x)] = sidecar[ReadKey(x)]
    BY <2>1 DEF OnceOp
  <2> QED BY <2>1, <2>2, <2>3, <2>4, <2>5 DEF OnceOp, AfterType
<1>4. OnceOp(o)'
  OBVIOUS
<1>5. Sources'
  BY DEF OnceInv, Sources
<1> QED BY <1>2, <1>3, <1>4, <1>5 DEF OnceInv

\* A step that stores nothing keeps OnceInv if o still holds what it has read.
LEMMA OnceStays ==
  ASSUME OnceInv, AdapterInv', NEW o \in Ops, InFlight(o),
         UNCHANGED <<provider, files, call>>,
         \A x \in Ops \ {o} : pc'[x] = pc[x] /\ info'[x] = info[x],
         pc[o] = "put_stat" => pc'[o] \in {"put_stat", "done"}, OnceOp(o)'
  PROVE  OnceInv'
<1>1. object' = object /\ sidecar' = sidecar /\ provider' = provider
  BY DEF files
<1>2. TypedBlobs'
  BY <1>1 DEF OnceInv, TypedBlobs
<1> QED BY <1>1, <1>2, OnceKeeps

\* An operation that has ended holds nothing any more.
LEMMA OnceDone ==
  ASSUME NEW o \in Ops, pc'[o] \in {"done", "crashed"}
  PROVE  OnceOp(o)'
BY DEF OnceOp, FileLabels, BlobLabels, AfterStat, AfterType

\* The end of an operation stores nothing.
LEMMA OnceEnds ==
  ASSUME OnceInv, AdapterInv', NEW o \in Ops, InFlight(o), NEW a, End(o, a),
         UNCHANGED <<provider, files, call>>,
         \A x \in Ops \ {o} : info'[x] = info[x]
  PROVE  OnceInv'
<1>1. pc'[o] = "done" /\ \A x \in Ops \ {o} : pc'[x] = pc[x]
  BY DEF End, OnceInv, AdapterInv, StoreTypes
<1>2. OnceOp(o)'
  BY <1>1, OnceDone
<1> QED BY <1>1, <1>2, OnceStays

-----------------------------------------------------------------------------
(***************************************************************************)
(* The steps of the adapters, for such keys                                *)
(***************************************************************************)
\* What every step of o that goes on to label leaves.
LEMMA GotoIs ==
  ASSUME StoreTypes, NEW o \in Ops, NEW label, Goto(o, label)
  PROVE  pc'[o] = label /\ \A x \in Ops \ {o} : pc'[x] = pc[x]
BY DEF Goto, StoreTypes

\* What is learned is one field of what o has read, which others do not see.
LEMMA LearnOnce ==
  ASSUME StoreTypes, NEW o \in Ops, NEW field \in {"size", "type", "body"}, NEW v,
         Learn(o, field, v)
  PROVE  /\ info'[o][field] = v /\ \A x \in Ops \ {o} : info'[x] = info[x]
         /\ field # "size" => info'[o].size = info[o].size
         /\ field # "type" => info'[o].type = info[o].type
         /\ field # "body" => info'[o].body = info[o].body
<1>1. info' = [info EXCEPT ![o] = [info[o] EXCEPT ![field] = v]]
  BY LearnIs
<1>2. info[o] \in Infos
  BY DEF StoreTypes
<1>3. info'[o] = [info[o] EXCEPT ![field] = v] /\ \A x \in Ops \ {o} : info'[x] = info[x]
  BY <1>1 DEF StoreTypes
<1> QED BY <1>2, <1>3 DEF Infos

\* A stat of such a key sees the object that stays there.
LEMMA StatOnce ==
  ASSUME OnceInv, AdapterInv', NEW o \in Ops, Stat(o)
  PROVE  OnceInv'
<1> DEFINE bytes == object[ReadKey(o)]
<1>1. /\ InFlight(o) /\ pc[o] = "stat" /\ UNCHANGED <<provider, files, call>>
      /\ StoreTypes /\ OnceOp(o)
  BY DEF Stat, At, InFlight, RunPc, OnceInv, AdapterInv
<1>2. CASE End(o, "not_found") /\ UNCHANGED info
  BY <1>1, <1>2, OnceEnds
<1>3. CASE bytes # None /\ Learn(o, "size", bytes) /\ Goto(o, "type")
  <2>1. pc'[o] = "type" /\ \A x \in Ops \ {o} : pc'[x] = pc[x]
    BY <1>1, <1>3, GotoIs
  <2>2. /\ info'[o].size = bytes /\ info'[o].body = info[o].body
        /\ \A x \in Ops \ {o} : info'[x] = info[x]
    BY <1>1, <1>3, LearnOnce
  <2>3. info[o].body = None
    BY <1>1 DEF OnceInv, AdapterInv, Found
  <2>4. ReadKey(o)' = ReadKey(o) /\ object' = object /\ provider' = provider /\ call' = call
    BY <1>1 DEF ReadKey, files
  <2>5. provider \notin Blobs
    BY <1>1 DEF OnceOp, FileLabels
  <2>6. OnceOp(o)'
    BY <1>3, <2>1, <2>2, <2>3, <2>4, <2>5 DEF OnceOp, BlobLabels, AfterStat, AfterType
  <2> QED BY <1>1, <2>1, <2>2, <2>6, OnceStays
<1> QED BY <1>2, <1>3 DEF Stat

\* The type that is read is the one of that object.
LEMMA ReadTypeOnce ==
  ASSUME OnceInv, AdapterInv', NEW o \in Ops, ReadType(o)
  PROVE  OnceInv'
<1> DEFINE k == ReadKey(o)
           type == IF sidecar[k] = None THEN DefaultType ELSE sidecar[k]
<1>1. /\ InFlight(o) /\ pc[o] = "type" /\ UNCHANGED <<provider, files, call>>
      /\ StoreTypes /\ OnceOp(o) /\ Learn(o, "type", type) /\ call[o].kind \in Reads
  BY DEF ReadType, At, InFlight, RunPc, OnceInv, AdapterInv, Sensible, ReadLabels
<1>2. /\ info'[o].type = type /\ info'[o].size = info[o].size
      /\ info'[o].body = info[o].body /\ \A x \in Ops \ {o} : info'[x] = info[x]
  BY <1>1, LearnOnce
<1>3. CASE End(o, "ok")
  BY <1>1, <1>2, <1>3, OnceEnds
<1>4. ASSUME NEW label \in {"body", "sidecar"}, Goto(o, label) PROVE OnceInv'
  <2>1. pc'[o] = label /\ \A x \in Ops \ {o} : pc'[x] = pc[x]
    BY <1>1, <1>4, GotoIs
  <2>2. /\ ReadKey(o)' = k /\ object' = object /\ sidecar' = sidecar
        /\ provider' = provider /\ call' = call
    BY <1>1 DEF ReadKey, files
  <2>3. provider \notin Blobs /\ info[o].size # None
    BY <1>1 DEF OnceOp, FileLabels, AfterStat
  <2>4. type # None
    BY ValuesAssumption
  <2>5. k \in Fresh => /\ info[o].size = object[k] /\ info[o].body \in {None, object[k]}
                       /\ type = sidecar[k]
    <3>1. SUFFICES ASSUME k \in Fresh
                   PROVE  /\ info[o].size = object[k]
                          /\ info[o].body \in {None, object[k]} /\ sidecar[k] # None
      OBVIOUS
    <3>2. info[o].size = object[k] /\ info[o].body \in {None, object[k]}
      BY <1>1, <3>1 DEF OnceOp, AfterStat
    <3>3. sidecar[k] # None
      BY <2>3, <3>1, <3>2 DEF OnceInv, OnceKey
    <3> QED BY <3>2, <3>3
  <2> HIDE DEF k, type
  <2>6. OnceOp(o)'
    BY <1>2, <2>1, <2>2, <2>3, <2>4, <2>5 DEF OnceOp, BlobLabels, AfterStat, AfterType
  <2> QED BY <1>1, <1>2, <2>1, <2>6, OnceStays
<1> QED BY <1>1, <1>3, <1>4 DEF ReadType, Reads

\* The bytes that are read are those the stat saw.
LEMMA ReadBodyOnce ==
  ASSUME OnceInv, AdapterInv', NEW o \in Ops, ReadBody(o)
  PROVE  OnceInv'
<1> DEFINE k == ReadKey(o)
<1>1. /\ InFlight(o) /\ pc[o] = "body" /\ UNCHANGED <<provider, files, call>>
      /\ StoreTypes /\ OnceOp(o)
  BY DEF ReadBody, At, InFlight, RunPc, OnceInv, AdapterInv
<1>2. CASE End(o, "failed") /\ UNCHANGED info
  BY <1>1, <1>2, OnceEnds
<1>3. CASE Learn(o, "body", object[k])
           /\ IF call[o].kind = "get" THEN End(o, "ok") ELSE Goto(o, "sidecar")
  <2>1. /\ info'[o].body = object[k] /\ info'[o].size = info[o].size
        /\ info'[o].type = info[o].type /\ \A x \in Ops \ {o} : info'[x] = info[x]
    BY <1>1, <1>3, LearnOnce
  <2>2. CASE End(o, "ok")
    BY <1>1, <2>1, <2>2, OnceEnds
  <2>3. CASE Goto(o, "sidecar")
    <3>1. pc'[o] = "sidecar" /\ \A x \in Ops \ {o} : pc'[x] = pc[x]
      BY <1>1, <2>3, GotoIs
    <3>2. /\ ReadKey(o)' = k /\ object' = object /\ sidecar' = sidecar
          /\ provider' = provider /\ call' = call
      BY <1>1 DEF ReadKey, files
    <3>3. OnceOp(o)'
      BY <1>1, <2>1, <3>1, <3>2
         DEF OnceOp, FileLabels, BlobLabels, AfterStat, AfterType
    <3> QED BY <1>1, <2>1, <3>1, <3>3, OnceStays
  <2> QED BY <1>3, <2>2, <2>3
<1> QED BY <1>2, <1>3 DEF ReadBody

\* Lists read no object.
LEMMA ListOnce ==
  ASSUME OnceInv, AdapterInv', NEW o \in Ops,
         Walk(o) \/ ListStat(o) \/ Page(o) \/ BlobPage(o)
  PROVE  OnceInv'
<1>1. /\ InFlight(o) /\ pc[o] \in {"walk", "walking", "list_stat", "blob_page"}
      /\ UNCHANGED <<provider, files, call, info>> /\ StoreTypes
  BY DEF Walk, ListStat, Page, BlobPage, At, InFlight, RunPc, OnceInv, AdapterInv
<1>2. CASE End(o, "ok")
  BY <1>1, <1>2, OnceEnds
<1>3. ASSUME NEW label \in {"walk", "walking", "list_stat", "blob_page"},
             Goto(o, label)
      PROVE  OnceInv'
  <2>1. pc'[o] = label /\ \A x \in Ops \ {o} : pc'[x] = pc[x]
    BY <1>1, <1>3, GotoIs
  <2>2. OnceOp(o)'
    BY <2>1 DEF OnceOp, FileLabels, BlobLabels, AfterStat, AfterType
  <2> QED BY <1>1, <2>1, <2>2, OnceStays
<1>4. CASE UNCHANGED pc
  <2>1. OnceOp(o)'
    BY <1>1, <1>4 DEF OnceOp, FileLabels, BlobLabels, AfterStat, AfterType
  <2> QED BY <1>1, <1>4, <2>1, OnceStays
<1> QED BY <1>2, <1>3, <1>4 DEF Walk, ListStat, Page, BlobPage, HandOut

\* The stream that is opened late reads the same bytes.
LEMMA OpenSourceOnce ==
  ASSUME OnceInv, AdapterInv', NEW o \in Ops, OpenSource(o),
         ~Dead(ProcessOf[o])
  PROVE  OnceInv'
<1> DEFINE bytes == object[call[o].from]
<1>1. /\ InFlight(o) /\ pc[o] \in {"sidecar", "object"} /\ ReadKey(o) = call[o].from
      /\ UNCHANGED <<provider, files, call>> /\ StoreTypes /\ OnceOp(o)
      /\ call[o].kind = "copy"
  BY DEF OpenSource, InFlight, RunPc, OnceInv, AdapterInv, ReadKey
<1>2. CASE End(o, "failed") /\ UNCHANGED info
  BY <1>1, <1>2, OnceEnds
<1>3. CASE bytes # None /\ Learn(o, "body", bytes) /\ UNCHANGED pc
  <2>1. /\ info'[o].body = bytes /\ info'[o].size = info[o].size
        /\ info'[o].type = info[o].type /\ \A x \in Ops \ {o} : info'[x] = info[x]
    BY <1>1, <1>3, LearnOnce
  <2>2. /\ ReadKey(o)' = ReadKey(o) /\ object' = object /\ sidecar' = sidecar
        /\ provider' = provider /\ call' = call
    BY <1>1 DEF ReadKey, files
  <2>3. Written(o)'[2] = Written(o)[2]
    BY <1>1, <2>1, <2>2 DEF Written
  <2>4. OnceOp(o)'
    BY <1>1, <1>3, <2>1, <2>2, <2>3
       DEF OnceOp, FileLabels, BlobLabels, AfterStat, AfterType
  <2> QED BY <1>1, <1>3, <2>1, <2>4, OnceStays DEF InFlight, RunPc
<1> QED BY <1>2, <1>3 DEF OpenSource

\* The sidecar is written before there is an object.
LEMMA WriteSidecarOnce ==
  ASSUME OnceInv, AdapterInv', NEW o \in Ops, WriteSidecar(o)
  PROVE  OnceInv'
<1> DEFINE k == call[o].key
<1>1. /\ InFlight(o) /\ pc[o] = "sidecar" /\ UNCHANGED <<provider, object, call, info>>
      /\ sidecar' = [sidecar EXCEPT ![k] = Written(o)[2]] /\ Goto(o, "object")
      /\ StoreTypes /\ OnceOp(o)
  BY DEF WriteSidecar, At, InFlight, RunPc, OnceInv, AdapterInv
<1>2. pc'[o] = "object" /\ \A x \in Ops \ {o} : pc'[x] = pc[x]
  BY <1>1, GotoIs
<1>3. k \in Keys /\ Updater(o, k) /\ call[o].kind \in {"put", "copy"}
  BY <1>1, WrittenFacts DEF OnceInv, Updater, Updates
<1>4. /\ sidecar'[k] = Written(o)[2]
      /\ \A j \in Keys : j # k => sidecar'[j] = sidecar[j]
  BY <1>1, <1>3 DEF StoreTypes
<1>5. provider \notin Blobs
  BY <1>1 DEF OnceOp, FileLabels
<1>6. k \in Fresh => object[k] = None
  BY <1>1, <1>3, NotYet
<1>7. Written(o)' = Written(o) /\ ReadKey(o)' = ReadKey(o)
  BY <1>1 DEF Written, ReadKey
<1>8. Fresh \subseteq Keys /\ (call[o].kind = "copy" => ReadKey(o) # k)
  BY KeysAssumption DEF OnceInv, AdapterInv, Sensible, ReadKey
<1>9. OnceOp(o)'
  BY <1>1, <1>2, <1>3, <1>4, <1>5, <1>7, <1>8
     DEF OnceOp, Reads, FileLabels, BlobLabels, AfterStat, AfterType
<1>10. TypedBlobs'
  BY <1>1, <1>5 DEF TypedBlobs
<1> QED BY <1>1, <1>2, <1>3, <1>4, <1>6, <1>8, <1>9, <1>10, OnceKeeps

\* The object appears when its sidecar is there.
LEMMA RenameObjectOnce ==
  ASSUME OnceInv, AdapterInv', NEW o \in Ops, RenameObject(o)
  PROVE  OnceInv'
<1> DEFINE k == call[o].key
<1>1. /\ InFlight(o) /\ pc[o] = "object" /\ UNCHANGED <<provider, sidecar, call, info>>
      /\ object' = [object EXCEPT ![k] = Written(o)[1]] /\ Written(o)[1] # None
      /\ Goto(o, "put_stat") /\ StoreTypes /\ OnceOp(o)
  BY DEF RenameObject, SetObject, At, InFlight, RunPc, OnceInv, AdapterInv
<1>2. pc'[o] = "put_stat" /\ \A x \in Ops \ {o} : pc'[x] = pc[x]
  BY <1>1, GotoIs
<1>3. k \in Keys /\ Updater(o, k) /\ call[o].kind \in {"put", "copy"}
  BY <1>1, WrittenFacts DEF OnceInv, Updater, Updates
<1>4. /\ object'[k] = Written(o)[1]
      /\ \A j \in Keys : j # k => object'[j] = object[j]
  BY <1>1, <1>3 DEF StoreTypes
<1>5. provider \notin Blobs
  BY <1>1 DEF OnceOp, FileLabels
<1>6. k \in Fresh => object[k] = None /\ sidecar[k] # None
  BY <1>1, <1>3, NotYet, WrittenWhole DEF OnceOp
<1>7. Fresh \subseteq Keys
  BY KeysAssumption
<1>8. OnceOp(o)'
  BY <1>1, <1>2, <1>4 DEF OnceOp, FileLabels, BlobLabels, AfterStat, AfterType
<1>9. TypedBlobs'
  BY <1>1, <1>5 DEF TypedBlobs
<1> QED BY <1>1, <1>2, <1>3, <1>4, <1>6, <1>7, <1>8, <1>9, OnceKeeps

\* The stat at the end of a put stores nothing.
LEMMA PutStatOnce ==
  ASSUME OnceInv, AdapterInv', NEW o \in Ops, PutStat(o)
  PROVE  OnceInv'
<1>1. InFlight(o) /\ UNCHANGED <<provider, files, call, info>>
  BY DEF PutStat, At, InFlight, RunPc
<1>2. PICK a \in {"ok", "failed"} : End(o, a)
  BY DEF PutStat
<1> QED BY <1>1, <1>2, OnceEnds

\* A delete is of another key.
LEMMA DeleteOnce ==
  ASSUME OnceInv, AdapterInv', NEW o \in Ops,
         RmObject(o) \/ RmSidecar(o) \/ BlobDelete(o)
  PROVE  OnceInv'
<1> DEFINE k == call[o].key
<1>1. /\ InFlight(o) /\ pc[o] \in DeleteLabels /\ UNCHANGED <<provider, call, info>>
      /\ StoreTypes
  BY DEF RmObject, RmSidecar, BlobDelete, At, InFlight, RunPc, DeleteLabels, OnceInv,
         AdapterInv
<1>2. k \in Keys \ Fresh /\ call[o].kind = "delete"
  BY <1>1, NotDeleted, DeleteFacts DEF OnceInv
<1>3. Fresh \subseteq Keys
  BY KeysAssumption
<1>4. \A j \in Keys : j # k => object'[j] = object[j] /\ sidecar'[j] = sidecar[j]
  BY DEF RmObject, RmSidecar, BlobDelete, SetBlob, SetObject, OnceInv, AdapterInv,
         StoreTypes
<1>5. pc'[o] \in {"rm_sidecar", "done"} /\ \A x \in Ops \ {o} : pc'[x] = pc[x]
  BY <1>1 DEF RmObject, RmSidecar, BlobDelete, Goto, End, StoreTypes
<1>6. TypedBlobs'
  <2>1. CASE RmObject(o) \/ RmSidecar(o)
    <3>1. pc[o] \in {"rm_object", "rm_sidecar"}
      BY <2>1 DEF RmObject, RmSidecar, At
    <3>2. provider \notin Blobs
      BY <3>1 DEF OnceInv, OnceOp, FileLabels
    <3> QED BY <1>1, <3>2 DEF TypedBlobs
  <2>2. CASE BlobDelete(o)
    <3>1. object' = [object EXCEPT ![k] = None]
      BY <2>2 DEF BlobDelete, SetBlob, SetObject, Absent
    <3>2. object'[k] = None
      BY <1>1, <1>2, <3>1 DEF StoreTypes
    <3>3. TypedBlobs
      BY DEF OnceInv
    <3> QED BY <1>1, <1>4, <3>2, <3>3 DEF TypedBlobs
  <2> QED BY <2>1, <2>2
<1>7. OnceOp(o)'
  <2>1. CASE RmObject(o)
    <3>1. pc[o] = "rm_object" /\ pc'[o] = "rm_sidecar"
      BY <1>1, <2>1 DEF RmObject, At, Goto, StoreTypes
    <3>2. provider' \notin Blobs
      BY <1>1, <3>1 DEF OnceInv, OnceOp, FileLabels
    <3> QED BY <3>1, <3>2 DEF OnceOp, BlobLabels, AfterStat, AfterType
  <2>2. CASE pc'[o] = "done"
    BY <2>2 DEF OnceOp, FileLabels, BlobLabels, AfterStat, AfterType
  <2>3. RmSidecar(o) \/ BlobDelete(o) => pc'[o] = "done"
    BY <1>1 DEF RmSidecar, BlobDelete, End, StoreTypes
  <2> QED BY <2>1, <2>2, <2>3
<1>8. pc[o] # "put_stat"
  BY <1>1 DEF DeleteLabels
<1> QED BY <1>1, <1>2, <1>3, <1>4, <1>5, <1>6, <1>7, <1>8, OnceKeeps

\* A service answers with the object and its type at once.
LEMMA BlobReadOnce ==
  ASSUME OnceInv, AdapterInv', NEW o \in Ops, BlobRead(o)
  PROVE  OnceInv'
<1> DEFINE k == ReadKey(o)
           read == [size |-> object[k], type |-> sidecar[k], body |-> object[k]]
<1>1. /\ InFlight(o) /\ pc[o] = "blob_read" /\ UNCHANGED <<provider, files, call>>
      /\ StoreTypes /\ call[o].kind \in Reads
  BY DEF BlobRead, InFlight, RunPc, OnceInv, AdapterInv, Sensible, ReadLabels
<1>2. provider \in Blobs
  BY <1>1 DEF OnceInv, OnceOp, BlobLabels
<1>3. CASE End(o, "not_found") /\ UNCHANGED info
  BY <1>1, <1>3, OnceEnds
<1>4. CASE /\ object[k] # None /\ info' = [info EXCEPT ![o] = read]
           /\ IF call[o].kind = "copy" THEN Goto(o, "blob_upload") ELSE End(o, "ok")
  <2>1. info'[o] = read /\ \A x \in Ops \ {o} : info'[x] = info[x]
    BY <1>1, <1>4 DEF StoreTypes
  <2>2. CASE End(o, "ok")
    BY <1>1, <2>1, <2>2, OnceEnds
  <2>3. CASE Goto(o, "blob_upload")
    <3>1. pc'[o] = "blob_upload" /\ \A x \in Ops \ {o} : pc'[x] = pc[x]
      BY <1>1, <2>3, GotoIs
    <3>2. /\ ReadKey(o)' = k /\ object' = object /\ sidecar' = sidecar
          /\ provider' = provider /\ call' = call
      BY <1>1 DEF ReadKey, files
    <3>3. sidecar[k] # None
      BY <1>1, <1>2, <1>4, ReadFacts DEF OnceInv, TypedBlobs
    <3>4. OnceOp(o)'
      BY <1>2, <1>4, <2>1, <3>1, <3>2, <3>3 DEF OnceOp, FileLabels, AfterStat, AfterType
    <3> QED BY <1>1, <2>1, <3>1, <3>4, OnceStays
  <2> QED BY <1>4, <2>2, <2>3
<1> QED BY <1>3, <1>4 DEF BlobRead

\* A service stores an object and its type at once.
LEMMA StoredAtOnce ==
  ASSUME OnceInv, AdapterInv', NEW o \in Ops, InFlight(o), pc[o] \in BlobLabels,
         Updater(o, call[o].key), call[o].key \in Keys,
         UNCHANGED <<provider, call, info>>,
         NEW c, c[1] # None, c[2] # None,
         object' = [object EXCEPT ![call[o].key] = c[1]],
         sidecar' = [sidecar EXCEPT ![call[o].key] = c[2]], Goto(o, "put_stat")
  PROVE  OnceInv'
<1> DEFINE k == call[o].key
<1>1. /\ object'[k] = c[1] /\ sidecar'[k] = c[2]
      /\ \A j \in Keys : j # k => object'[j] = object[j] /\ sidecar'[j] = sidecar[j]
  BY DEF OnceInv, AdapterInv, StoreTypes
<1>2. pc'[o] = "put_stat" /\ \A x \in Ops \ {o} : pc'[x] = pc[x]
  BY GotoIs DEF OnceInv, AdapterInv
<1>3. provider \in Blobs
  BY DEF OnceInv, OnceOp
<1>4. k \in Fresh => object[k] = None
  BY NotYet DEF BlobLabels
<1>5. Fresh \subseteq Keys
  BY KeysAssumption
<1>6. OnceOp(o)'
  BY <1>1, <1>2 DEF OnceOp, FileLabels, BlobLabels, AfterStat, AfterType
<1>7. TypedBlobs'
  BY <1>1, <1>3 DEF OnceInv, TypedBlobs
<1>8. pc[o] # "put_stat"
  BY DEF BlobLabels
<1> QED BY <1>1, <1>2, <1>4, <1>5, <1>6, <1>7, <1>8, OnceKeeps

\* An upload to a service is one such call,
LEMMA BlobUploadOnce ==
  ASSUME OnceInv, AdapterInv', NEW o \in Ops, BlobUpload(o)
  PROVE  OnceInv'
<1>1. /\ pc[o] = "blob_upload" /\ UNCHANGED <<provider, call, info>>
      /\ object' = [object EXCEPT ![call[o].key] = Written(o)[1]]
      /\ sidecar' = [sidecar EXCEPT ![call[o].key] = Written(o)[2]]
      /\ Goto(o, "put_stat")
  BY DEF BlobUpload, SetBlob, SetObject
<1>2. InFlight(o) /\ Updater(o, call[o].key) /\ call[o].key \in Keys
  BY <1>1, WrittenFacts DEF OnceInv, Updater, Updates
<1>3. Written(o)[1] # None /\ Written(o)[2] # None
  BY <1>1, WrittenWhole
<1> QED BY <1>1, <1>2, <1>3, StoredAtOnce DEF BlobLabels

\* and so is a copy inside it.
LEMMA BlobCopyOnce ==
  ASSUME OnceInv, AdapterInv', NEW o \in Ops, BlobCopy(o)
  PROVE  OnceInv'
<1> DEFINE from == call[o].from
<1>1. /\ InFlight(o) /\ pc[o] = "blob_copy" /\ UNCHANGED <<provider, call, info>>
      /\ call[o].kind = "copy" /\ from \in Keys /\ call[o].key \in Keys
      /\ Updater(o, call[o].key)
  BY DEF BlobCopy, InFlight, RunPc, OnceInv, AdapterInv, Sensible, Updater, Updates
<1>2. CASE End(o, "not_found") /\ UNCHANGED files
  BY <1>1, <1>2, OnceEnds
<1>3. CASE /\ object[from] # None /\ Goto(o, "put_stat")
           /\ SetBlob(call[o].key, <<object[from], sidecar[from]>>)
  <2>1. /\ object' = [object EXCEPT ![call[o].key] = object[from]]
        /\ sidecar' = [sidecar EXCEPT ![call[o].key] = sidecar[from]]
    BY <1>3 DEF SetBlob, SetObject
  <2>2. sidecar[from] # None
    BY <1>1, <1>3 DEF OnceInv, OnceOp, BlobLabels, TypedBlobs
  <2> DEFINE c == <<object[from], sidecar[from]>>
  <2>3. c[1] = object[from] /\ c[2] = sidecar[from]
    OBVIOUS
  <2> HIDE DEF c
  <2> QED BY <1>1, <1>3, <2>1, <2>2, <2>3, StoredAtOnce DEF BlobLabels
<1> QED BY <1>2, <1>3 DEF BlobCopy

\* The death of a process stores nothing.
LEMMA DeadOnce ==
  ASSUME OnceInv, AdapterInv', NEW p, Dead(p), UNCHANGED <<provider, files, call, info>>
  PROVE  OnceInv'
<1>1. /\ object' = object /\ sidecar' = sidecar /\ provider' = provider
      /\ call' = call /\ info' = info
  BY DEF files
<1>2. ASSUME NEW x \in Ops
      PROVE  /\ pc'[x] = pc[x] \/ pc'[x] = "crashed"
             /\ pc[x] \in {"done", "crashed"} => pc'[x] = pc[x]
  BY DEF Dead, InFlight, RunPc
<1>3. ASSUME NEW k \in Fresh PROVE OnceKey(k)'
  <2>1. OnceKey(k)
    BY DEF OnceInv
  <2> QED BY <1>1, <1>2, <2>1 DEF OnceKey, Updater
<1>4. ASSUME NEW x \in Ops PROVE OnceOp(x)'
  <2>1. CASE pc'[x] = "crashed"
    BY <2>1, OnceDone
  <2>2. CASE pc'[x] = pc[x]
    <3>1. OnceOp(x)
      BY DEF OnceInv
    <3>2. ReadKey(x)' = ReadKey(x) /\ Written(x)' = Written(x)
      BY <1>1 DEF ReadKey, Written
    <3> QED BY <1>1, <2>2, <3>1, <3>2 DEF OnceOp
  <2> QED BY <1>2, <2>1, <2>2
<1>5. TypedBlobs'
  BY <1>1 DEF OnceInv, TypedBlobs
<1>6. Sources'
  BY <1>1 DEF OnceInv, Sources
<1> QED BY <1>3, <1>4, <1>5, <1>6 DEF OnceInv

\* The second writer of such a key is not allowed.
LEMMA BeginOnce ==
  ASSUME OnceInv, AdapterInv', NEW o \in Ops, Begin(o)
  PROVE  OnceInv'
<1>1. PICK c \in Requests : BeginsWith(o, c)
  BY BeginIs DEF OnceInv
<1>2. /\ pc[o] = "idle" /\ provider' = provider /\ object' = object /\ sidecar' = sidecar
      /\ info' = info /\ pc'[o] = FirstLabel(c.kind) /\ call'[o] = c
      /\ \A x \in Ops \ {o} : pc'[x] = pc[x] /\ call'[x] = call[x]
  BY <1>1 DEF BeginsWith, OnceInv, AdapterInv, StoreTypes, files
<1>3. /\ c.kind \in Reads \cup Updates \cup {"list"}
      /\ c.kind # "copy" => c.from = 0
      /\ c.key \in Fresh /\ c.kind \in Updates =>
           /\ c.kind # "delete"
           /\ \A x \in Ops : ~Updater(x, c.key)
  BY DEF Requests, Allowed, Updater
<1>4. ASSUME NEW k \in Fresh PROVE OnceKey(k)'
  <2>1. OnceKey(k)
    BY DEF OnceInv
  <2>2. \A x \in Ops \ {o} : Updater(x, k)' <=> Updater(x, k)
    BY <1>2 DEF Updater
  <2>3. Updater(o, k)' <=> c.kind \in Updates /\ c.key = k
    BY <1>2 DEF Updater
  <2> QED BY <1>2, <1>3, <2>1, <2>2, <2>3 DEF OnceKey
<1>5. OnceOp(o)'
  <2>1. /\ provider \in Blobs =>
             FirstLabel(c.kind) \in {"blob_upload", "blob_read", "blob_copy",
                                     "blob_delete", "blob_page"}
        /\ provider \notin Blobs =>
             FirstLabel(c.kind) \in {"sidecar", "stat", "rm_object", "walk"}
        /\ c.kind \in Reads => FirstLabel(c.kind) \in {"stat", "blob_read", "blob_copy"}
    BY <1>3 DEF FirstLabel, Reads, Updates
  <2> QED BY <1>2, <1>3, <2>1
          DEF OnceOp, FileLabels, BlobLabels, AfterStat, AfterType
<1>6. ASSUME NEW x \in Ops \ {o} PROVE OnceOp(x)'
  <2>1. OnceOp(x)
    BY DEF OnceInv
  <2>2. ReadKey(x)' = ReadKey(x) /\ Written(x)' = Written(x)
    BY <1>2 DEF ReadKey, Written
  <2> QED BY <1>2, <2>1, <2>2 DEF OnceOp
<1>7. TypedBlobs'
  BY <1>2 DEF OnceInv, TypedBlobs
<1>8. Sources'
  BY <1>2, <1>3 DEF OnceInv, Sources
<1> QED BY <1>4, <1>5, <1>6, <1>7, <1>8 DEF OnceInv

\* No such key has an object at the start.
LEMMA OnceInit == Init => OnceInv
<1> SUFFICES ASSUME Init PROVE OnceInv
  OBVIOUS
<1>1. PICK K \in SUBSET (Keys \ Fresh) :
        object = [k \in Keys |-> IF k \in K THEN Old ELSE None] /\ sidecar = object
  BY DEF Init
<1>2. ASSUME NEW k \in Fresh PROVE OnceKey(k)
  BY <1>1, KeysAssumption DEF Init, OnceKey, Updater, Updates, NoCall
<1>3. ASSUME NEW o \in Ops PROVE OnceOp(o)
  BY DEF Init, OnceOp, NoCall, FileLabels, BlobLabels, AfterStat, AfterType
<1>4. TypedBlobs
  BY <1>1 DEF TypedBlobs
<1>5. Sources
  BY DEF Init, Sources, NoCall
<1> QED BY <1>2, <1>3, <1>4, <1>5, AdapterInit DEF OnceInv

\* Every step keeps OnceInv.
LEMMA OnceStep == OnceInv /\ [Next]_vars => OnceInv'
<1> SUFFICES ASSUME OnceInv, [Next]_vars PROVE OnceInv'
  OBVIOUS
<1>1. AdapterInv'
  BY AdapterStep DEF OnceInv
<1>2. ASSUME NEW o \in Ops, Begin(o) \/ Step(o) PROVE OnceInv'
  <2>1. CASE OpenSource(o)
    <3>1. CASE Dead(ProcessOf[o])
      <4>1. UNCHANGED <<provider, files, call>>
        BY <2>1 DEF OpenSource
      <4>2. CASE UNCHANGED info
        BY <1>1, <3>1, <4>1, <4>2, DeadOnce
      <4>3. CASE ~UNCHANGED info
        <5>1. pc' = pc
          BY <2>1, <4>3 DEF OpenSource
        <5>2. pc'[o] = "crashed" /\ pc[o] # "crashed"
          BY <2>1, <3>1 DEF OpenSource, Dead, InFlight, RunPc
        <5> QED BY <5>1, <5>2
      <4> QED BY <4>2, <4>3
    <3>2. CASE ~Dead(ProcessOf[o])
      BY <1>1, <2>1, <3>2, OpenSourceOnce
    <3> QED BY <3>1, <3>2
  <2>2. CASE IoFails(o)
    BY <1>1, <2>2, OnceEnds DEF IoFails
  <2> QED BY <1>1, <1>2, <2>1, <2>2, BeginOnce, StatOnce, ReadTypeOnce, ReadBodyOnce,
             WriteSidecarOnce, RenameObjectOnce, PutStatOnce, DeleteOnce, ListOnce,
             BlobReadOnce, BlobUploadOnce, BlobCopyOnce
          DEF Step
<1>3. ASSUME NEW p, Crash(p) PROVE OnceInv'
  BY <1>1, <1>3, DeadOnce DEF Crash
<1>4. CASE UNCHANGED vars
  <2>1. /\ object' = object /\ sidecar' = sidecar /\ provider' = provider
        /\ call' = call /\ info' = info /\ pc' = pc
    BY <1>4 DEF vars, files
  <2>2. ASSUME NEW k \in Fresh PROVE OnceKey(k)'
    BY <2>1 DEF OnceInv, OnceKey, Updater
  <2>3. ASSUME NEW o \in Ops PROVE OnceOp(o)'
    BY <2>1 DEF OnceInv, OnceOp, ReadKey, Written
  <2>4. TypedBlobs'
    BY <2>1 DEF OnceInv, TypedBlobs
  <2>5. Sources'
    BY <2>1 DEF OnceInv, Sources
  <2> QED BY <1>1, <2>2, <2>3, <2>4, <2>5 DEF OnceInv
<1> QED BY <1>2, <1>3, <1>4 DEF Next, Rest

-----------------------------------------------------------------------------
(***************************************************************************)
(* The mapping                                                             *)
(***************************************************************************)
\* What ObjectStore sees of one operation.
AskedOf(o) == [call[o] EXCEPT !.from = IF @ \in Fresh THEN @ ELSE 0]

\* The mapping, one operation at a time.
LEMMA BarsAre ==
  ASSUME NEW o \in Ops
  PROVE  /\ askedBar[o] = IF o \notin covered THEN NoCall ELSE AskedOf(o)
         /\ outcomeBar[o] = IF o \notin covered THEN "none"
                            ELSE IF pc[o] = "crashed" THEN "failed" ELSE answer[o]
         /\ answer[o] # "ok" => seenBar[o] = None
         /\ o \notin covered \/ call[o].kind \notin {"get", "stat"} => seenBar[o] = None
         /\ /\ o \in covered /\ answer[o] = "ok" /\ call[o].kind \in {"get", "stat"}
            /\ call[o].kind = "get" => info[o].body = info[o].size
            => seenBar[o] = <<info[o].size, info[o].type>>
BY DEF askedBar, outcomeBar, seenBar, AskedOf

\* An object that is stored once is stored whole.
LEMMA StoredWhole ==
  ASSUME OnceInv, NEW k \in Fresh
  PROVE  /\ object[k] = None => storeBar[k] = None
         /\ object[k] # None =>
              storeBar[k] = Content(k) /\ Content(k) \in Contents /\ storeBar[k] # None
<1>1. k \in Keys
  BY KeysAssumption
<1>2. object[k] \in Writes \cup {None} /\ sidecar[k] \in Types
  BY <1>1 DEF OnceInv, AdapterInv, StoreTypes
<1>3. object[k] # None => sidecar[k] # None
  BY DEF OnceInv, OnceKey
<1> QED BY <1>2, <1>3, ValuesAssumption DEF storeBar, Content, Contents, Types

\* The same, of the state after a step.
LEMMA StoredAfter ==
  ASSUME OnceInv', NEW k \in Fresh, object'[k] # None
  PROVE  storeBar'[k] = Content(k)' /\ Content(k)' \in Contents
<1>1. k \in Keys
  BY KeysAssumption
<1>2. object'[k] \in Writes /\ sidecar'[k] \in Types
  BY <1>1 DEF OnceInv, AdapterInv, StoreTypes
<1>3. sidecar'[k] # None
  BY DEF OnceInv, OnceKey
<1> QED BY <1>2, <1>3 DEF storeBar, Content, Contents, Types

\* An operation under way that ObjectStore sees is running there.
LEMMA RunsThere ==
  ASSUME OnceInv, NEW o \in covered, InFlight(o)
  PROVE  /\ o \in Ops /\ Store!Running(o) /\ answer[o] = "none"
         /\ call[o].kind \in {"put", "copy", "get", "stat"} /\ call[o].key \in Fresh
         /\ askedBar[o].kind = call[o].kind /\ askedBar[o].key = call[o].key
         /\ askedBar[o].from \in Fresh => call[o].kind = "copy" /\ askedBar[o].from = call[o].from
<1>1. o \in Ops /\ call[o].kind \in {"put", "copy", "get", "stat"} /\ call[o].key \in Fresh
  BY DEF covered
<1>2. call[o] \in [kind : Kinds, key : Keys \cup {0}, from : Keys \cup {0}]
  BY <1>1 DEF OnceInv, AdapterInv, StoreTypes
<1>3. /\ AskedOf(o).kind = call[o].kind /\ AskedOf(o).key = call[o].key
      /\ AskedOf(o).from = IF call[o].from \in Fresh THEN call[o].from ELSE 0
  BY <1>2 DEF AskedOf
<1>4. 0 \notin Fresh
  BY KeysAssumption
<1>5. call[o].from \in Fresh => call[o].kind = "copy"
  BY <1>1, <1>4 DEF OnceInv, Sources
<1>6. askedBar[o] = AskedOf(o) /\ pc[o] # "crashed" /\ pc[o] # "done"
  BY <1>1, BarsAre DEF InFlight, RunPc
<1>7. answer[o] = "none" /\ outcomeBar[o] = "none"
  BY <1>1, <1>6, BarsAre DEF OnceInv, AdapterInv, Sensible
<1>8. askedBar[o] # NoCall
  BY <1>1, <1>3, <1>6 DEF NoCall
<1>9. Store!Running(o)
  BY <1>7, <1>8 DEF Store!Running
<1> QED BY <1>1, <1>3, <1>4, <1>5, <1>6, <1>7, <1>9

\* A step of o shows of o only.
LEMMA OthersStay ==
  ASSUME NEW o \in Ops, call' = call,
         \A x \in Ops \ {o} : pc'[x] = pc[x] /\ answer'[x] = answer[x] /\ info'[x] = info[x]
  PROVE  /\ covered' = covered /\ askedBar' = askedBar
         /\ outcomeBar' = [outcomeBar EXCEPT ![o] = outcomeBar'[o]]
         /\ seenBar' = [seenBar EXCEPT ![o] = seenBar'[o]]
         /\ outcomeBar'[o] = outcomeBar[o] => outcomeBar' = outcomeBar
         /\ seenBar'[o] = seenBar[o] => seenBar' = seenBar
<1>1. covered' = covered
  BY DEF covered
<1>2. askedBar' = askedBar
  BY <1>1 DEF askedBar
<1>3. /\ outcomeBar = [x \in Ops |-> outcomeBar[x]] /\ seenBar = [x \in Ops |-> seenBar[x]]
      /\ outcomeBar' = [x \in Ops |-> outcomeBar'[x]]
      /\ seenBar' = [x \in Ops |-> seenBar'[x]]
  BY DEF outcomeBar, seenBar
<1>4. \A x \in Ops \ {o} : outcomeBar'[x] = outcomeBar[x] /\ seenBar'[x] = seenBar[x]
  BY <1>1 DEF outcomeBar, seenBar
<1> QED BY <1>1, <1>2, <1>3, <1>4

\* What is not stored yet may change its type.
LEMMA StoreStays ==
  ASSUME \A k \in Fresh : /\ object'[k] = object[k]
                          /\ object[k] # None => sidecar'[k] = sidecar[k]
  PROVE  storeBar' = storeBar
BY DEF storeBar

\* While an operation goes on, and when it is of another key, nothing is seen.
LEMMA Unseen ==
  ASSUME OnceInv, NEW o \in Ops, InFlight(o), call' = call, storeBar' = storeBar,
         \A x \in Ops \ {o} : pc'[x] = pc[x] /\ answer'[x] = answer[x] /\ info'[x] = info[x],
         o \in covered => InFlight(o)' /\ answer'[o] = answer[o]
  PROVE  UNCHANGED Store!storeVars
<1>1. /\ covered' = covered /\ askedBar' = askedBar
      /\ outcomeBar' = [outcomeBar EXCEPT ![o] = outcomeBar'[o]]
      /\ seenBar' = [seenBar EXCEPT ![o] = seenBar'[o]]
      /\ outcomeBar'[o] = outcomeBar[o] => outcomeBar' = outcomeBar
      /\ seenBar'[o] = seenBar[o] => seenBar' = seenBar
  BY OthersStay
<1>2. CASE o \in covered
  <2>1. answer[o] = "none" /\ pc[o] # "crashed" /\ pc'[o] # "crashed"
    BY <1>2, RunsThere DEF InFlight, RunPc
  <2>2. outcomeBar'[o] = outcomeBar[o] /\ seenBar'[o] = seenBar[o]
    BY <1>1, <1>2, <2>1 DEF outcomeBar, seenBar
  <2> QED BY <1>1, <2>2 DEF Store!storeVars
<1>3. CASE o \notin covered
  <2>1. outcomeBar'[o] = outcomeBar[o] /\ seenBar'[o] = seenBar[o]
    BY <1>1, <1>3 DEF outcomeBar, seenBar
  <2> QED BY <1>1, <2>1 DEF Store!storeVars
<1> QED BY <1>2, <1>3

\* What the answer of o must agree with.
Answered(o, a) ==
  /\ a = "ok" => object[call[o].key] # None
  /\ a = "ok" /\ call[o].kind \in {"get", "stat"} =>
       /\ info'[o].size = object[call[o].key]
       /\ info'[o].type = sidecar[call[o].key]
       /\ call[o].kind = "get" => info'[o].body = object[call[o].key]
  /\ a = "not_found" => call[o].kind \in Reads /\ object[ReadKey(o)] = None

\* The end of an operation is its answer.
LEMMA AnswerSteps ==
  ASSUME OnceInv, NEW o \in Ops, InFlight(o), NEW a \in {"ok", "not_found", "failed"},
         End(o, a), UNCHANGED <<files, call>>, \A x \in Ops \ {o} : info'[x] = info[x],
         o \in covered => Answered(o, a)
  PROVE  [Store!StoreNext]_(Store!storeVars)
<1>1. /\ pc'[o] = "done" /\ answer'[o] = a
      /\ \A x \in Ops \ {o} : pc'[x] = pc[x] /\ answer'[x] = answer[x]
  BY DEF End, OnceInv, AdapterInv, StoreTypes
<1>2. /\ covered' = covered /\ askedBar' = askedBar
      /\ outcomeBar' = [outcomeBar EXCEPT ![o] = outcomeBar'[o]]
      /\ seenBar' = [seenBar EXCEPT ![o] = seenBar'[o]]
      /\ outcomeBar'[o] = outcomeBar[o] => outcomeBar' = outcomeBar
      /\ seenBar'[o] = seenBar[o] => seenBar' = seenBar
  BY <1>1, OthersStay
<1>3. storeBar' = storeBar
  BY StoreStays DEF files
<1>4. CASE o \notin covered
  BY <1>1, <1>3, <1>4, Unseen
<1>5. CASE o \in covered
  <2> DEFINE k == call[o].key
  <2>1. /\ Store!Running(o) /\ answer[o] = "none" /\ k \in Fresh
        /\ call[o].kind \in {"put", "copy", "get", "stat"}
        /\ askedBar[o].kind = call[o].kind /\ askedBar[o].key = k
        /\ askedBar[o].from \in Fresh => call[o].kind = "copy" /\ askedBar[o].from = call[o].from
    BY <1>5, RunsThere
  <2>2. outcomeBar'[o] = a
    BY <1>1, <1>2, <1>5 DEF outcomeBar
  <2>3. seenBar[o] = None
    BY <2>1 DEF seenBar
  <2>4. Answered(o, a)
    BY <1>5
  <2>5. /\ object[k] = None => storeBar[k] = None
        /\ object[k] # None => storeBar[k] = <<object[k], sidecar[k]>> /\ storeBar[k] # None
    BY <2>1, StoredWhole DEF Content
  <2> HIDE DEF k
  <2>6. CASE a = "failed"
    <3>1. seenBar'[o] = None
      BY <1>1, <2>6 DEF seenBar
    <3>2. seenBar' = seenBar
      BY <1>2, <2>3, <3>1
    <3>3. outcomeBar' = [x \in Ops |-> IF x \in {o} THEN "failed" ELSE outcomeBar[x]]
      BY <1>2, <2>2, <2>6 DEF outcomeBar
    <3>4. Store!Fail({o})
      BY <1>2, <1>3, <2>1, <3>2, <3>3 DEF Store!Fail
    <3> QED BY <3>4 DEF Store!StoreNext
  <2>7. CASE a # "failed" /\ call[o].kind \in {"put", "copy"}
    <3>1. seenBar'[o] = None
      BY <1>2, <2>7 DEF seenBar
    <3>2. seenBar' = seenBar
      BY <1>2, <2>3, <3>1
    <3>3. CASE a = "ok"
      <4>1. Store!WriteSucceeds(o)
        BY <1>2, <1>3, <2>1, <2>2, <2>4, <2>5, <2>7, <3>2, <3>3
           DEF Store!WriteSucceeds, Answered, k
      <4> QED BY <4>1 DEF Store!StoreNext
    <3>4. CASE a = "not_found"
      <4>1. call[o].kind = "copy" /\ object[call[o].from] = None
        BY <2>4, <2>7, <3>4 DEF Answered, Reads, ReadKey
      <4>2. askedBar[o].from \in Fresh => storeBar[askedBar[o].from] = None
        BY <2>1, <4>1, StoredWhole
      <4>3. Store!WriteFindsNothing(o)
        BY <1>2, <1>3, <2>1, <2>2, <3>2, <3>4, <4>1, <4>2 DEF Store!WriteFindsNothing
      <4> QED BY <4>3 DEF Store!StoreNext
    <3> QED BY <2>7, <3>3, <3>4
  <2>8. CASE a # "failed" /\ call[o].kind \in {"get", "stat"}
    <3>1. CASE a = "ok"
      <4>1. /\ object[k] # None /\ info'[o].size = object[k] /\ info'[o].type = sidecar[k]
            /\ call[o].kind = "get" => info'[o].body = object[k]
        BY <2>4, <2>8, <3>1 DEF Answered, k
      <4>2. seenBar'[o] = storeBar[k]
        <5>1. seenBar'[o] = <<info'[o].size, info'[o].type>>
          BY <1>1, <1>2, <1>5, <2>8, <3>1, <4>1 DEF seenBar
        <5> QED BY <2>5, <4>1, <5>1
      <4>3. Store!ReadAnswers(o)
        BY <1>2, <1>3, <2>1, <2>2, <2>5, <2>8, <3>1, <4>1, <4>2 DEF Store!ReadAnswers
      <4> QED BY <4>3 DEF Store!StoreNext
    <3>2. CASE a = "not_found"
      <4>1. object[k] = None
        BY <2>4, <2>8, <3>2 DEF Answered, ReadKey, k
      <4>2. seenBar'[o] = None
        BY <1>1, <3>2 DEF seenBar
      <4>3. Store!ReadAnswers(o)
        BY <1>2, <1>3, <2>1, <2>2, <2>5, <2>8, <3>2, <4>1, <4>2 DEF Store!ReadAnswers
      <4> QED BY <4>3 DEF Store!StoreNext
    <3> QED BY <2>8, <3>1, <3>2
  <2> QED BY <2>1, <2>6, <2>7, <2>8
<1> QED BY <1>4, <1>5

\* The step that stores an object is the one that takes effect.
LEMMA StoringSteps ==
  ASSUME OnceInv, OnceInv', NEW o \in Ops, InFlight(o), UNCHANGED <<call, info>>,
         call[o].kind \in {"put", "copy"}, call[o].key \in Keys, pc[o] # "put_stat",
         Goto(o, "put_stat"),
         \A j \in Keys : j # call[o].key => object'[j] = object[j] /\ sidecar'[j] = sidecar[j],
         call[o].key \in Fresh =>
           /\ object'[call[o].key] # None
           /\ call[o].kind = "put" => Content(call[o].key)' = <<o, o>>
           /\ call[o].kind = "copy" /\ call[o].from \in Fresh =>
                object[call[o].from] # None /\ Content(call[o].key)' = Content(call[o].from)
  PROVE  [Store!StoreNext]_(Store!storeVars)
<1> DEFINE k == call[o].key
<1>1. /\ pc'[o] = "put_stat" /\ answer' = answer
      /\ \A x \in Ops \ {o} : pc'[x] = pc[x]
  BY GotoIs DEF Goto, OnceInv, AdapterInv
<1>2. Fresh \subseteq Keys
  BY KeysAssumption
<1>3. CASE k \notin Fresh
  <2>1. storeBar' = storeBar
    BY <1>2, <1>3, StoreStays
  <2>2. o \notin covered
    BY <1>3 DEF covered
  <2> QED BY <1>1, <2>1, <2>2, Unseen
<1>4. CASE k \in Fresh
  <2> DEFINE c == Content(k)'
  <2>1. o \in covered
    BY <1>4 DEF covered
  <2>2. /\ Store!Running(o) /\ answer[o] = "none"
        /\ askedBar[o].kind = call[o].kind /\ askedBar[o].key = k
        /\ askedBar[o].from \in Fresh => call[o].kind = "copy" /\ askedBar[o].from = call[o].from
    BY <2>1, RunsThere
  <2>3. object[k] = None /\ storeBar[k] = None
    BY <1>4, NotYet, StoredWhole DEF Updater, Updates, InFlight, RunPc
  <2>4. object'[k] # None
    BY <1>4
  <2>5. c \in Contents /\ storeBar'[k] = c
    BY <1>4, <2>4, StoredAfter
  <2>6. storeBar' = [storeBar EXCEPT ![k] = c]
    BY <1>2, <1>4, <2>5 DEF storeBar
  <2>7. call[o].kind = "put" => c = <<o, o>>
    BY <1>4
  <2>8. askedBar[o].from \in Fresh => c = storeBar[askedBar[o].from]
    BY <1>4, <2>2, StoredWhole
  <2>9. UNCHANGED <<askedBar, outcomeBar, seenBar>>
    <3>1. /\ covered' = covered /\ askedBar' = askedBar
          /\ outcomeBar'[o] = outcomeBar[o] => outcomeBar' = outcomeBar
          /\ seenBar'[o] = seenBar[o] => seenBar' = seenBar
      BY <1>1, OthersStay
    <3>2. pc[o] # "crashed" /\ pc'[o] # "crashed" /\ answer'[o] = "none"
      BY <1>1, <2>2 DEF InFlight, RunPc
    <3>3. outcomeBar'[o] = outcomeBar[o]
      BY <1>1, <3>1, <3>2 DEF outcomeBar
    <3>4. seenBar'[o] = seenBar[o]
      BY <2>2, <3>2 DEF seenBar
    <3> QED BY <3>1, <3>3, <3>4
  <2> HIDE DEF c, k
  <2>10. Store!TakesEffect(o)
    BY <2>2, <2>3, <2>5, <2>6, <2>7, <2>8, <2>9 DEF Store!TakesEffect
  <2> QED BY <2>10 DEF Store!StoreNext
<1> QED BY <1>3, <1>4

\* A step of an operation that goes on is not seen.
LEMMA GoesOn ==
  ASSUME OnceInv, NEW o \in Ops, InFlight(o), NEW label \in RunPc, Goto(o, label),
         call' = call, \A x \in Ops \ {o} : info'[x] = info[x],
         \A k \in Fresh : /\ object'[k] = object[k]
                          /\ object[k] # None => sidecar'[k] = sidecar[k]
  PROVE  [Store!StoreNext]_(Store!storeVars)
<1>1. pc'[o] = label /\ answer' = answer /\ \A x \in Ops \ {o} : pc'[x] = pc[x]
  BY GotoIs DEF Goto, OnceInv, AdapterInv
<1> QED BY <1>1, StoreStays, Unseen DEF InFlight

\* The death of a process fails what it had under way.
LEMMA DeathSteps ==
  ASSUME OnceInv, NEW p, Dead(p), UNCHANGED <<files, call, info>>
  PROVE  [Store!StoreNext]_(Store!storeVars)
<1> DEFINE S == {x \in covered : InFlight(x) /\ ProcessOf[x] = p}
<1>1. S \subseteq Ops /\ \A x \in S : Store!Running(x) /\ answer[x] = "none"
  BY RunsThere DEF covered
<1>2. /\ covered' = covered /\ askedBar' = askedBar /\ storeBar' = storeBar
      /\ answer' = answer
  BY DEF covered, askedBar, storeBar, files, Dead
<1>3. seenBar' = seenBar
  BY <1>2 DEF seenBar
<1>4. \A x \in Ops : outcomeBar'[x] = IF x \in S THEN "failed" ELSE outcomeBar[x]
  <2>1. \A x \in Ops : pc'[x] = IF InFlight(x) /\ ProcessOf[x] = p THEN "crashed" ELSE pc[x]
    BY DEF Dead
  <2> QED BY <1>2, <2>1 DEF outcomeBar
<1>5. outcomeBar' = [x \in Ops |-> IF x \in S THEN "failed" ELSE outcomeBar[x]]
  <2>1. outcomeBar' = [x \in Ops |-> outcomeBar'[x]]
    BY DEF outcomeBar
  <2> HIDE DEF S
  <2> QED BY <1>4, <2>1
<1> HIDE DEF S
<1>6. Store!Fail(S)
  BY <1>1, <1>2, <1>3, <1>5 DEF Store!Fail
<1> QED BY <1>1, <1>6 DEF Store!StoreNext

\* The start of an operation asks, if it is of such a key.
LEMMA BeginSteps ==
  ASSUME OnceInv, OnceInv', NEW o \in Ops, Begin(o)
  PROVE  [Store!StoreNext]_(Store!storeVars)
<1>1. PICK c \in Requests : BeginsWith(o, c)
  BY BeginIs DEF OnceInv
<1>2. /\ pc[o] = "idle" /\ object' = object /\ sidecar' = sidecar /\ info' = info
      /\ answer' = answer /\ pc'[o] = FirstLabel(c.kind) /\ call'[o] = c
      /\ \A x \in Ops \ {o} : pc'[x] = pc[x] /\ call'[x] = call[x]
  BY <1>1 DEF BeginsWith, OnceInv, AdapterInv, StoreTypes, files
<1>3. answer[o] = "none" /\ call[o] = NoCall /\ o \notin covered
  BY <1>2 DEF OnceInv, AdapterInv, Sensible, covered, NoCall
<1>4. c \in [kind : Reads \cup Updates \cup {"list"}, key : Keys \cup {0},
             from : Keys \cup {0}]
  BY DEF Requests
<1>5. pc'[o] # "crashed"
  BY <1>2, <1>4, FirstLabels DEF Reads, Updates
<1>6. storeBar' = storeBar
  BY <1>2, StoreStays
<1>7. \A x \in Ops \ {o} : x \in covered' <=> x \in covered
  BY <1>2 DEF covered
<1>8. \A x \in Ops : outcomeBar'[x] = outcomeBar[x] /\ seenBar'[x] = seenBar[x]
  <2>1. outcomeBar'[o] = outcomeBar[o] /\ seenBar'[o] = seenBar[o]
    BY <1>2, <1>3, <1>5 DEF outcomeBar, seenBar
  <2>2. ASSUME NEW x \in Ops \ {o}
        PROVE  outcomeBar'[x] = outcomeBar[x] /\ seenBar'[x] = seenBar[x]
    BY <1>2, <1>7 DEF outcomeBar, seenBar
  <2> QED BY <2>1, <2>2
<1>9. outcomeBar' = outcomeBar /\ seenBar' = seenBar
  <2>1. /\ outcomeBar = [x \in Ops |-> outcomeBar[x]] /\ seenBar = [x \in Ops |-> seenBar[x]]
        /\ outcomeBar' = [x \in Ops |-> outcomeBar'[x]]
        /\ seenBar' = [x \in Ops |-> seenBar'[x]]
    BY DEF outcomeBar, seenBar
  <2> QED BY <1>8, <2>1
<1>10. \A x \in Ops \ {o} : askedBar'[x] = askedBar[x]
  BY <1>2, <1>7 DEF askedBar
<1>11. /\ askedBar = [x \in Ops |-> askedBar[x]] /\ askedBar' = [x \in Ops |-> askedBar'[x]]
       /\ askedBar[o] = NoCall
  BY <1>3 DEF askedBar
<1>12. CASE o \notin covered'
  <2>1. askedBar'[o] = NoCall
    BY <1>12 DEF askedBar
  <2> QED BY <1>6, <1>9, <1>10, <1>11, <2>1 DEF Store!storeVars
<1>13. CASE o \in covered'
  <2> DEFINE asks == [c EXCEPT !.from = IF @ \in Fresh THEN @ ELSE 0]
  <2>1. askedBar'[o] = asks
    BY <1>2, <1>13 DEF askedBar
  <2>2. c.kind \in {"put", "copy", "get", "stat"} /\ c.key \in Fresh
    BY <1>2, <1>13 DEF covered
  <2>3. asks \in Store!Calls
    BY <1>4, <2>2 DEF Store!Calls
  <2> HIDE DEF asks
  <2>4. askedBar' = [askedBar EXCEPT ![o] = asks]
    BY <1>10, <1>11, <2>1
  <2>5. Store!Ask(o)
    BY <1>6, <1>9, <1>11, <2>3, <2>4 DEF Store!Ask
  <2> QED BY <2>5 DEF Store!StoreNext
<1> QED BY <1>12, <1>13

-----------------------------------------------------------------------------
(***************************************************************************)
(* The steps of the adapters and of the store                             *)
(***************************************************************************)
LEMMA ReadSteps ==
  ASSUME OnceInv, NEW o \in Ops,
         Stat(o) \/ ReadType(o) \/ ReadBody(o) \/ BlobRead(o)
  PROVE  [Store!StoreNext]_(Store!storeVars)
<1> DEFINE k == ReadKey(o)
<1>1. /\ InFlight(o) /\ call[o].kind \in Reads /\ UNCHANGED <<files, call>>
      /\ OnceOp(o) /\ StoreTypes
  BY DEF Stat, ReadType, ReadBody, BlobRead, At, InFlight, RunPc, OnceInv, AdapterInv,
         Sensible, ReadLabels, Reads
<1>2. object' = object /\ sidecar' = sidecar /\ call' = call
  BY <1>1 DEF files
<1>3. call[o].kind \in {"get", "stat"} => k = call[o].key
  BY DEF ReadKey
<1>4. o \in covered => call[o].key \in Fresh
  BY DEF covered
<1>5. ASSUME NEW label \in RunPc, Goto(o, label), \A x \in Ops \ {o} : info'[x] = info[x]
      PROVE  [Store!StoreNext]_(Store!storeVars)
  BY <1>1, <1>2, <1>5, GoesOn
<1>6. CASE Stat(o)
  <2>1. CASE object[k] = None /\ End(o, "not_found") /\ UNCHANGED info
    BY <1>1, <2>1, AnswerSteps DEF Answered
  <2>2. CASE Learn(o, "size", object[k]) /\ Goto(o, "type")
    BY <1>1, <1>5, <2>2, LearnOnce DEF RunPc
  <2> QED BY <1>6, <2>1, <2>2 DEF Stat
<1>7. CASE ReadType(o)
  <2> DEFINE type == IF sidecar[k] = None THEN DefaultType ELSE sidecar[k]
  <2>1. Learn(o, "type", type) /\ pc[o] = "type"
    BY <1>7 DEF ReadType, At
  <2>2. /\ info'[o].type = type /\ info'[o].size = info[o].size
        /\ \A x \in Ops \ {o} : info'[x] = info[x]
    BY <1>1, <2>1, LearnOnce
  <2>3. CASE call[o].kind = "stat" /\ End(o, "ok")
    <3>1. SUFFICES ASSUME o \in covered PROVE Answered(o, "ok")
      BY <1>1, <2>2, <2>3, AnswerSteps
    <3>2. object[k] # None /\ info[o].size = object[k] /\ k = call[o].key /\ k \in Fresh
      BY <1>1, <1>3, <1>4, <2>1, <2>3, <3>1 DEF OnceOp, AfterStat
    <3>3. sidecar[k] # None
      BY <3>2 DEF OnceInv, OnceKey
    <3> QED BY <2>2, <2>3, <3>2, <3>3 DEF Answered
  <2>4. ASSUME NEW label \in {"body", "sidecar"}, Goto(o, label)
        PROVE  [Store!StoreNext]_(Store!storeVars)
    BY <1>5, <2>2, <2>4 DEF RunPc
  <2> QED BY <1>1, <1>7, <2>3, <2>4 DEF ReadType, Reads
<1>8. CASE ReadBody(o)
  <2>1. pc[o] = "body"
    BY <1>8 DEF ReadBody, At
  <2>2. CASE End(o, "failed") /\ UNCHANGED info
    BY <1>1, <2>2, AnswerSteps DEF Answered
  <2>3. CASE /\ object[k] # None /\ Learn(o, "body", object[k])
             /\ IF call[o].kind = "get" THEN End(o, "ok") ELSE Goto(o, "sidecar")
    <3>1. /\ info'[o].body = object[k] /\ info'[o].size = info[o].size
          /\ info'[o].type = info[o].type /\ \A x \in Ops \ {o} : info'[x] = info[x]
      BY <1>1, <2>3, LearnOnce
    <3>2. CASE call[o].kind = "get" /\ End(o, "ok")
      <4>1. SUFFICES ASSUME o \in covered PROVE Answered(o, "ok")
        BY <1>1, <3>1, <3>2, AnswerSteps
      <4>2. info[o].size = object[k] /\ info[o].type = sidecar[k] /\ k = call[o].key
        BY <1>1, <1>3, <1>4, <2>1, <3>2, <4>1 DEF OnceOp, AfterStat, AfterType
      <4> QED BY <2>3, <3>1, <3>2, <4>2 DEF Answered
    <3>3. CASE Goto(o, "sidecar")
      BY <1>5, <3>1, <3>3 DEF RunPc
    <3> QED BY <2>3, <3>2, <3>3
  <2> QED BY <1>8, <2>2, <2>3 DEF ReadBody
<1>9. CASE BlobRead(o)
  <2> DEFINE read == [size |-> object[k], type |-> sidecar[k], body |-> object[k]]
  <2>1. CASE object[k] = None /\ End(o, "not_found") /\ UNCHANGED info
    BY <1>1, <2>1, AnswerSteps DEF Answered
  <2>2. CASE /\ object[k] # None /\ info' = [info EXCEPT ![o] = read]
             /\ IF call[o].kind = "copy" THEN Goto(o, "blob_upload") ELSE End(o, "ok")
    <3>1. info'[o] = read /\ \A x \in Ops \ {o} : info'[x] = info[x]
      BY <1>1, <2>2 DEF StoreTypes
    <3>2. CASE Goto(o, "blob_upload")
      BY <1>5, <3>1, <3>2 DEF RunPc
    <3>3. CASE call[o].kind # "copy" /\ End(o, "ok")
      <4>1. k = call[o].key
        BY <3>3 DEF ReadKey
      <4>2. Answered(o, "ok")
        BY <2>2, <3>1, <4>1 DEF Answered
      <4> QED BY <1>1, <3>1, <3>3, <4>2, AnswerSteps
    <3> QED BY <2>2, <3>2, <3>3
  <2> QED BY <1>9, <2>1, <2>2 DEF BlobRead
<1> QED BY <1>6, <1>7, <1>8, <1>9

\* A write takes effect when its object appears, and succeeds when it is there.
LEMMA WriteSteps ==
  ASSUME OnceInv, OnceInv', NEW o \in Ops,
         WriteSidecar(o) \/ RenameObject(o) \/ PutStat(o) \/ BlobUpload(o) \/ BlobCopy(o)
  PROVE  [Store!StoreNext]_(Store!storeVars)
<1> DEFINE k == call[o].key
<1>1. /\ InFlight(o) /\ UNCHANGED <<call, info>> /\ OnceOp(o) /\ StoreTypes
      /\ call[o].kind \in {"put", "copy"} /\ k \in Keys /\ Updater(o, k)
  BY DEF WriteSidecar, RenameObject, PutStat, BlobUpload, BlobCopy, At, InFlight, RunPc,
         OnceInv, AdapterInv, Sensible, WriteLabels, Updater, Updates
<1>2. Fresh \subseteq Keys
  BY KeysAssumption
<1>3. CASE WriteSidecar(o)
  <2>1. /\ pc[o] = "sidecar" /\ Goto(o, "object") /\ object' = object
        /\ sidecar' = [sidecar EXCEPT ![k] = Written(o)[2]]
    BY <1>3 DEF WriteSidecar, At
  <2>2. k \in Fresh => object[k] = None
    BY <1>1, <2>1, NotYet
  <2>3. \A j \in Keys : j # k => sidecar'[j] = sidecar[j]
    BY <1>1, <2>1 DEF StoreTypes
  <2> QED BY <1>1, <1>2, <2>1, <2>2, <2>3, GoesOn DEF RunPc
<1>4. CASE RenameObject(o)
  <2>1. /\ pc[o] = "object" /\ Goto(o, "put_stat") /\ sidecar' = sidecar
        /\ Written(o)[1] # None /\ object' = [object EXCEPT ![k] = Written(o)[1]]
    BY <1>4 DEF RenameObject, SetObject, At
  <2>2. /\ object'[k] = Written(o)[1]
        /\ \A j \in Keys : j # k => object'[j] = object[j]
    BY <1>1, <2>1 DEF StoreTypes
  <2>3. k \in Fresh => sidecar[k] = Written(o)[2]
    BY <1>1, <2>1 DEF OnceOp
  <2>4. call[o].kind = "put" => Written(o) = <<o, o>>
    BY DEF Written
  <2>5. call[o].kind = "copy" /\ call[o].from \in Fresh =>
          /\ object[call[o].from] # None
          /\ Written(o)[1] = object[call[o].from] /\ Written(o)[2] = sidecar[call[o].from]
    BY <1>1, <2>1 DEF OnceOp, Written, ReadKey, Reads, AfterStat, AfterType
  <2> QED BY <1>1, <2>1, <2>2, <2>3, <2>4, <2>5, StoringSteps DEF Content
<1>5. CASE PutStat(o)
  <2>1. PICK a \in {"ok", "failed"} : End(o, a)
    BY <1>5 DEF PutStat
  <2>2. pc[o] = "put_stat" /\ files' = files
    BY <1>5 DEF PutStat, At
  <2>3. o \in covered => Answered(o, a)
    BY <1>1, <2>1, <2>2 DEF covered, Answered, OnceOp
  <2> QED BY <1>1, <2>1, <2>2, <2>3, AnswerSteps
<1>6. CASE BlobUpload(o)
  <2>1. /\ pc[o] = "blob_upload" /\ Goto(o, "put_stat")
        /\ object' = [object EXCEPT ![k] = Written(o)[1]]
        /\ sidecar' = [sidecar EXCEPT ![k] = Written(o)[2]]
    BY <1>6 DEF BlobUpload, SetBlob, SetObject
  <2>2. /\ object'[k] = Written(o)[1] /\ sidecar'[k] = Written(o)[2]
        /\ \A j \in Keys : j # k => object'[j] = object[j] /\ sidecar'[j] = sidecar[j]
    BY <1>1, <2>1 DEF StoreTypes
  <2>3. Written(o)[1] # None
    BY <2>1, WrittenWhole
  <2>4. call[o].kind = "put" => Written(o) = <<o, o>>
    BY DEF Written
  <2>5. call[o].kind = "copy" /\ call[o].from \in Fresh =>
          /\ object[call[o].from] # None
          /\ Written(o)[1] = object[call[o].from] /\ Written(o)[2] = sidecar[call[o].from]
    BY <1>1, <2>1 DEF OnceOp, Written, ReadKey, Reads, AfterStat, AfterType
  <2> QED BY <1>1, <2>1, <2>2, <2>3, <2>4, <2>5, StoringSteps DEF Content
<1>7. CASE BlobCopy(o)
  <2> DEFINE from == call[o].from
  <2>1. pc[o] = "blob_copy" /\ call[o].kind = "copy"
    BY <1>7 DEF BlobCopy, OnceInv, AdapterInv, Sensible
  <2>2. CASE object[from] = None /\ End(o, "not_found") /\ UNCHANGED files
    <3>1. Answered(o, "not_found")
      BY <2>1, <2>2 DEF Answered, Reads, ReadKey
    <3> QED BY <1>1, <2>2, <3>1, AnswerSteps
  <2>3. CASE /\ object[from] # None /\ Goto(o, "put_stat")
             /\ SetBlob(k, <<object[from], sidecar[from]>>)
    <3>1. /\ object' = [object EXCEPT ![k] = object[from]]
          /\ sidecar' = [sidecar EXCEPT ![k] = sidecar[from]]
      BY <2>3 DEF SetBlob, SetObject
    <3>2. /\ object'[k] = object[from] /\ sidecar'[k] = sidecar[from]
          /\ \A j \in Keys : j # k => object'[j] = object[j] /\ sidecar'[j] = sidecar[j]
      BY <1>1, <3>1 DEF StoreTypes
    <3> QED BY <1>1, <2>1, <2>3, <3>2, StoringSteps DEF Content
  <2> QED BY <1>7, <2>2, <2>3 DEF BlobCopy
<1> QED BY <1>3, <1>4, <1>5, <1>6, <1>7

\* Deletes and lists are not ObjectStore's.
LEMMA OtherSteps ==
  ASSUME OnceInv, NEW o \in Ops,
         \/ RmObject(o) \/ RmSidecar(o) \/ BlobDelete(o)
         \/ Walk(o) \/ ListStat(o) \/ Page(o) \/ BlobPage(o)
  PROVE  [Store!StoreNext]_(Store!storeVars)
<1>1. InFlight(o) /\ call' = call /\ info' = info /\ StoreTypes
  BY DEF RmObject, RmSidecar, BlobDelete, Walk, ListStat, Page, BlobPage, At, InFlight,
         RunPc, OnceInv, AdapterInv
<1>2. call[o].kind \in {"delete", "list"}
  BY DEF RmObject, RmSidecar, BlobDelete, Walk, ListStat, Page, BlobPage, At,
         OnceInv, AdapterInv, Sensible, DeleteLabels
<1>3. \A k \in Fresh : object'[k] = object[k] /\ sidecar'[k] = sidecar[k]
  <2>1. CASE RmObject(o) \/ RmSidecar(o) \/ BlobDelete(o)
    <3>1. call[o].kind = "delete"
      BY <2>1 DEF RmObject, RmSidecar, BlobDelete, At, OnceInv, AdapterInv, Sensible,
                  DeleteLabels
    <3>2. call[o].key \notin Fresh /\ Fresh \subseteq Keys
      BY <3>1, NotDeleted, KeysAssumption
    <3> QED BY <1>1, <2>1, <3>2
            DEF RmObject, RmSidecar, BlobDelete, SetBlob, SetObject, StoreTypes
  <2>2. CASE Walk(o) \/ ListStat(o) \/ Page(o) \/ BlobPage(o)
    BY <2>2 DEF Walk, ListStat, Page, BlobPage, files
  <2> QED BY <2>1, <2>2
<1>4. \A x \in Ops \ {o} : pc'[x] = pc[x] /\ answer'[x] = answer[x]
  BY <1>1 DEF RmObject, RmSidecar, BlobDelete, Walk, ListStat, Page, BlobPage, HandOut,
              Goto, End, StoreTypes
<1>5. o \notin covered
  BY <1>2 DEF covered
<1> QED BY <1>1, <1>3, <1>4, <1>5, StoreStays, Unseen

\* The adapters start as the store does.
LEMMA StoreInits == Init => Store!StoreInit
<1> SUFFICES ASSUME Init PROVE Store!StoreInit
  OBVIOUS
<1>1. PICK K \in SUBSET (Keys \ Fresh) :
        object = [k \in Keys |-> IF k \in K THEN Old ELSE None]
  BY DEF Init
<1>2. covered = {}
  BY DEF Init, covered, NoCall
<1>3. storeBar = [k \in Fresh |-> None]
  BY <1>1, KeysAssumption DEF storeBar
<1> QED BY <1>2, <1>3 DEF askedBar, outcomeBar, seenBar, Store!StoreInit

\* Every step of the adapters is a step of the store or none.
LEMMA StoreSteps ==
  OnceInv /\ OnceInv' /\ [Next]_vars => [Store!StoreNext]_(Store!storeVars)
<1> SUFFICES ASSUME OnceInv, OnceInv', [Next]_vars
             PROVE  [Store!StoreNext]_(Store!storeVars)
  OBVIOUS
<1>1. ASSUME NEW o \in Ops, Begin(o) \/ Step(o)
      PROVE  [Store!StoreNext]_(Store!storeVars)
  <2>1. CASE IoFails(o)
    BY <2>1, AnswerSteps DEF IoFails, Answered
  <2>2. CASE OpenSource(o)
    <3>1. InFlight(o) /\ UNCHANGED <<files, call>> /\ StoreTypes
      BY <2>2 DEF OpenSource, InFlight, RunPc, OnceInv, AdapterInv
    <3>2. CASE End(o, "failed") /\ UNCHANGED info
      BY <3>1, <3>2, AnswerSteps DEF Answered
    <3>3. CASE Dead(ProcessOf[o]) /\ UNCHANGED info
      BY <3>1, <3>3, DeathSteps
    <3>4. CASE /\ Learn(o, "body", object[call[o].from])
               /\ UNCHANGED <<pc, answer, settled, alone>>
      <4>1. \A x \in Ops \ {o} : info'[x] = info[x]
        BY <3>1, <3>4, LearnOnce
      <4> QED BY <3>1, <3>4, <4>1, StoreStays, Unseen DEF files, InFlight
    <3> QED BY <2>2, <3>2, <3>3, <3>4 DEF OpenSource
  <2> QED BY <1>1, <2>1, <2>2, BeginSteps, ReadSteps, WriteSteps, OtherSteps DEF Step
<1>2. ASSUME NEW p, Crash(p) PROVE [Store!StoreNext]_(Store!storeVars)
  BY <1>2, DeathSteps DEF Crash
<1>3. CASE UNCHANGED vars
  BY <1>3 DEF vars, files, Store!storeVars, storeBar, askedBar, outcomeBar, seenBar, covered
<1> QED BY <1>1, <1>2, <1>3 DEF Next, Rest

(***************************************************************************)
(* Every adapter, whatever fails or dies, implements the store of          *)
(* ObjectStore on the keys that are written once: the object appears at    *)
(* one instant with its bytes and its type, and a reader sees nothing or   *)
(* all of it.                                                              *)
(***************************************************************************)
THEOREM AdaptersAreStores == Spec => ImplementsObjectStore
BY OnceInit, OnceStep, StoreInits, StoreSteps, PTL
   DEF Spec, ImplementsObjectStore, Store!StoreSpec

=============================================================================
