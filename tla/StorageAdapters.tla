-------------------------- MODULE StorageAdapters --------------------------
(***************************************************************************)
(* The storage adapters (packages/storage-adapter/src/adapters), each as   *)
(* the calls it makes, under concurrent operations of several processes.   *)
(*                                                                         *)
(*   local.ts, sftp.ts, webdav.ts   an object is two files: the bytes, and *)
(*                        a sidecar with the content type.  Each is        *)
(*                        written to a temporary file and moved in place.  *)
(*   s3.ts, azure-blob.ts           an object is one blob of a service.    *)
(*                                                                         *)
(* A put is named by its operation, and so are the bytes and the content   *)
(* type it stores.  No operation reads a temporary file, so writing one is *)
(* a part of the step that moves it.  A call that fails after it took      *)
(* effect is the effect and then IoFails.                                  *)
(***************************************************************************)
EXTENDS Integers, SequencesExt

CONSTANTS
  Ops,        \* the operations; each runs once
  ProcessOf,  \* ProcessOf[o]: the process that runs o
  Keys,       \* the object keys, in the order list sorts them
  Fresh,      \* the keys that are written once and not deleted
  Providers,  \* the adapters of this instance
  Old,        \* the write that stored what is there initially
  None,
  DefaultType,  \* application/octet-stream
  Unsettled,
  Limit,      \* how many objects a page holds
  Faults,     \* a subset of {"io", "crash"}
  MaxFaults   \* how many faults happen (bound)

Blobs == {"s3", "azure"}
Writes == Ops \cup {Old}
Contents == Writes \X (Writes \cup {DefaultType})

ASSUME KeysAssumption == Keys \subseteq Nat \ {0} /\ Fresh \subseteq Keys
ASSUME FiniteKeys == IsFiniteSet(Keys)
ASSUME ProvidersAssumption == Providers \subseteq {"local", "sftp", "webdav"} \cup Blobs
ASSUME ValuesAssumption ==
  /\ {Old, None, DefaultType, Unsettled} \cap Ops = {}
  /\ None \notin {Old, DefaultType, Unsettled} /\ None \notin Contents
ASSUME LimitAssumption == Limit \in Nat \ {0} /\ MaxFaults \in Nat

VARIABLES
  provider,  \* the adapter, chosen by the configuration
  object,    \* object[k]: whose bytes are stored under k, or None
  sidecar,   \* sidecar[k]: whose content type is stored with k, or None
  pc,        \* pc[o]: the call that o makes next
  call,      \* call[o]: what o was asked to do
  info,      \* info[o]: what o has read
  answer,    \* answer[o]: how o ended
  listing,   \* listing[o]: how far a list has come
  faults,    \* how many faults have happened
  settled,   \* settled[k]: what k must hold, if that is certain (history)
  alone,     \* alone[o]: no other write of its key overlapped o (history)
  expect     \* expect[o]: what o must find, if that is certain (history)

files == <<object, sidecar>>
history == <<settled, alone, expect>>
vars == <<provider, files, pc, call, info, answer, listing, faults, history>>

-----------------------------------------------------------------------------
(***************************************************************************)
(* Types                                                                   *)
(***************************************************************************)
RunPc == {"stat", "type", "body", "sidecar", "object", "put_stat", "rm_object",
          "rm_sidecar", "walk", "walking", "list_stat", "blob_read",
          "blob_upload", "blob_copy", "blob_delete", "blob_page"}

NoCall == [kind |-> "none", key |-> 0, from |-> 0]
Reads == {"get", "stat", "copy"}
Updates == {"put", "copy", "delete"}

NoInfo == [size |-> None, type |-> None, body |-> None]
Absent == <<None, None>>

\* todo: directories to read; found: keys to stat; there: keys that had an
\* object; steady, ever: keys that had one all along, at any time (history).
NoListing == [todo |-> {}, found |-> {}, there |-> {}, cursor |-> 0,
              pages |-> <<>>, steady |-> {}, ever |-> {}]

Init ==
  /\ provider \in Providers
  /\ \E K \in SUBSET (Keys \ Fresh) :
       /\ object = [k \in Keys |-> IF k \in K THEN Old ELSE None]
       /\ sidecar = object
       /\ settled = [k \in Keys |-> <<object[k], object[k]>>]
  /\ pc = [o \in Ops |-> "idle"]
  /\ call = [o \in Ops |-> NoCall]
  /\ info = [o \in Ops |-> NoInfo]
  /\ answer = [o \in Ops |-> "none"]
  /\ listing = [o \in Ops |-> NoListing]
  /\ faults = 0
  /\ alone = [o \in Ops |-> FALSE]
  /\ expect = [o \in Ops |-> Unsettled]

-----------------------------------------------------------------------------
(***************************************************************************)
(* What the steps are made of                                              *)
(***************************************************************************)
InFlight(o) == pc[o] \in RunPc
ReadKey(o) == IF call[o].kind = "copy" THEN call[o].from ELSE call[o].key
Writers(k) == {x \in Ops : InFlight(x) /\ call[x].kind \in Updates /\ call[x].key = k}
Present == {k \in Keys : object[k] # None}

\* copy does not pass on the content type.
Written_NoType(o) == IF call[o].kind = "put" THEN <<o, o>> ELSE <<info[o].body, DefaultType>>

\* What o writes: a put its own bytes and type, a copy what it has read.
Written(o) == IF call[o].kind = "put" THEN <<o, o>> ELSE <<info[o].body, info[o].type>>

(***************************************************************************)
(* An operation of SFTP runs its sections one at a time with the others of *)
(* its process; these labels are in the middle of a section.               *)
(***************************************************************************)
Turn(o) ==
  provider = "sftp" =>
    \A x \in Ops \ {o} :
      ProcessOf[x] = ProcessOf[o] => pc[x] \notin {"object", "type", "rm_sidecar", "walking"}

At(o, label) == pc[o] = label /\ Turn(o)
Goto(o, label) == pc' = [pc EXCEPT ![o] = label] /\ UNCHANGED <<answer, settled, alone>>

\* A write that succeeded alone settles its key.
End(o, a) ==
  /\ pc' = [pc EXCEPT ![o] = "done"]
  /\ answer' = [answer EXCEPT ![o] = a]
  /\ settled' =
       IF a = "ok" /\ call[o].kind \in Updates /\ alone[o]
       THEN [settled EXCEPT ![call[o].key] = CASE call[o].kind = "put" -> <<o, o>>
                                               [] call[o].kind = "delete" -> Absent
                                               [] call[o].kind = "copy" -> expect[o]]
       ELSE settled
  /\ alone' = [alone EXCEPT ![o] = FALSE]

Learn(o, field, value) == info' = [info EXCEPT ![o][field] = value]

SetObject(k, w) ==
  /\ object' = [object EXCEPT ![k] = w]
  /\ listing' = [x \in Ops |->
       IF ~(InFlight(x) /\ call[x].kind = "list") THEN listing[x]
       ELSE IF w = None THEN [listing[x] EXCEPT !.steady = @ \ {k}]
       ELSE [listing[x] EXCEPT !.ever = @ \cup {k}]]

SetBlob(k, content) ==
  /\ SetObject(k, content[1])
  /\ sidecar' = [sidecar EXCEPT ![k] = content[2]]

-----------------------------------------------------------------------------
(***************************************************************************)
(* The start of an operation                                               *)
(***************************************************************************)
FirstLabel(kind) ==
  IF provider \in Blobs
  THEN CASE kind = "put" -> "blob_upload"
         [] kind \in {"get", "stat"} -> "blob_read"
         [] kind = "copy" -> IF provider = "s3" THEN "blob_copy" ELSE "blob_read"
         [] kind = "delete" -> "blob_delete"
         [] kind = "list" -> "blob_page"
  ELSE CASE kind = "put" -> "sidecar"
         [] kind \in Reads -> "stat"
         [] kind = "delete" -> "rm_object"
         [] kind = "list" -> "walk"

Allowed(c) ==
  /\ c.kind = "list" <=> c.key = 0
  /\ IF c.kind = "copy" THEN c.from \in Keys \ {c.key} ELSE c.from = 0
  /\ c.key \in Fresh /\ c.kind \in Updates =>
       /\ c.kind # "delete"
       /\ \A x \in Ops : ~(call[x].kind \in Updates /\ call[x].key = c.key)

Requests == {c \in [kind : Reads \cup Updates \cup {"list"}, key : Keys \cup {0},
                    from : Keys \cup {0}] : Allowed(c)}

Begin(o) ==
  /\ pc[o] = "idle"
  /\ \E c \in Requests :
       /\ call' = [call EXCEPT ![o] = c]
       /\ pc' = [pc EXCEPT ![o] = FirstLabel(c.kind)]
       /\ LET from == IF c.kind = "copy" THEN c.from ELSE c.key
              change == c.kind \in Updates
              disturbed == IF change
                           THEN {x \in Ops : InFlight(x) /\ call[x].kind \in Reads
                                             /\ ReadKey(x) = c.key}
                           ELSE {}
              rivals == IF change THEN Writers(c.key) ELSE {} IN
          /\ expect' = [x \in Ops |->
               IF x = o THEN IF c.kind \in Reads THEN settled[from] ELSE Unsettled
               ELSE IF x \in disturbed THEN Unsettled ELSE expect[x]]
          /\ alone' = [x \in Ops |-> IF x = o THEN change /\ rivals = {}
                                     ELSE alone[x] /\ x \notin rivals]
          /\ settled' = IF change THEN [settled EXCEPT ![c.key] = Unsettled] ELSE settled
       /\ listing' = IF c.kind = "list"
                     THEN [listing EXCEPT ![o].todo = Keys, ![o].steady = Present,
                                          ![o].ever = Present]
                     ELSE listing
  /\ UNCHANGED <<provider, faults, files, info, answer>>

-----------------------------------------------------------------------------
(***************************************************************************)
(* local, sftp and webdav: stat, get and the first half of copy            *)
(***************************************************************************)
Stat(o) ==
  /\ At(o, "stat")
  /\ LET k == ReadKey(o) IN
     \/ /\ object[k] = None
        /\ End(o, "not_found")
        /\ UNCHANGED info
     \/ /\ object[k] # None
        /\ Learn(o, "size", object[k])
        /\ Goto(o, "type")
  /\ UNCHANGED <<provider, faults, files, call, listing, expect>>

(***************************************************************************)
(* local's copy hands an open stream to put, which writes the sidecar      *)
(* before it reads the stream; sftp and webdav read the bytes first.       *)
(***************************************************************************)
ReadType(o) ==
  /\ At(o, "type")
  /\ LET type == sidecar[ReadKey(o)] IN
     Learn(o, "type", IF type = None THEN DefaultType ELSE type)
  /\ CASE call[o].kind = "stat" -> End(o, "ok")
       [] call[o].kind = "get" -> Goto(o, "body")
       [] call[o].kind = "copy" -> Goto(o, IF provider = "local" THEN "sidecar" ELSE "body")
  /\ UNCHANGED <<provider, faults, files, call, listing, expect>>

\* An object that has gone since the stat is an error of the stream.
ReadBody(o) ==
  /\ At(o, "body")
  /\ LET bytes == object[ReadKey(o)] IN
     \/ /\ bytes = None
        /\ End(o, "failed")
        /\ UNCHANGED info
     \/ /\ bytes # None
        /\ Learn(o, "body", bytes)
        /\ IF call[o].kind = "get" THEN End(o, "ok") ELSE Goto(o, "sidecar")
  /\ UNCHANGED <<provider, faults, files, call, listing, expect>>

Dead(p) ==
  /\ pc' = [x \in Ops |-> IF InFlight(x) /\ ProcessOf[x] = p THEN "crashed" ELSE pc[x]]
  /\ alone' = [x \in Ops |-> alone[x] /\ pc'[x] # "crashed"]
  /\ UNCHANGED <<answer, settled>>

(***************************************************************************)
(* createReadStream opens the file by itself, at any time after get.  When *)
(* it finds none and put has not attached the stream to its pipeline, the  *)
(* stream's error has no listener and ends the process.                    *)
(***************************************************************************)
OpenSource(o) ==
  /\ provider = "local" /\ call[o].kind = "copy" /\ info[o].body = None
  /\ pc[o] \in {"sidecar", "object"}
  /\ LET bytes == object[call[o].from] IN
     \/ bytes # None /\ Learn(o, "body", bytes) /\ UNCHANGED <<pc, answer, settled, alone>>
     \/ bytes = None /\ Dead(ProcessOf[o]) /\ UNCHANGED info
     \/ bytes = None /\ pc[o] = "object" /\ End(o, "failed") /\ UNCHANGED info
  /\ UNCHANGED <<provider, faults, files, call, listing, expect>>

(***************************************************************************)
(* put: the sidecar, the object, and a stat                                *)
(***************************************************************************)
\* A sidecar that cannot be written is let pass.
WriteSidecar_BestEffort(o) ==
  /\ At(o, "sidecar")
  /\ \/ sidecar' = [sidecar EXCEPT ![call[o].key] = Written(o)[2]]
     \/ UNCHANGED sidecar
  /\ Goto(o, "object")
  /\ UNCHANGED <<provider, faults, object, call, info, listing, expect>>

WriteSidecar(o) ==
  /\ At(o, "sidecar")
  /\ sidecar' = [sidecar EXCEPT ![call[o].key] = Written(o)[2]]
  /\ Goto(o, "object")
  /\ UNCHANGED <<provider, faults, object, call, info, listing, expect>>

RenameObject(o) ==
  /\ At(o, "object")
  /\ Written(o)[1] # None
  /\ SetObject(call[o].key, Written(o)[1])
  /\ Goto(o, "put_stat")
  /\ UNCHANGED <<provider, faults, sidecar, call, info, expect>>

\* Of the five, only s3's put succeeds when its object has gone meanwhile.
PutStat(o) ==
  /\ At(o, "put_stat")
  /\ End(o, IF object[call[o].key] # None \/ (provider = "s3" /\ call[o].kind = "put")
            THEN "ok" ELSE "failed")
  /\ UNCHANGED <<provider, faults, files, call, info, listing, expect>>

RmObject(o) ==
  /\ At(o, "rm_object")
  /\ SetObject(call[o].key, None)
  /\ Goto(o, "rm_sidecar")
  /\ UNCHANGED <<provider, faults, sidecar, call, info, expect>>

\* delete removes the object and leaves its sidecar.
RmSidecar_Left(o) ==
  /\ At(o, "rm_sidecar")
  /\ End(o, "ok")
  /\ UNCHANGED <<provider, faults, files, call, info, listing, expect>>

RmSidecar(o) ==
  /\ At(o, "rm_sidecar")
  /\ sidecar' = [sidecar EXCEPT ![call[o].key] = None]
  /\ End(o, "ok")
  /\ UNCHANGED <<provider, faults, object, call, info, listing, expect>>

-----------------------------------------------------------------------------
(***************************************************************************)
(* list, by a caller that follows the cursor to the end                    *)
(***************************************************************************)
\* Each key is in a directory of its own; they are read one at a time.
Walk(o) ==
  /\ pc[o] \in {"walk", "walking"} /\ Turn(o)
  /\ \E k \in listing[o].todo :
       /\ listing' = [listing EXCEPT ![o].todo = @ \ {k},
                                     ![o].found = @ \cup ({k} \cap Present)]
       /\ Goto(o, IF listing[o].todo = {k} THEN "list_stat" ELSE "walking")
  /\ UNCHANGED <<provider, faults, files, call, info, expect>>

ListStat(o) ==
  /\ At(o, "list_stat")
  /\ listing[o].found # {}
  /\ LET k == Min(listing[o].found) IN
     listing' = [listing EXCEPT ![o].found = @ \ {k},
                                ![o].there = @ \cup ({k} \cap Present)]
  /\ UNCHANGED <<provider, faults, files, pc, call, info, answer, history>>

\* The next page starts with the last key of this one.
PageOf_FromCursor(keys, cursor) ==
  LET rest == {k \in keys : k >= cursor} IN
  {k \in rest : Cardinality({x \in rest : x < k}) < Limit}

\* The first Limit keys after the cursor.
PageOf(keys, cursor) ==
  LET rest == {k \in keys : k > cursor} IN
  {k \in rest : Cardinality({x \in rest : x < k}) < Limit}

MoreAfter(keys, cursor) == Cardinality({k \in keys : k > cursor}) > Limit

\* The keys of a page, sorted.
InOrder(S) ==
  CHOOSE s \in [1..Cardinality(S) -> S] :
    /\ Range(s) = S
    /\ \A i, j \in DOMAIN s : i < j => s[i] < s[j]

\* Hands out the page; the caller asks for the next one or is done.
HandOut(o, keys, again) ==
  LET page == PageOf(keys, listing[o].cursor)
      more == MoreAfter(keys, listing[o].cursor) IN
  /\ listing' = [listing EXCEPT ![o].pages = @ \o InOrder(page),
                                ![o].cursor = IF more THEN Max(page) ELSE 0,
                                ![o].todo = IF more THEN Keys ELSE {},
                                ![o].there = {}]
  /\ IF more THEN Goto(o, again) ELSE End(o, "ok")

Page(o) ==
  /\ pc[o] = "list_stat" /\ listing[o].found = {}
  /\ HandOut(o, listing[o].there, "walk")
  /\ UNCHANGED <<provider, faults, files, call, info, expect>>

-----------------------------------------------------------------------------
(***************************************************************************)
(* s3 and azure                                                            *)
(***************************************************************************)
BlobRead(o) ==
  /\ pc[o] = "blob_read"
  /\ LET k == ReadKey(o) IN
     \/ /\ object[k] = None
        /\ End(o, "not_found")
        /\ UNCHANGED info
     \/ /\ object[k] # None
        /\ info' = [info EXCEPT ![o] = [size |-> object[k], type |-> sidecar[k],
                                        body |-> object[k]]]
        /\ IF call[o].kind = "copy" THEN Goto(o, "blob_upload") ELSE End(o, "ok")
  /\ UNCHANGED <<provider, faults, files, call, listing, expect>>

BlobUpload(o) ==
  /\ pc[o] = "blob_upload"
  /\ SetBlob(call[o].key, Written(o))
  /\ Goto(o, "put_stat")
  /\ UNCHANGED <<provider, faults, call, info, expect>>

BlobCopy(o) ==
  /\ pc[o] = "blob_copy"
  /\ LET from == call[o].from IN
     \/ /\ object[from] = None
        /\ End(o, "not_found")
        /\ UNCHANGED <<files, listing>>
     \/ /\ object[from] # None
        /\ SetBlob(call[o].key, <<object[from], sidecar[from]>>)
        /\ Goto(o, "put_stat")
  /\ UNCHANGED <<provider, faults, call, info, expect>>

BlobDelete(o) ==
  /\ pc[o] = "blob_delete"
  /\ SetBlob(call[o].key, Absent)
  /\ End(o, "ok")
  /\ UNCHANGED <<provider, faults, call, info, expect>>

BlobPage(o) ==
  /\ pc[o] = "blob_page"
  /\ HandOut(o, Present, "blob_page")
  /\ UNCHANGED <<provider, faults, files, call, info, expect>>

-----------------------------------------------------------------------------
(***************************************************************************)
(* Faults, and the specification                                           *)
(***************************************************************************)
Fault == faults < MaxFaults /\ faults' = faults + 1

IoFails(o) ==
  /\ "io" \in Faults /\ Fault
  /\ InFlight(o) /\ Turn(o)
  /\ End(o, "failed")
  /\ UNCHANGED <<provider, files, call, info, listing, expect>>

Crash(p) ==
  /\ "crash" \in Faults /\ Fault
  /\ \E o \in Ops : InFlight(o) /\ ProcessOf[o] = p
  /\ Dead(p)
  /\ UNCHANGED <<provider, files, call, info, listing, expect>>

Step(o) ==
  \/ Stat(o) \/ ReadType(o) \/ ReadBody(o) \/ OpenSource(o)
  \/ WriteSidecar(o) \/ RenameObject(o) \/ PutStat(o)
  \/ RmObject(o) \/ RmSidecar(o)
  \/ Walk(o) \/ ListStat(o) \/ Page(o)
  \/ BlobRead(o) \/ BlobUpload(o) \/ BlobCopy(o) \/ BlobDelete(o) \/ BlobPage(o)
  \/ IoFails(o)

Rest == (\A o \in Ops : pc[o] \in {"done", "crashed"}) /\ UNCHANGED vars

Next ==
  \/ \E o \in Ops : Begin(o) \/ Step(o)
  \/ \E p \in {ProcessOf[o] : o \in Ops} : Crash(p)
  \/ Rest

Spec == Init /\ [][Next]_vars
-----------------------------------------------------------------------------
(***************************************************************************)
(* Properties                                                              *)
(***************************************************************************)
\* A put, copy or delete that succeeded with no other write of its key under
\* way determines the bytes and the content type of the key until the next
\* write begins, whatever failed or died before it (put, delete and copy of
\* every adapter, which leave two files behind in the file adapters).
SerialWriteWins ==
  \A k \in Keys : settled[k] # Unsettled => <<object[k], sidecar[k]>> = settled[k]

\* A get, stat or copy whose key was settled and not written while it ran
\* answers "not found" exactly when there is nothing, and the bytes and type
\* of the last write otherwise (get and stat of every adapter).
UndisturbedReadIsExact ==
  \A o \in Ops :
    expect[o] # Unsettled =>
      /\ answer[o] = "not_found" => expect[o] = Absent
      /\ answer[o] = "ok" => expect[o] # Absent
      /\ answer[o] = "ok" /\ call[o].kind \in {"get", "stat"} =>
           <<info[o].size, info[o].type>> = expect[o]
      /\ answer[o] = "ok" /\ call[o].kind = "get" => info[o].body = expect[o][1]

\* The pages of a list, put together, are in order and without duplicates,
\* hold every key that had an object all along and none that never had one,
\* although the file adapters read the store again for each page (list,
\* paginateSorted in body.ts).
ListingIsComplete ==
  \A o \in Ops :
    call[o].kind = "list" /\ answer[o] = "ok" =>
      LET pages == listing[o].pages IN
      /\ \A i \in 2..Len(pages) : pages[i - 1] < pages[i]
      /\ listing[o].steady \subseteq {pages[i] : i \in DOMAIN pages}
      /\ {pages[i] : i \in DOMAIN pages} \subseteq listing[o].ever

\* What a get answers is of one write: its size, its type and its bytes
\* ("a concurrent reader sees the old or the new object, never a mix",
\* types.ts, put).
NeverAMix ==
  \A o \in Ops :
    call[o].kind = "get" /\ answer[o] = "ok" =>
      info[o].size = info[o].type /\ info[o].type = info[o].body
=============================================================================
