--------------------------- MODULE TranscriptCache ---------------------------
(***************************************************************************)
(* The transcript endpoint and its cache (_IdleLRU of backend/cache.py,    *)
(* get_transcript of backend/api_sessions.py).  Request threads share one  *)
(* ordered dictionary and one byte counter without a lock, so another      *)
(* thread may run between any two dictionary operations, and between       *)
(* reading and writing the counter.                                        *)
(*                                                                         *)
(* A session's main file is a version number; its ETag is the pair of      *)
(* session and version, and the length of a body is that of its version.   *)
(***************************************************************************)
EXTENDS Integers, FiniteSetsExt, SequencesExt

CONSTANTS
  Session, Thread,
  MaxVersion,  \* bound: uploads of a session's main file
  Length,      \* Length[v]: bytes of a body at version v
  MaxBytes,    \* max_bytes of the cache
  MaxRequests  \* bound: requests

ASSUME SessionAssumption == Session # {}
ASSUME LengthAssumption == /\ MaxVersion \in Nat \ {0} /\ MaxBytes \in Nat
                           /\ Length \in [1 .. MaxVersion -> Nat \ {0}]
                           /\ MaxRequests \in Nat

Version == 1 .. MaxVersion
Etag == Session \X Version

VARIABLES
  bucket,    \* newest version of each session's main file
  row,       \* version whose ETag the files row holds
  order,     \* keys of _items, least recently used first
  body,      \* version of each cached body
  idle,      \* cached keys not touched for idle_seconds
  size,      \* _size
  pc,        \* of each thread: what it does next
  tag,       \* of each thread: the ETag of its row
  data,      \* of each thread: the version of the body it holds
  stale,     \* of each thread: the keys _evict_idle has yet to drop
  delta,     \* of each thread: what its next += adds to the counter
  then,      \* of each thread: where it goes after that
  loaded,    \* of each thread: the counter as += has read it
  requests,  \* requests so far
  raced      \* two threads have been in the cache at once

world  == <<bucket, row>>
lru    == <<order, body, idle>>
local  == <<tag, data, stale>>
adding == <<delta, then, loaded>>
vars == <<world, lru, size, pc, local, adding, requests, raced>>

InPut == {"scan", "evict", "check", "replace", "shrink", "popOldest", "insert"}
Step == {"idle", "get", "touch", "move", "fetch", "load", "store"} \cup InPut
InCache(p) == p \notin {"idle", "get", "fetch"}
Items == ToSet(order)

NoTag == CHOOSE e \in Etag : TRUE

(* No key is twice in the dictionary, and each variable has its type.      *)
TypeOK ==
  /\ bucket \in [Session -> Version] /\ row \in [Session -> Version]
  /\ order \in Seq(Etag) /\ IsInjective(order)
  /\ body \in [Etag -> Version] /\ idle \subseteq Items
  /\ size \in Int
  /\ pc \in [Thread -> Step] /\ then \in [Thread -> Step]
  /\ tag \in [Thread -> Etag] /\ data \in [Thread -> Version]
  /\ stale \in [Thread -> SUBSET Etag]
  /\ delta \in [Thread -> Int] /\ loaded \in [Thread -> Int]
  /\ requests \in 0 .. MaxRequests /\ raced \in BOOLEAN

Init ==
  /\ bucket = [s \in Session |-> 1] /\ row = [s \in Session |-> 1]
  /\ order = <<>> /\ idle = {} /\ size = 0
  /\ body = [e \in Etag |-> e[2]]
  /\ pc = [t \in Thread |-> "idle"] /\ then = [t \in Thread |-> "idle"]
  /\ tag = [t \in Thread |-> NoTag]
  /\ data = [t \in Thread |-> 1] /\ stale = [t \in Thread |-> {}]
  /\ delta = [t \in Thread |-> 0] /\ loaded = [t \in Thread |-> 0]
  /\ requests = 0 /\ raced = FALSE

Goes(t, from, to) ==
  /\ pc[t] = from /\ pc' = [pc EXCEPT ![t] = to]
  /\ raced' = (raced \/ (InCache(to) /\ \E u \in Thread \ {t} : InCache(pc[u])))

(* The locals of a request are gone once it has returned.                  *)
Forgets(t, to) ==
  IF to = "idle"
  THEN /\ tag' = [tag EXCEPT ![t] = NoTag] /\ data' = [data EXCEPT ![t] = 1]
       /\ stale' = [stale EXCEPT ![t] = {}]
  ELSE UNCHANGED local

(***************************************************************************)
(* The world                                                               *)
(***************************************************************************)
Upload(s) ==
  /\ bucket[s] < MaxVersion
  /\ bucket' = [bucket EXCEPT ![s] = @ + 1]
  /\ UNCHANGED <<row, lru, size, pc, local, adding, requests, raced>>

Ingest(s) ==
  /\ row' = [row EXCEPT ![s] = bucket[s]] /\ row' # row
  /\ UNCHANGED <<bucket, lru, size, pc, local, adding, requests, raced>>

GoIdle(e) ==
  /\ e \in Items \ idle
  /\ idle' = idle \cup {e}
  /\ UNCHANGED <<world, order, body, size, pc, local, adding, requests, raced>>

(***************************************************************************)
(* The dictionary and the counter                                          *)
(***************************************************************************)
AssignAtEnd(e, v) ==                                            \* mutant
  /\ order' = Append(order, e) /\ body' = [body EXCEPT ![e] = v] /\ idle' = idle \ {e}
(* _items[key] = (data, now): in place, or at the end when it is new.      *)
Assign(e, v) ==
  /\ order' = IF e \in Items THEN order ELSE Append(order, e)
  /\ body' = [body EXCEPT ![e] = v]
  /\ idle' = idle \ {e}

Drop(e) == order' = RemoveFirst(order, e) /\ idle' = idle \ {e} /\ UNCHANGED body

(* _size += n, then on to next: two steps, Load and Store.                 *)
Account(t, n, next) ==
  /\ Goes(t, pc[t], "load")
  /\ delta' = [delta EXCEPT ![t] = n] /\ then' = [then EXCEPT ![t] = next]
  /\ UNCHANGED loaded

Load(t) ==
  /\ Goes(t, "load", "store")
  /\ loaded' = [loaded EXCEPT ![t] = size]
  /\ UNCHANGED <<world, lru, size, local, delta, then, requests>>

Store(t) ==
  /\ Goes(t, "store", then[t])
  /\ size' = loaded[t] + delta[t]
  /\ delta' = [delta EXCEPT ![t] = 0] /\ then' = [then EXCEPT ![t] = "idle"]
  /\ loaded' = [loaded EXCEPT ![t] = 0]
  /\ Forgets(t, then[t])
  /\ UNCHANGED <<world, lru, requests>>

(***************************************************************************)
(* get_transcript and _IdleLRU.get                                         *)
(***************************************************************************)
Request(t) ==
  /\ requests < MaxRequests /\ requests' = requests + 1
  /\ Goes(t, "idle", "get")
  /\ \E s \in Session : tag' = [tag EXCEPT ![t] = <<s, row[s]>>]
  /\ UNCHANGED <<world, lru, size, data, stale, adding>>

Hit(t) ==
  /\ tag[t] \in Items
  /\ Goes(t, "get", "touch")
  /\ data' = [data EXCEPT ![t] = body[tag[t]]]
  /\ UNCHANGED <<world, lru, size, tag, stale, adding, requests>>

Miss(t) ==
  /\ tag[t] \notin Items
  /\ Goes(t, "get", "fetch")
  /\ UNCHANGED <<world, lru, size, local, adding, requests>>

(* Puts back, uncounted, what another thread evicted since the lookup.     *)
Touch(t) ==
  /\ Goes(t, "touch", "move")
  /\ Assign(tag[t], data[t])
  /\ UNCHANGED <<world, size, local, adding, requests>>

MoveToEnd(t) ==
  /\ tag[t] \in Items
  /\ Goes(t, "move", "idle")
  /\ order' = Append(RemoveFirst(order, tag[t]), tag[t])
  /\ Forgets(t, "idle")
  /\ UNCHANGED <<world, body, idle, size, adding, requests>>

(* The object is fetched by name: it may be newer than the row's ETag.     *)
AnyCachedBody(t) ==                                             \* mutant
  LET s == tag[t][1] IN
  IF \E e \in Items : e[1] = s THEN body[CHOOSE e \in Items : e[1] = s] ELSE bucket[s]
FetchedBody(t) == bucket[tag[t][1]]

Fetch(t) ==
  /\ Goes(t, "fetch", "scan")
  /\ data' = [data EXCEPT ![t] = FetchedBody(t)]
  /\ UNCHANGED <<world, lru, size, tag, stale, adding, requests>>

(***************************************************************************)
(* _IdleLRU.put, and the answer                                            *)
(***************************************************************************)
Scan(t) ==
  /\ Goes(t, "scan", "evict")
  /\ stale' = [stale EXCEPT ![t] = idle]
  /\ UNCHANGED <<world, lru, size, tag, data, adding, requests>>

EvictIdle(t) ==
  /\ pc[t] = "evict"
  /\ \E e \in stale[t] \cap Items :
       /\ stale' = [stale EXCEPT ![t] = @ \ {e}]
       /\ Drop(e)
       /\ Account(t, -Length[body[e]], "evict")
  /\ UNCHANGED <<world, size, tag, data, requests>>

EvictedAll(t) ==
  /\ stale[t] = {}
  /\ Goes(t, "evict", "check")
  /\ UNCHANGED <<world, lru, size, local, adding, requests>>

Check(t) ==
  /\ Goes(t, "check", IF tag[t] \in Items THEN "replace" ELSE "shrink")
  /\ UNCHANGED <<world, lru, size, local, adding, requests>>

Replace(t) ==
  /\ pc[t] = "replace" /\ tag[t] \in Items
  /\ Drop(tag[t])
  /\ Account(t, -Length[body[tag[t]]], "shrink")
  /\ UNCHANGED <<world, size, local, requests>>

ShrinkLate(t) == size > MaxBytes /\ order # <<>>                \* mutant
ShrinkEmpty(t) == size + Length[data[t]] > MaxBytes             \* mutant
MustShrink(t) == size + Length[data[t]] > MaxBytes /\ order # <<>>

Shrink(t) ==
  /\ Goes(t, "shrink", IF MustShrink(t) THEN "popOldest" ELSE "insert")
  /\ UNCHANGED <<world, lru, size, local, adding, requests>>

PopOldest(t) ==
  /\ pc[t] = "popOldest" /\ order # <<>>
  /\ Drop(order[1])
  /\ Account(t, -Length[body[order[1]]], "shrink")
  /\ UNCHANGED <<world, size, local, requests>>

Insert(t) ==
  /\ pc[t] = "insert"
  /\ Assign(tag[t], data[t])
  /\ Account(t, Length[data[t]], "idle")
  /\ UNCHANGED <<world, size, local, requests>>

(* Another thread took what this one was about to take (KeyError), or      *)
(* changed the dictionary while this one iterated over it (RuntimeError):  *)
(* the request is answered with an error.                                  *)
LostRace(t) ==
  \/ pc[t] \in {"move", "replace"} /\ tag[t] \notin Items
  \/ pc[t] = "evict" /\ ~ (stale[t] \subseteq Items)
  \/ pc[t] = "popOldest" /\ order = <<>>
  \/ pc[t] = "scan" /\ \E u \in Thread \ {t} : InCache(pc[u])

(* The bucket may not answer either.                                       *)
Fail(t) ==
  /\ LostRace(t) \/ pc[t] = "fetch"
  /\ Goes(t, pc[t], "idle")
  /\ Forgets(t, "idle")
  /\ UNCHANGED <<world, lru, size, adding, requests>>

ThreadStep(t) ==
  \/ Load(t) \/ Store(t) \/ Hit(t) \/ Miss(t) \/ Touch(t) \/ MoveToEnd(t)
  \/ Fetch(t) \/ Scan(t) \/ EvictIdle(t) \/ EvictedAll(t) \/ Check(t)
  \/ Replace(t) \/ Shrink(t) \/ PopOldest(t) \/ Insert(t) \/ Fail(t)

Next ==
  \/ \E s \in Session : Upload(s) \/ Ingest(s)
  \/ \E e \in Etag : GoIdle(e)
  \/ \E t \in Thread : Request(t) \/ ThreadStep(t)

Spec == Init /\ [][Next]_vars

(***************************************************************************)
(* Properties                                                              *)
(***************************************************************************)
Bytes == SumFunctionOnSet([e \in Etag |-> Length[body[e]]], Items)
Quiet == \A t \in Thread : pc[t] = "idle"
WithinCap == Bytes <= MaxBytes \/ Len(order) <= 1

(* A body cached or served under an ETag is never older than the upload    *)
(* the ETag names, however get, put and evictions interleave with uploads  *)
(* and ingests.                                                            *)
NeverOlderThanEtag ==
  /\ \A e \in Items : e[2] <= body[e] /\ body[e] <= bucket[e[1]]
  /\ \A t \in Thread : pc[t] \in {"touch", "move", "insert"} =>
       tag[t][2] <= data[t] /\ data[t] <= bucket[tag[t][1]]

(* Without overlap the counter is the sum of the bodies and the cap holds, *)
(* except for a single body that is larger than the cap.                   *)
QuietAccounting == Quiet /\ ~raced => size = Bytes /\ WithinCap

(* No dictionary operation fails for a request that runs alone: what get   *)
(* and put take out of the dictionary is there.                            *)
FailsOnlyRaced == (\E t \in Thread : LostRace(t)) => raced
=============================================================================
