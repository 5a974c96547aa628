---------------------------- MODULE ResponseCache ----------------------------
(***************************************************************************)
(* The stale-while-revalidate response cache of backend/cache.py: request  *)
(* threads in the wrapper of cache_response, and the workers of the        *)
(* two-thread refresh pool, over one process-local dictionary.             *)
(*                                                                         *)
(* The database is a version number; an endpoint's result is the oldest    *)
(* version that its queries read.  Each critical section of _guard and     *)
(* _registry_guard is one atomic step, as is each per-key lock operation.  *)
(* A request with fresh=1 goes past the cache and changes nothing in it.   *)
(***************************************************************************)
EXTENDS Integers, Sequences, FiniteSets

CONSTANTS
  Key,       \* cache keys: an endpoint with its query parameters
  Thread,    \* request threads
  Worker,    \* threads of _refresh_pool
  NoCaller,  \* the holder of a lock that is free
  MaxData,   \* bound: commits of the ingest
  MaxQueue,  \* bound: warm_common() adds no job to a longer queue
  MaxLapses, \* bound: entries that outlive the TTL
  MaxFaults  \* bound: endpoint calls that raise

ASSUME CallerAssumption == Thread \cap Worker = {} /\ NoCaller \notin Thread \cup Worker
ASSUME CacheBoundAssumption == {MaxData, MaxQueue, MaxLapses, MaxFaults} \subseteq Nat

Caller  == Thread \cup Worker
Version == 0 .. MaxData

VARIABLES
  data,        \* what the last commit left in the database
  published,   \* what it held at the last invalidate()
  generation,  \* _TTLCache._generation
  cached,      \* keys of _TTLCache._items
  value,       \* the cached results
  stamp,       \* the generation each result was put under
  expired,     \* cached keys whose timestamp is older than the TTL
  lock,        \* _key_locks
  refreshing,  \* _refreshing
  queue,       \* jobs submitted to _refresh_pool and not yet taken
  pc,          \* of each caller: what it does next
  key,         \* of each caller: the key it works on
  result,      \* of each caller: what fn(**kwargs) returned
  lapses,      \* entries that have outlived the TTL so far
  faults       \* endpoint calls that have raised so far

source  == <<data, published>>
entries == <<cached, value, stamp, expired>>
pool    == <<refreshing, queue>>
caller  == <<pc, key, result>>
bounds  == <<lapses, faults>>
vars == <<source, generation, entries, lock, pool, caller, bounds>>

Job == [job : {"refresh", "warm"}, key : Key]

(* lookup .. store: in the wrapper, as a request or for warm(); refresh,   *)
(* put, discard: in the _run of _schedule_refresh.                         *)
Step == {"idle", "lookup", "wait", "recheck", "query", "store",
         "refresh", "put", "discard"}

(* Every variable keeps its type; only a cached entry can have expired.    *)
TypeOK ==
  /\ {data, published, generation} \subseteq Version
  /\ cached \subseteq Key /\ expired \subseteq cached
  /\ value \in [Key -> Version]
  /\ stamp \in [Key -> Version]
  /\ lock \in [Key -> Caller \cup {NoCaller}]
  /\ refreshing \subseteq Key
  /\ queue \in Seq(Job)
  /\ pc \in [Caller -> Step]
  /\ key \in [Caller -> Key]
  /\ result \in [Caller -> Version]
  /\ lapses \in 0 .. MaxLapses /\ faults \in 0 .. MaxFaults

Init ==
  /\ data = 0 /\ published = 0 /\ generation = 0
  /\ cached = {} /\ expired = {}
  /\ value = [k \in Key |-> 0]
  /\ stamp = [k \in Key |-> 0]
  /\ lock = [k \in Key |-> NoCaller]
  /\ refreshing = {} /\ queue = <<>>
  /\ pc = [c \in Caller |-> "idle"]
  /\ \E k \in Key : key = [c \in Caller |-> k]
  /\ result = [c \in Caller |-> 0]
  /\ lapses = 0 /\ faults = 0

Goes(c, from, to) == pc[c] = from /\ pc' = [pc EXCEPT ![c] = to]

(***************************************************************************)
(* The ingest and the clock                                                *)
(***************************************************************************)
Commit ==
  /\ data < MaxData
  /\ data' = data + 1
  /\ UNCHANGED <<published, generation, entries, lock, pool, caller, bounds>>

AnyRun == TRUE                                            \* mutant
ChangedData == published < data

(* Only an ingest that changed data calls it.                              *)
Invalidate ==
  /\ ChangedData
  /\ published' = data
  /\ generation' = generation + 1
  /\ UNCHANGED <<data, entries, lock, pool, caller, bounds>>

(* warm_common() at the end of an ingest: a call of the wrapper, queued.   *)
Warm(k) ==
  /\ Len(queue) < MaxQueue
  /\ queue' = Append(queue, [job |-> "warm", key |-> k])
  /\ UNCHANGED <<source, generation, entries, lock, refreshing, caller, bounds>>

Lapse(k) ==
  /\ k \in cached \ expired
  /\ lapses < MaxLapses /\ lapses' = lapses + 1
  /\ expired' = expired \cup {k}
  /\ UNCHANGED <<source, generation, cached, value, stamp, lock, pool, caller, faults>>

(***************************************************************************)
(* The dictionary                                                          *)
(***************************************************************************)
Hit(k)   == k \in cached \ expired
Stale(k) == stamp[k] # generation

(* get_entry: an expired entry is dropped by whoever looks at it.          *)
GetEntry(k) ==
  /\ cached' = IF k \in expired THEN cached \ {k} ELSE cached
  /\ expired' = expired \ {k}
  /\ value' = IF k \in expired THEN [value EXCEPT ![k] = 0] ELSE value
  /\ stamp' = IF k \in expired THEN [stamp EXCEPT ![k] = 0] ELSE stamp

(* put stamps the generation of now, whatever it was when fn was called.   *)
Put(k, v) ==
  /\ cached' = cached \cup {k}
  /\ expired' = expired \ {k}
  /\ value' = [value EXCEPT ![k] = v]
  /\ stamp' = [stamp EXCEPT ![k] = generation]

(* _schedule_refresh: at most once concurrently.                           *)
RefreshEveryHit(k) ==                                     \* mutant
  /\ refreshing' = refreshing \cup {k}
  /\ queue' = Append(queue, [job |-> "refresh", key |-> k])
ScheduleRefresh(k) ==
  IF k \in refreshing THEN UNCHANGED pool
  ELSE /\ refreshing' = refreshing \cup {k}
       /\ queue' = Append(queue, [job |-> "refresh", key |-> k])

(***************************************************************************)
(* The wrapper of cache_response                                           *)
(***************************************************************************)
Request(t, k) ==
  /\ Goes(t, "idle", "lookup")
  /\ key' = [key EXCEPT ![t] = k]
  /\ UNCHANGED <<source, generation, entries, lock, pool, result, bounds>>

Lookup(c) ==
  /\ pc[c] = "lookup"
  /\ GetEntry(key[c])
  /\ \/ Hit(key[c]) /\ Goes(c, "lookup", "idle")
     \/ ~ Hit(key[c]) /\ Goes(c, "lookup", "wait")
  /\ IF Hit(key[c]) /\ Stale(key[c]) THEN ScheduleRefresh(key[c]) ELSE UNCHANGED pool
  /\ UNCHANGED <<source, generation, lock, key, result, bounds>>

Acquire(c) ==
  /\ Goes(c, "wait", "recheck")
  /\ lock[key[c]] = NoCaller
  /\ lock' = [lock EXCEPT ![key[c]] = c]
  /\ UNCHANGED <<source, generation, entries, pool, key, result, bounds>>

Release(c) == lock' = [lock EXCEPT ![key[c]] = NoCaller]

ComputesAlways(k) == TRUE                                 \* mutant
Computes(k) == ~ Hit(k)

(* Under the lock: another thread may have populated the entry meanwhile,  *)
(* and then its value is returned, stale or not.                           *)
Recheck(c) ==
  /\ pc[c] = "recheck"
  /\ GetEntry(key[c])
  /\ \/ Computes(key[c]) /\ Goes(c, "recheck", "query") /\ UNCHANGED lock
     \/ ~ Computes(key[c]) /\ Goes(c, "recheck", "idle") /\ Release(c)
  /\ UNCHANGED <<source, generation, pool, key, result, bounds>>

Query(c) ==
  /\ Goes(c, "query", "store")
  /\ result' = [result EXCEPT ![c] = data]
  /\ UNCHANGED <<source, generation, entries, lock, pool, key, bounds>>

QueryFails(c) ==
  /\ Goes(c, "query", "idle")
  /\ faults < MaxFaults /\ faults' = faults + 1
  /\ Release(c)
  /\ UNCHANGED <<source, generation, entries, pool, key, result, lapses>>

Store(c) ==
  /\ Goes(c, "store", "idle")
  /\ Put(key[c], result[c])
  /\ result' = [result EXCEPT ![c] = 0]
  /\ Release(c)
  /\ UNCHANGED <<source, generation, pool, key, bounds>>

(***************************************************************************)
(* The refresh pool                                                        *)
(***************************************************************************)
TakeJob(w) ==
  /\ queue # <<>>
  /\ Goes(w, "idle", IF Head(queue).job = "warm" THEN "lookup" ELSE "refresh")
  /\ key' = [key EXCEPT ![w] = Head(queue).key]
  /\ queue' = Tail(queue)
  /\ UNCHANGED <<source, generation, entries, lock, refreshing, result, bounds>>

Refresh(w) ==
  /\ Goes(w, "refresh", "put")
  /\ result' = [result EXCEPT ![w] = data]
  /\ UNCHANGED <<source, generation, entries, lock, pool, key, bounds>>

AfterFailureForgets == "idle"                             \* mutant
AfterFailure == "discard"

(* The failed refresh leaves the entry in place; finally discards the key. *)
RefreshFails(w) ==
  /\ Goes(w, "refresh", AfterFailure)
  /\ faults < MaxFaults /\ faults' = faults + 1
  /\ UNCHANGED <<source, generation, entries, lock, pool, key, result, lapses>>

PutRefreshed(w) ==
  /\ Goes(w, "put", "discard")
  /\ Put(key[w], result[w])
  /\ result' = [result EXCEPT ![w] = 0]
  /\ UNCHANGED <<source, generation, lock, pool, key, bounds>>

Discard(w) ==
  /\ Goes(w, "discard", "idle")
  /\ refreshing' = refreshing \ {key[w]}
  /\ UNCHANGED <<source, generation, entries, lock, queue, key, result, bounds>>

(***************************************************************************)
(* Specification                                                           *)
(***************************************************************************)
InCall(c) ==
  \/ Lookup(c) \/ Acquire(c) \/ Recheck(c) \/ Query(c) \/ QueryFails(c) \/ Store(c)
InPool(w) ==
  \/ TakeJob(w) \/ Refresh(w) \/ RefreshFails(w) \/ PutRefreshed(w) \/ Discard(w)

Next ==
  \/ Commit \/ Invalidate
  \/ \E k \in Key : Warm(k) \/ Lapse(k) \/ (\E t \in Thread : Request(t, k))
  \/ \E c \in Caller : InCall(c)
  \/ \E w \in Worker : InPool(w)

(* Threads run on, and a lock is not withheld for ever from a waiting one. *)
Fairness ==
  /\ \A c \in Caller : WF_vars(InCall(c))
  /\ \A w \in Worker : WF_vars(InPool(w))

Spec     == Init /\ [][Next]_vars
FairSpec == Spec /\ Fairness

(***************************************************************************)
(* Properties                                                              *)
(***************************************************************************)
Queued(k) == {i \in DOMAIN queue : queue[i] = [job |-> "refresh", key |-> k]}
Running(k) == {w \in Worker : pc[w] \in {"refresh", "put", "discard"} /\ key[w] = k}

(* A key is in _refreshing exactly while one refresh of it, and no more, is*)
(* queued or running: none is lost, and none is left behind to suppress    *)
(* every later refresh of the key.                                         *)
OneRefresh ==
  \A k \in Key : Cardinality(Queued(k)) + Cardinality(Running(k)) =
                 (IF k \in refreshing THEN 1 ELSE 0)

(* A burst of cold requests runs the query once: as long as no entry       *)
(* lapses, nobody computes a key inline beside another who does, or once   *)
(* the key has an entry.                                                   *)
SingleFlight ==
  lapses = 0 =>
    \A c \in Caller : pc[c] \in {"query", "store"} =>
      /\ key[c] \notin cached
      /\ \A d \in Caller \ {c} : pc[d] \in {"query", "store"} => key[d] # key[c]

(* What is cached for a key never gives way to a result of older data, as  *)
(* long as no entry lapses while a refresh of it runs.                     *)
NeverOlder ==
  [][lapses = 0 => \A k \in cached : value'[k] >= value[k]]_vars

(* Every call of the wrapper and every job of the pool comes to an end:    *)
(* locks are returned, also by calls that raise, and a pool worker that    *)
(* waits for a lock never waits for a thread that needs the pool.          *)
CallsEnd ==
  /\ \A c \in Caller : pc[c] # "idle" ~> pc[c] = "idle"
  /\ \A k \in Key : k \in refreshing ~> k \notin refreshing

(* After invalidate() no entry that dates from before the ingest reads as  *)
(* fresh ("Ingest marks entries stale").                                   *)
FreshIsCurrent ==
  \A k \in Key : Hit(k) /\ ~ Stale(k) => value[k] >= published
=============================================================================
