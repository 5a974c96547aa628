------------------------ MODULE ResponseCache_proofs ------------------------
(***************************************************************************)
(* One refresh and one inline computation of a key at a time, and no older *)
(* result in place of a newer one: for any keys, request threads, pool     *)
(* workers and numbers of commits, failures and lapses.                    *)
(***************************************************************************)
EXTENDS ResponseCache, SequenceTheorems, FiniteSetTheorems, TLAPS

(* The cache is never ahead of the database.                               *)
Ordered ==
  /\ generation <= published /\ published <= data
  /\ \A k \in Key : value[k] <= data
  /\ \A c \in Caller : result[c] <= data

Computing(c) == pc[c] \in {"query", "store"}

(* Whoever is past the lock of its key holds it.                           *)
LockHeld ==
  \A c \in Caller : pc[c] \in {"recheck", "query", "store"} => lock[key[c]] = c

(* OneRefresh without counting.                                            *)
RefreshOnce ==
  \A k \in Key :
    IF k \in refreshing
    THEN \/ Running(k) = {} /\ \E i \in DOMAIN queue : Queued(k) = {i}
         \/ Queued(k) = {} /\ \E w \in Worker : Running(k) = {w}
    ELSE Queued(k) = {} /\ Running(k) = {}

(* While no entry lapses, only cached keys are refreshed and only others   *)
(* computed inline, and what a refresh brings is not older than the entry. *)
Settled ==
  lapses = 0 =>
    /\ expired = {}
    /\ refreshing \subseteq cached
    /\ \A c \in Caller : Computing(c) => key[c] \notin cached
    /\ \A w \in Worker : pc[w] = "put" => value[key[w]] <= result[w]

IInv == TypeOK /\ Ordered /\ LockHeld /\ RefreshOnce /\ Settled

LEMMA WorkersCall == Worker \subseteq Caller /\ Thread \subseteq Caller /\ NoCaller \notin Caller
BY CallerAssumption DEF Caller

LEMMA Bounds == /\ MaxData \in Nat /\ MaxLapses \in Nat /\ MaxFaults \in Nat
                /\ Version = 0 .. MaxData
BY CacheBoundAssumption DEF Version

(* The process has started: nothing is cached and nobody calls.            *)
LEMMA InitIInv == Init => IInv
<1> SUFFICES ASSUME Init PROVE IInv
  OBVIOUS
<1>1. TypeOK
  <2>1. /\ {data, published, generation} \subseteq Version
        /\ value \in [Key -> Version] /\ stamp \in [Key -> Version]
        /\ result \in [Caller -> Version]
        /\ lapses \in 0 .. MaxLapses /\ faults \in 0 .. MaxFaults
    BY Bounds DEF Init
  <2>2. /\ lock \in [Key -> Caller \cup {NoCaller}] /\ queue \in Seq(Job)
        /\ cached \subseteq Key /\ expired \subseteq cached /\ refreshing \subseteq Key
        /\ key \in [Caller -> Key]
    BY DEF Init
  <2>3. pc \in [Caller -> Step]
    BY DEF Init, Step
  <2> QED
    BY <2>1, <2>2, <2>3 DEF TypeOK
<1>2. Ordered /\ LockHeld
  BY DEF Init, Ordered, LockHeld
<1>3. RefreshOnce
  BY WorkersCall DEF Init, RefreshOnce, Queued, Running
<1>4. Settled
  BY WorkersCall DEF Init, Settled, Computing
<1> QED
  BY <1>1, <1>2, <1>3, <1>4 DEF IInv

(***************************************************************************)
(* The parts of a step                                                     *)
(***************************************************************************)
LEMMA GoesTyped ==
  ASSUME TypeOK, NEW c \in Caller, NEW from, NEW to \in Step, Goes(c, from, to)
  PROVE  /\ pc' \in [Caller -> Step] /\ pc[c] = from /\ pc'[c] = to
         /\ \A d \in Caller \ {c} : pc'[d] = pc[d]
BY DEF TypeOK, Goes

LEMMA GetEntryTyped ==
  ASSUME TypeOK, Ordered, NEW k \in Key, GetEntry(k)
  PROVE  /\ cached' \subseteq Key /\ expired' \subseteq cached'
         /\ value' \in [Key -> Version] /\ stamp' \in [Key -> Version]
         /\ \A j \in Key : value'[j] <= data
<1>1. 0 \in Version /\ 0 <= data
  BY Bounds DEF TypeOK
<1>2. value' = value \/ value' = [value EXCEPT ![k] = 0]
  BY DEF GetEntry
<1>3. stamp' = stamp \/ stamp' = [stamp EXCEPT ![k] = 0]
  BY DEF GetEntry
<1>4. value' \in [Key -> Version] /\ stamp' \in [Key -> Version]
  BY <1>1, <1>2, <1>3 DEF TypeOK
<1>5. \A j \in Key : value'[j] <= data
  BY <1>1, <1>2 DEF TypeOK, Ordered
<1>6. cached' \subseteq Key /\ expired' \subseteq cached'
  BY DEF GetEntry, TypeOK
<1> QED
  BY <1>4, <1>5, <1>6

(* Looking at an entry changes nothing as long as none has lapsed.         *)
LEMMA GetEntryQuiet ==
  ASSUME expired = {}, NEW k \in Key, GetEntry(k)
  PROVE  UNCHANGED entries
BY DEF GetEntry, entries

LEMMA PutTyped ==
  ASSUME TypeOK, Ordered, NEW k \in Key, NEW v \in Version, v <= data, Put(k, v)
  PROVE  /\ cached' \subseteq Key /\ expired' \subseteq cached'
         /\ value' \in [Key -> Version] /\ stamp' \in [Key -> Version]
         /\ \A j \in Key : value'[j] <= data
<1>1. value' \in [Key -> Version] /\ \A j \in Key : value'[j] <= data
  BY DEF Put, TypeOK, Ordered
<1>2. stamp' \in [Key -> Version]
  BY DEF Put, TypeOK
<1>3. cached' \subseteq Key /\ expired' \subseteq cached'
  BY DEF Put, TypeOK
<1> QED
  BY <1>1, <1>2, <1>3

(* The jobs of a key after one more has been submitted, and after one has  *)
(* been taken.                                                             *)
LEMMA QueuedAppend ==
  ASSUME queue \in Seq(Job), NEW j \in Job, queue' = Append(queue, j), NEW k \in Key
  PROVE  /\ queue' \in Seq(Job)
         /\ DOMAIN queue \subseteq DOMAIN queue'
         /\ IF j = [job |-> "refresh", key |-> k]
            THEN \E i \in DOMAIN queue' \ DOMAIN queue : Queued(k)' = Queued(k) \cup {i}
            ELSE Queued(k)' = Queued(k)
<1>1. /\ queue' \in Seq(Job) /\ Len(queue') = Len(queue) + 1
      /\ \A i \in 1 .. Len(queue) : queue'[i] = queue[i]
      /\ queue'[Len(queue) + 1] = j
  BY AppendProperties
<1>2. /\ Len(queue) \in Nat
      /\ DOMAIN queue = 1 .. Len(queue) /\ DOMAIN queue' = 1 .. (Len(queue) + 1)
  BY <1>1
<1>3. /\ DOMAIN queue' = DOMAIN queue \cup {Len(queue) + 1}
      /\ Len(queue) + 1 \notin DOMAIN queue
  BY <1>2
<1>4. \A i \in DOMAIN queue : queue'[i] = queue[i]
  BY <1>1, <1>2
<1> QED
  BY <1>1, <1>3, <1>4 DEF Queued

LEMMA QueuedTail ==
  ASSUME queue \in Seq(Job), queue # <<>>, queue' = Tail(queue), NEW k \in Key
  PROVE  /\ queue' \in Seq(Job)
         /\ Queued(k) = {} => Queued(k)' = {}
         /\ \A i \in DOMAIN queue : Queued(k) = {i} =>
              IF i = 1 THEN Queued(k)' = {}
              ELSE i - 1 \in DOMAIN queue' /\ Queued(k)' = {i - 1}
<1>1. /\ queue' \in Seq(Job) /\ Len(queue') = Len(queue) - 1
      /\ \A i \in 1 .. Len(queue') : queue'[i] = queue[i + 1]
  BY HeadTailProperties
<1>2. /\ Len(queue) \in Nat /\ DOMAIN queue = 1 .. Len(queue)
      /\ DOMAIN queue' = 1 .. (Len(queue) - 1)
  BY <1>1
<1>3. \A i \in DOMAIN queue' : i + 1 \in DOMAIN queue /\ queue'[i] = queue[i + 1] /\ i \in Nat
  BY <1>1, <1>2
<1>4. \A i \in DOMAIN queue : i \in Nat /\ (i # 1 => i - 1 \in DOMAIN queue')
  BY <1>2
<1>5. \A i \in DOMAIN queue' : i \in Queued(k)' <=> i + 1 \in Queued(k)
  BY <1>3 DEF Queued
<1>6. Queued(k) = {} => Queued(k)' = {}
  BY <1>5 DEF Queued
<1>7. ASSUME NEW i \in DOMAIN queue, Queued(k) = {i}
      PROVE  IF i = 1 THEN Queued(k)' = {}
             ELSE i - 1 \in DOMAIN queue' /\ Queued(k)' = {i - 1}
  <2>1. \A m \in DOMAIN queue' : m \in Queued(k)' <=> m = i - 1
    BY <1>3, <1>4, <1>5, <1>7
  <2>2. Queued(k)' \subseteq DOMAIN queue'
    BY DEF Queued
  <2>3. 0 \notin DOMAIN queue'
    BY <1>2
  <2> QED
    BY <1>4, <2>1, <2>2, <2>3
<1> QED
  BY <1>1, <1>6, <1>7

(* Neither a refresh queued nor one running is concerned.                  *)
LEMMA RefreshesKept ==
  ASSUME RefreshOnce, UNCHANGED <<refreshing, queue>>,
         \A k \in Key : Running(k)' = Running(k)
  PROVE  RefreshOnce'
BY DEF RefreshOnce, Queued

(* A caller in the wrapper is no running refresh, whatever it does next.   *)
LEMMA CallersApart ==
  ASSUME NEW c \in Caller, \A d \in Caller \ {c} : pc'[d] = pc[d] /\ key'[d] = key[d],
         {pc[c], pc'[c]} \cap {"refresh", "put", "discard"} = {}
  PROVE  \A k \in Key : Running(k)' = Running(k)
BY WorkersCall DEF Running

(***************************************************************************)
(* The ingest, the clock and new requests                                  *)
(***************************************************************************)
LEMMA SourceKeeps == IInv /\ (Commit \/ Invalidate) => IInv'
<1> SUFFICES ASSUME IInv, Commit \/ Invalidate PROVE IInv'
  OBVIOUS
<1>1. UNCHANGED <<entries, lock, pool, caller, bounds>>
  BY DEF Commit, Invalidate
<1>2. UNCHANGED <<cached, value, stamp, expired, lock, refreshing, queue, pc, key, result,
                  lapses, faults>>
  BY <1>1 DEF entries, pool, caller, bounds
<1>3. /\ generation \in Nat /\ published \in Nat /\ data \in 0 .. MaxData
      /\ generation <= published /\ published <= data
      /\ value \in [Key -> Version] /\ result \in [Caller -> Version]
  BY Bounds DEF IInv, TypeOK, Ordered
<1>4. \/ data < MaxData /\ data' = data + 1 /\ UNCHANGED <<published, generation>>
      \/ published < data /\ published' = data /\ generation' = generation + 1 /\ data' = data
  BY DEF Commit, Invalidate, ChangedData
<1>5. /\ generation' \in Version /\ published' \in Version /\ data' \in Version
      /\ generation' <= published' /\ published' <= data' /\ data <= data'
  BY <1>3, <1>4, Bounds
<1>6. TypeOK'
  BY <1>2, <1>5 DEF IInv, TypeOK
<1>7. Ordered'
  BY <1>2, <1>3, <1>5, Bounds DEF IInv, Ordered
<1>8. RefreshOnce'
  BY <1>2, RefreshesKept DEF IInv, Running
<1> QED
  BY <1>2, <1>6, <1>7, <1>8 DEF IInv, LockHeld, Settled, Computing

(* warm_common() submits calls, no refreshes.                              *)
LEMMA WarmKeeps == ASSUME IInv, NEW k \in Key, Warm(k) PROVE IInv'
<1>1. UNCHANGED <<data, published, generation, cached, value, stamp, expired, lock,
                  refreshing, pc, key, result, lapses, faults>>
  BY DEF Warm, source, entries, caller, bounds
<1>2. /\ queue \in Seq(Job) /\ [job |-> "warm", key |-> k] \in Job
      /\ queue' = Append(queue, [job |-> "warm", key |-> k])
  BY DEF Warm, Job, IInv, TypeOK
<1>3. \A j \in Key : Queued(j)' = Queued(j)
  <2>1. \A j \in Key : [job |-> "warm", key |-> k] # [job |-> "refresh", key |-> j]
    OBVIOUS
  <2> QED
    BY <1>2, <2>1, QueuedAppend
<1>4. queue' \in Seq(Job) /\ DOMAIN queue \subseteq DOMAIN queue'
  BY <1>2, QueuedAppend
<1>5. RefreshOnce'
  BY <1>1, <1>3, <1>4 DEF IInv, RefreshOnce, Running
<1> QED
  BY <1>1, <1>4, <1>5 DEF IInv, TypeOK, Ordered, LockHeld, Settled, Computing

(* Once an entry has lapsed, nothing is claimed of the entries.            *)
LEMMA LapseKeeps == ASSUME IInv, NEW k \in Key, Lapse(k) PROVE IInv'
<1>1. UNCHANGED <<data, published, generation, cached, value, stamp, lock,
                  refreshing, queue, pc, key, result, faults>>
  BY DEF Lapse, source, pool, caller
<1>2. /\ lapses' \in 0 .. MaxLapses /\ lapses' # 0
      /\ expired' \subseteq cached'
  BY Bounds DEF Lapse, IInv, TypeOK
<1>3. RefreshOnce'
  BY <1>1, RefreshesKept DEF IInv, Running
<1> QED
  BY <1>1, <1>2, <1>3 DEF IInv, TypeOK, Ordered, LockHeld, Settled

LEMMA RequestKeeps == ASSUME IInv, NEW t \in Thread, NEW k \in Key, Request(t, k) PROVE IInv'
<1>1. UNCHANGED <<data, published, generation, cached, value, stamp, expired, lock,
                  refreshing, queue, result, lapses, faults>>
  BY DEF Request, source, entries, pool, bounds
<1>2. /\ t \in Caller /\ key' = [key EXCEPT ![t] = k]
      /\ Goes(t, "idle", "lookup") /\ "lookup" \in Step /\ TypeOK
  BY WorkersCall DEF Request, Step, IInv
<1>3. /\ pc' \in [Caller -> Step] /\ pc[t] = "idle" /\ pc'[t] = "lookup"
      /\ \A d \in Caller \ {t} : pc'[d] = pc[d] /\ key'[d] = key[d]
      /\ key' \in [Caller -> Key]
  BY <1>2, GoesTyped DEF TypeOK
<1>4. RefreshOnce'
  <2>1. \A j \in Key : Running(j)' = Running(j)
    BY <1>2, <1>3, CallersApart
  <2> QED
    BY <1>1, <2>1, RefreshesKept DEF IInv
<1>5. TypeOK' /\ Ordered' /\ LockHeld'
  BY <1>1, <1>3 DEF IInv, TypeOK, Ordered, LockHeld
<1>6. Settled'
  <2>1. \A w \in Worker : pc'[w] = "put" => w # t /\ key'[w] = key[w] /\ pc[w] = "put"
    BY <1>3, WorkersCall
  <2>2. \A c \in Caller : Computing(c)' => c # t /\ key'[c] = key[c] /\ Computing(c)
    BY <1>3 DEF Computing
  <2> QED
    BY <1>1, <2>1, <2>2 DEF IInv, Settled
<1> QED
  BY <1>4, <1>5, <1>6 DEF IInv

(***************************************************************************)
(* The wrapper                                                             *)
(***************************************************************************)
(* _schedule_refresh submits a job only for a key that has none.           *)
LEMMA ScheduleKeeps ==
  ASSUME IInv, NEW k \in Key, ScheduleRefresh(k) \/ UNCHANGED pool,
         \A j \in Key : Running(j)' = Running(j)
  PROVE  /\ RefreshOnce' /\ queue' \in Seq(Job)
         /\ refreshing' \subseteq Key /\ refreshing' \subseteq refreshing \cup {k}
<1>1. CASE UNCHANGED pool
  BY <1>1, RefreshesKept DEF pool, IInv, TypeOK
<1>2. CASE k \in refreshing /\ ScheduleRefresh(k)
  BY <1>1, <1>2 DEF ScheduleRefresh
<1>3. CASE k \notin refreshing /\ ScheduleRefresh(k)
  <2>1. /\ refreshing' = refreshing \cup {k}
        /\ queue \in Seq(Job) /\ [job |-> "refresh", key |-> k] \in Job
        /\ queue' = Append(queue, [job |-> "refresh", key |-> k])
    BY <1>3 DEF ScheduleRefresh, Job, IInv, TypeOK
  <2>2. queue' \in Seq(Job) /\ DOMAIN queue \subseteq DOMAIN queue'
    BY <2>1, QueuedAppend
  <2>3. \E i \in DOMAIN queue' : Queued(k)' = Queued(k) \cup {i}
    BY <2>1, QueuedAppend
  <2>4. \A j \in Key \ {k} : Queued(j)' = Queued(j)
    <3>1. \A j \in Key \ {k} : [job |-> "refresh", key |-> k] # [job |-> "refresh", key |-> j]
      OBVIOUS
    <3> QED
      BY <2>1, <3>1, QueuedAppend
  <2>5. Queued(k) = {} /\ Running(k) = {}
    BY <1>3 DEF IInv, RefreshOnce
  <2>6. ASSUME NEW j \in Key \ {k}
        PROVE  IF j \in refreshing'
               THEN \/ Running(j)' = {} /\ \E i \in DOMAIN queue' : Queued(j)' = {i}
                    \/ Queued(j)' = {} /\ \E w \in Worker : Running(j)' = {w}
               ELSE Queued(j)' = {} /\ Running(j)' = {}
    BY <2>1, <2>2, <2>4 DEF IInv, RefreshOnce
  <2>7. /\ k \in refreshing' /\ Running(k)' = {}
        /\ \E i \in DOMAIN queue' : Queued(k)' = {i}
    BY <2>1, <2>3, <2>5
  <2>8. RefreshOnce'
    BY <2>6, <2>7 DEF RefreshOnce
  <2> QED
    BY <2>1, <2>2, <2>8 DEF IInv, TypeOK
<1> QED
  BY <1>1, <1>2, <1>3

LEMMA LookupKeeps == ASSUME IInv, NEW c \in Caller, Lookup(c) PROVE IInv'
<1>1. UNCHANGED <<data, published, generation, lock, key, result, lapses, faults>>
  BY DEF Lookup, source, bounds
<1>2. key[c] \in Key /\ TypeOK /\ Ordered /\ GetEntry(key[c])
  BY DEF Lookup, IInv, TypeOK
<1>3. PICK to \in {"idle", "wait"} : Goes(c, "lookup", to)
  BY DEF Lookup
<1>4. /\ pc' \in [Caller -> Step] /\ pc[c] = "lookup" /\ pc'[c] \in {"idle", "wait"}
      /\ \A d \in Caller \ {c} : pc'[d] = pc[d] /\ key'[d] = key[d]
  <2>1. to \in Step
    BY DEF Step
  <2> QED
    BY <1>1, <1>2, <1>3, <2>1, GoesTyped
<1>5. \A j \in Key : Running(j)' = Running(j)
  BY <1>4, CallersApart
<1>6. ScheduleRefresh(key[c]) \/ UNCHANGED pool
  BY DEF Lookup
<1>7. /\ RefreshOnce' /\ queue' \in Seq(Job)
      /\ refreshing' \subseteq Key /\ refreshing' \subseteq refreshing \cup {key[c]}
  BY <1>2, <1>5, <1>6, ScheduleKeeps
<1>8. TypeOK' /\ Ordered'
  BY <1>1, <1>2, <1>4, <1>7, GetEntryTyped DEF TypeOK, Ordered
<1>9. LockHeld'
  BY <1>1, <1>4 DEF IInv, LockHeld
<1>10. Settled'
  <2> SUFFICES ASSUME lapses = 0 PROVE Settled'
    BY <1>1 DEF Settled
  <2>1. expired = {} /\ UNCHANGED entries
    BY <1>2, GetEntryQuiet DEF IInv, Settled
  <2>2. refreshing' \subseteq cached
    <3>1. key[c] \in cached \/ UNCHANGED pool
      BY DEF Lookup, Hit
    <3> QED
      BY <1>7, <3>1 DEF pool, IInv, Settled
  <2>3. \A d \in Caller : Computing(d)' => Computing(d)
    BY <1>4 DEF Computing
  <2>4. \A w \in Worker : pc'[w] = "put" => pc[w] = "put"
    BY <1>4, WorkersCall
  <2> QED
    BY <1>1, <2>1, <2>2, <2>3, <2>4 DEF entries, IInv, Settled
<1> QED
  BY <1>7, <1>8, <1>9, <1>10 DEF IInv

(* A lock that is free has no holder.                                      *)
LEMMA AcquireKeeps == ASSUME IInv, NEW c \in Caller, Acquire(c) PROVE IInv'
<1>1. UNCHANGED <<data, published, generation, cached, value, stamp, expired,
                  refreshing, queue, key, result, lapses, faults>>
  BY DEF Acquire, source, entries, pool, bounds
<1>2. /\ key[c] \in Key /\ lock[key[c]] = NoCaller
      /\ lock' = [lock EXCEPT ![key[c]] = c]
  BY DEF Acquire, IInv, TypeOK
<1>3. /\ pc' \in [Caller -> Step] /\ pc[c] = "wait" /\ pc'[c] = "recheck"
      /\ \A d \in Caller \ {c} : pc'[d] = pc[d] /\ key'[d] = key[d]
  <2>1. "recheck" \in Step /\ Goes(c, "wait", "recheck") /\ TypeOK
    BY DEF Step, Acquire, IInv
  <2> QED
    BY <1>1, <2>1, GoesTyped
<1>4. RefreshOnce'
  <2>1. \A j \in Key : Running(j)' = Running(j)
    BY <1>3, CallersApart
  <2> QED
    BY <1>1, <2>1, RefreshesKept DEF IInv
<1>5. TypeOK' /\ Ordered'
  BY <1>1, <1>2, <1>3 DEF IInv, TypeOK, Ordered
<1>6. LockHeld'
  <2> SUFFICES ASSUME NEW d \in Caller, pc'[d] \in {"recheck", "query", "store"}
               PROVE  lock'[key'[d]] = d
    BY DEF LockHeld
  <2>1. CASE d = c
    BY <1>1, <1>2, <2>1 DEF IInv, TypeOK
  <2>2. CASE d # c
    <3>1. lock[key[d]] = d /\ key[d] # key[c]
      BY <1>2, <1>3, <2>2, WorkersCall DEF IInv, LockHeld
    <3> QED
      BY <1>1, <1>2, <3>1 DEF IInv, TypeOK
  <2> QED
    BY <2>1, <2>2
<1>7. Settled'
  <2>1. \A d \in Caller : Computing(d)' => Computing(d)
    BY <1>3 DEF Computing
  <2>2. \A w \in Worker : pc'[w] = "put" => pc[w] = "put"
    BY <1>3, WorkersCall
  <2> QED
    BY <1>1, <2>1, <2>2 DEF IInv, Settled
<1> QED
  BY <1>4, <1>5, <1>6, <1>7 DEF IInv

(* A lock that its holder returns has no other.                            *)
LEMMA ReleaseKeeps ==
  ASSUME TypeOK, LockHeld, NEW c \in Caller, pc[c] \in {"recheck", "query", "store"},
         Release(c), key' = key, pc'[c] = "idle", \A d \in Caller \ {c} : pc'[d] = pc[d]
  PROVE  LockHeld' /\ lock' \in [Key -> Caller \cup {NoCaller}]
<1>1. lock[key[c]] = c /\ lock' = [lock EXCEPT ![key[c]] = NoCaller]
  BY DEF LockHeld, Release
<1>2. lock' \in [Key -> Caller \cup {NoCaller}]
  BY <1>1 DEF TypeOK
<1>3. ASSUME NEW d \in Caller, pc'[d] \in {"recheck", "query", "store"}
      PROVE  lock'[key'[d]] = d
  <2>1. d # c /\ lock[key[d]] = d
    BY <1>3 DEF LockHeld
  <2> QED
    BY <1>1, <2>1 DEF TypeOK
<1> QED
  BY <1>2, <1>3 DEF LockHeld

LEMMA RecheckKeeps == ASSUME IInv, NEW c \in Caller, Recheck(c) PROVE IInv'
<1>1. UNCHANGED <<data, published, generation, refreshing, queue, key, result, lapses, faults>>
  BY DEF Recheck, source, pool, bounds
<1>2. key[c] \in Key /\ TypeOK /\ Ordered /\ GetEntry(key[c])
  BY DEF Recheck, IInv, TypeOK
<1>3. /\ pc' \in [Caller -> Step] /\ pc[c] = "recheck" /\ pc'[c] \in {"idle", "query"}
      /\ \A d \in Caller \ {c} : pc'[d] = pc[d] /\ key'[d] = key[d]
  <2>1. PICK to \in {"idle", "query"} : Goes(c, "recheck", to)
    BY DEF Recheck
  <2>2. to \in Step
    BY DEF Step
  <2> QED
    BY <1>1, <1>2, <2>1, <2>2, GoesTyped
<1>4. \/ pc'[c] = "query" /\ UNCHANGED lock /\ ~ Hit(key[c])
      \/ pc'[c] = "idle" /\ Release(c)
  BY <1>2 DEF Recheck, Computes, Goes, TypeOK
<1>5. LockHeld' /\ lock' \in [Key -> Caller \cup {NoCaller}]
  <2>1. CASE pc'[c] = "idle" /\ Release(c)
    BY <1>1, <1>3, <2>1, ReleaseKeeps DEF IInv
  <2>2. CASE pc'[c] = "query" /\ UNCHANGED lock
    BY <1>1, <1>3, <2>2 DEF IInv, LockHeld, TypeOK
  <2> QED
    BY <1>4, <2>1, <2>2
<1>6. RefreshOnce'
  <2>1. \A j \in Key : Running(j)' = Running(j)
    BY <1>3, CallersApart
  <2> QED
    BY <1>1, <2>1, RefreshesKept DEF IInv
<1>7. TypeOK' /\ Ordered'
  BY <1>1, <1>2, <1>3, <1>5, GetEntryTyped DEF TypeOK, Ordered
<1>8. Settled'
  <2> SUFFICES ASSUME lapses = 0 PROVE Settled'
    BY <1>1 DEF Settled
  <2>1. expired = {} /\ UNCHANGED entries
    BY <1>2, GetEntryQuiet DEF IInv, Settled
  <2>2. \A d \in Caller : Computing(d)' => key[d] \notin cached
    <3>1. pc'[c] = "query" => key[c] \notin cached
      BY <1>4, <2>1 DEF Hit
    <3>2. \A d \in Caller \ {c} : Computing(d)' => Computing(d)
      BY <1>3 DEF Computing
    <3> QED
      BY <1>3, <3>1, <3>2 DEF Computing, IInv, Settled
  <2>3. \A w \in Worker : pc'[w] = "put" => pc[w] = "put"
    BY <1>3, WorkersCall
  <2> QED
    BY <1>1, <2>1, <2>2, <2>3 DEF entries, IInv, Settled
<1> QED
  BY <1>5, <1>6, <1>7, <1>8 DEF IInv

LEMMA QueryKeeps == ASSUME IInv, NEW c \in Caller, Query(c) \/ QueryFails(c) PROVE IInv'
<1>1. UNCHANGED <<data, published, generation, cached, value, stamp, expired,
                  refreshing, queue, key, lapses>>
  BY DEF Query, QueryFails, source, entries, pool, bounds
<1>2. /\ pc' \in [Caller -> Step] /\ pc[c] = "query" /\ pc'[c] \in {"idle", "store"}
      /\ \A d \in Caller \ {c} : pc'[d] = pc[d] /\ key'[d] = key[d]
  <2>1. PICK to \in {"idle", "store"} : Goes(c, "query", to)
    BY DEF Query, QueryFails
  <2>2. to \in Step /\ TypeOK
    BY DEF Step, IInv
  <2> QED
    BY <1>1, <2>1, <2>2, GoesTyped
<1>3. \/ pc'[c] = "store" /\ UNCHANGED <<lock, faults>> /\ result' = [result EXCEPT ![c] = data]
      \/ pc'[c] = "idle" /\ Release(c) /\ result' = result /\ faults' \in 0 .. MaxFaults
  BY Bounds DEF Query, QueryFails, Goes, bounds, IInv, TypeOK
<1>4. LockHeld' /\ lock' \in [Key -> Caller \cup {NoCaller}]
  <2>1. CASE pc'[c] = "idle" /\ Release(c)
    BY <1>1, <1>2, <2>1, ReleaseKeeps DEF IInv
  <2>2. CASE pc'[c] = "store" /\ UNCHANGED lock
    BY <1>1, <1>2, <2>2 DEF IInv, LockHeld, TypeOK
  <2> QED
    BY <1>3, <2>1, <2>2
<1>5. RefreshOnce'
  <2>1. \A j \in Key : Running(j)' = Running(j)
    BY <1>2, CallersApart
  <2> QED
    BY <1>1, <2>1, RefreshesKept DEF IInv
<1>6. /\ result' \in [Caller -> Version] /\ \A d \in Caller : result'[d] <= data
      /\ faults' \in 0 .. MaxFaults
  <2>1. data \in Version /\ data <= data
    BY Bounds DEF IInv, TypeOK
  <2> QED
    BY <1>3, <2>1 DEF IInv, TypeOK, Ordered
<1>7. TypeOK' /\ Ordered'
  BY <1>1, <1>2, <1>4, <1>6 DEF IInv, TypeOK, Ordered
<1>8. Settled'
  <2>1. \A d \in Caller : Computing(d)' => Computing(d)
    BY <1>2 DEF Computing
  <2>2. \A w \in Worker : pc'[w] = "put" => pc[w] = "put" /\ result'[w] = result[w]
    BY <1>2, <1>3, WorkersCall DEF IInv, TypeOK
  <2> QED
    BY <1>1, <2>1, <2>2 DEF IInv, Settled
<1> QED
  BY <1>4, <1>5, <1>7, <1>8 DEF IInv

(* Who stores the result of its own query finds nothing cached, and no     *)
(* refresh under way.                                                      *)
LEMMA StoreKeeps == ASSUME IInv, NEW c \in Caller, Store(c) PROVE IInv'
<1>1. UNCHANGED <<data, published, generation, refreshing, queue, key, lapses, faults>>
  BY DEF Store, source, pool, bounds
<1>2. /\ key[c] \in Key /\ result[c] \in Version /\ result[c] <= data
      /\ TypeOK /\ Ordered /\ Put(key[c], result[c])
      /\ result' = [result EXCEPT ![c] = 0] /\ Release(c)
  BY DEF Store, IInv, TypeOK, Ordered
<1>3. /\ pc' \in [Caller -> Step] /\ pc[c] = "store" /\ pc'[c] = "idle"
      /\ \A d \in Caller \ {c} : pc'[d] = pc[d] /\ key'[d] = key[d]
  <2>1. "idle" \in Step /\ Goes(c, "store", "idle")
    BY DEF Step, Store
  <2> QED
    BY <1>1, <1>2, <2>1, GoesTyped
<1>4. LockHeld' /\ lock' \in [Key -> Caller \cup {NoCaller}]
  BY <1>1, <1>2, <1>3, ReleaseKeeps DEF IInv
<1>5. RefreshOnce'
  <2>1. \A j \in Key : Running(j)' = Running(j)
    BY <1>3, CallersApart
  <2> QED
    BY <1>1, <2>1, RefreshesKept DEF IInv
<1>6. result' \in [Caller -> Version] /\ \A d \in Caller : result'[d] <= data
  <2>1. 0 \in Version /\ 0 <= data
    BY Bounds DEF IInv, TypeOK
  <2> QED
    BY <1>2, <2>1 DEF IInv, TypeOK, Ordered
<1>7. TypeOK' /\ Ordered'
  BY <1>1, <1>2, <1>3, <1>4, <1>6, PutTyped DEF TypeOK, Ordered
<1>8. Settled'
  <2> SUFFICES ASSUME lapses = 0 PROVE Settled'
    BY <1>1 DEF Settled
  <2>1. /\ cached' = cached \cup {key[c]} /\ expired' = expired \ {key[c]}
        /\ value' = [value EXCEPT ![key[c]] = result[c]]
    BY <1>2 DEF Put
  <2>2. key[c] \notin cached /\ Running(key[c]) = {}
    BY <1>2, <1>3 DEF IInv, Settled, Computing, RefreshOnce
  <2>3. ASSUME NEW d \in Caller, Computing(d)' PROVE key'[d] \notin cached'
    <3>1. d # c /\ Computing(d)
      BY <1>3, <2>3 DEF Computing
    <3>2. lock[key[c]] = c /\ lock[key[d]] = d
      BY <1>3, <3>1 DEF IInv, LockHeld, Computing
    <3> QED
      BY <1>1, <2>1, <3>1, <3>2 DEF IInv, Settled
  <2>4. ASSUME NEW w \in Worker, pc'[w] = "put" PROVE value'[key'[w]] <= result'[w]
    <3>1. w # c /\ pc[w] = "put" /\ w \in Caller
      BY <1>3, <2>4, WorkersCall
    <3>2. key[w] # key[c]
      BY <2>2, <3>1 DEF Running
    <3> QED
      BY <1>1, <1>2, <2>1, <3>1, <3>2 DEF IInv, TypeOK, Settled
  <2> QED
    BY <1>1, <2>1, <2>3, <2>4 DEF IInv, Settled
<1> QED
  BY <1>4, <1>5, <1>7, <1>8 DEF IInv

(***************************************************************************)
(* The refresh pool                                                        *)
(***************************************************************************)
(* The job taken is no longer queued; it runs, if it is a refresh.         *)
LEMMA TakeJobKeeps == ASSUME IInv, NEW w \in Worker, TakeJob(w) PROVE IInv'
<1> DEFINE j == Head(queue)
<1>1. UNCHANGED <<data, published, generation, cached, value, stamp, expired, lock,
                  refreshing, result, lapses, faults>>
  BY DEF TakeJob, source, entries, bounds
<1>2. /\ w \in Caller /\ queue \in Seq(Job) /\ queue # <<>>
      /\ queue' = Tail(queue) /\ key' = [key EXCEPT ![w] = j.key]
      /\ j = queue[1] /\ j \in Job /\ 1 \in DOMAIN queue
  <2>1. queue \in Seq(Job) /\ queue # <<>>
    BY DEF TakeJob, IInv, TypeOK
  <2>2. j = queue[1] /\ j \in Job /\ 1 \in DOMAIN queue
    BY <2>1
  <2> QED
    BY <2>1, <2>2, WorkersCall DEF TakeJob
<1>3. /\ pc' \in [Caller -> Step] /\ pc[w] = "idle"
      /\ pc'[w] = IF j.job = "warm" THEN "lookup" ELSE "refresh"
      /\ \A d \in Caller \ {w} : pc'[d] = pc[d] /\ key'[d] = key[d]
      /\ key' \in [Caller -> Key] /\ key'[w] = j.key
  <2>1. {"lookup", "refresh"} \subseteq Step /\ TypeOK
    BY DEF Step, IInv
  <2>2. Goes(w, "idle", IF j.job = "warm" THEN "lookup" ELSE "refresh")
    BY DEF TakeJob
  <2>3. key' \in [Caller -> Key] /\ key'[w] = j.key /\ \A d \in Caller \ {w} : key'[d] = key[d]
    BY <1>2 DEF Job, IInv, TypeOK
  <2> QED
    BY <1>2, <2>1, <2>2, <2>3, GoesTyped
<1>4. ASSUME NEW k \in Key
      PROVE  IF k \in refreshing'
             THEN \/ Running(k)' = {} /\ \E i \in DOMAIN queue' : Queued(k)' = {i}
                  \/ Queued(k)' = {} /\ \E v \in Worker : Running(k)' = {v}
             ELSE Queued(k)' = {} /\ Running(k)' = {}
  <2>1. w \notin Running(k)
    BY <1>3 DEF Running
  <2>2. Running(k)' = IF j = [job |-> "refresh", key |-> k] THEN Running(k) \cup {w} ELSE Running(k)
    <3>1. j = [job |-> "refresh", key |-> k] <=> j.job # "warm" /\ j.key = k
      BY <1>2 DEF Job
    <3>2. \A v \in Worker \ {w} : v \in Running(k)' <=> v \in Running(k)
      BY <1>3, WorkersCall DEF Running
    <3>3. w \in Running(k)' <=> j.job # "warm" /\ j.key = k
      BY <1>3 DEF Running
    <3>4. Running(k) \subseteq Worker /\ Running(k)' \subseteq Worker
      BY DEF Running
    <3> QED
      BY <2>1, <3>1, <3>2, <3>3, <3>4
  <2>3. 1 \in Queued(k) <=> j = [job |-> "refresh", key |-> k]
    BY <1>2 DEF Queued
  <2>4. /\ Queued(k) = {} => Queued(k)' = {}
        /\ \A i \in DOMAIN queue : Queued(k) = {i} =>
             IF i = 1 THEN Queued(k)' = {}
             ELSE i - 1 \in DOMAIN queue' /\ Queued(k)' = {i - 1}
    BY <1>2, QueuedTail
  <2>5. CASE Queued(k) = {}
    BY <1>1, <2>2, <2>3, <2>4, <2>5 DEF IInv, RefreshOnce
  <2>6. ASSUME NEW i \in DOMAIN queue, Queued(k) = {i}, Running(k) = {}, k \in refreshing
        PROVE  \/ Running(k)' = {} /\ \E m \in DOMAIN queue' : Queued(k)' = {m}
               \/ Queued(k)' = {} /\ \E v \in Worker : Running(k)' = {v}
    BY <2>2, <2>3, <2>4, <2>6
  <2> QED
    BY <1>1, <2>5, <2>6 DEF IInv, RefreshOnce
<1>5. RefreshOnce'
  BY <1>4 DEF RefreshOnce
<1>6. queue' \in Seq(Job)
  BY <1>2, HeadTailProperties
<1>7. TypeOK' /\ Ordered'
  BY <1>1, <1>3, <1>6 DEF IInv, TypeOK, Ordered
<1>8. LockHeld'
  BY <1>1, <1>3 DEF IInv, LockHeld
<1>9. Settled'
  <2>1. \A d \in Caller : Computing(d)' => Computing(d) /\ key'[d] = key[d]
    BY <1>3 DEF Computing
  <2>2. \A v \in Worker : pc'[v] = "put" => pc[v] = "put" /\ key'[v] = key[v]
    BY <1>3, WorkersCall
  <2> QED
    BY <1>1, <2>1, <2>2 DEF IInv, Settled
<1> QED
  BY <1>5, <1>7, <1>8, <1>9 DEF IInv

(* A running refresh goes on, or is given up.                              *)
LEMMA RefreshKeeps == ASSUME IInv, NEW w \in Worker, Refresh(w) \/ RefreshFails(w) PROVE IInv'
<1>1. UNCHANGED <<data, published, generation, cached, value, stamp, expired, lock,
                  refreshing, queue, key, lapses>>
  BY DEF Refresh, RefreshFails, source, entries, pool, bounds
<1>2. /\ w \in Caller /\ pc' \in [Caller -> Step]
      /\ pc[w] = "refresh" /\ pc'[w] \in {"put", "discard"}
      /\ \A d \in Caller \ {w} : pc'[d] = pc[d]
  <2>1. PICK to \in {"put", "discard"} : Goes(w, "refresh", to)
    BY DEF Refresh, RefreshFails, AfterFailure
  <2>2. to \in Step /\ TypeOK /\ w \in Caller
    BY WorkersCall DEF Step, IInv
  <2> QED
    BY <2>1, <2>2, GoesTyped
<1>3. \/ pc'[w] = "put" /\ result' = [result EXCEPT ![w] = data] /\ faults' = faults
      \/ pc'[w] = "discard" /\ result' = result /\ faults' \in 0 .. MaxFaults
  BY <1>2, Bounds DEF Refresh, RefreshFails, AfterFailure, Goes, bounds, IInv, TypeOK
<1>4. /\ result' \in [Caller -> Version] /\ \A d \in Caller : result'[d] <= data
      /\ faults' \in 0 .. MaxFaults
  <2>1. data \in Version /\ data <= data
    BY Bounds DEF IInv, TypeOK
  <2> QED
    BY <1>3, <2>1 DEF IInv, TypeOK, Ordered
<1>5. TypeOK' /\ Ordered' /\ LockHeld'
  BY <1>1, <1>2, <1>4 DEF IInv, TypeOK, Ordered, LockHeld
<1>6. RefreshOnce'
  <2>1. \A j \in Key : Running(j)' = Running(j)
    BY <1>1, <1>2, WorkersCall DEF Running
  <2> QED
    BY <1>1, <2>1, RefreshesKept DEF IInv
<1>7. Settled'
  <2>1. \A d \in Caller : Computing(d)' => Computing(d)
    BY <1>2 DEF Computing
  <2>2. ASSUME NEW v \in Worker, pc'[v] = "put" PROVE lapses = 0 => value[key[v]] <= result'[v]
    <3>1. CASE v = w
      BY <1>2, <1>3, <2>2, <3>1 DEF IInv, TypeOK, Ordered
    <3>2. CASE v # w
      BY <1>2, <1>3, <2>2, <3>2, WorkersCall DEF IInv, TypeOK, Settled
    <3> QED
      BY <3>1, <3>2
  <2> QED
    BY <1>1, <2>1, <2>2 DEF IInv, Settled
<1> QED
  BY <1>5, <1>6, <1>7 DEF IInv

(* It replaces what no other refresh of the key touches.                   *)
LEMMA PutKeeps == ASSUME IInv, NEW w \in Worker, PutRefreshed(w) PROVE IInv'
<1>1. UNCHANGED <<data, published, generation, lock, refreshing, queue, key, lapses, faults>>
  BY DEF PutRefreshed, source, pool, bounds
<1>2. /\ w \in Caller /\ key[w] \in Key /\ result[w] \in Version /\ result[w] <= data
      /\ TypeOK /\ Ordered /\ Put(key[w], result[w])
      /\ result' = [result EXCEPT ![w] = 0]
  BY WorkersCall DEF PutRefreshed, IInv, TypeOK, Ordered
<1>3. /\ pc' \in [Caller -> Step] /\ pc[w] = "put" /\ pc'[w] = "discard"
      /\ \A d \in Caller \ {w} : pc'[d] = pc[d]
  <2>1. "discard" \in Step /\ Goes(w, "put", "discard")
    BY DEF Step, PutRefreshed
  <2> QED
    BY <1>2, <2>1, GoesTyped
<1>4. RefreshOnce'
  <2>1. \A j \in Key : Running(j)' = Running(j)
    BY <1>1, <1>3, WorkersCall DEF Running
  <2> QED
    BY <1>1, <2>1, RefreshesKept DEF IInv
<1>5. result' \in [Caller -> Version] /\ \A d \in Caller : result'[d] <= data
  <2>1. 0 \in Version /\ 0 <= data
    BY Bounds DEF IInv, TypeOK
  <2> QED
    BY <1>2, <2>1 DEF IInv, TypeOK, Ordered
<1>6. TypeOK' /\ Ordered'
  BY <1>1, <1>2, <1>3, <1>5, PutTyped DEF TypeOK, Ordered
<1>7. LockHeld'
  BY <1>1, <1>3 DEF IInv, LockHeld
<1>8. Settled'
  <2> SUFFICES ASSUME lapses = 0 PROVE Settled'
    BY <1>1 DEF Settled
  <2>1. /\ cached' = cached \cup {key[w]} /\ expired' = expired \ {key[w]}
        /\ value' = [value EXCEPT ![key[w]] = result[w]]
    BY <1>2 DEF Put
  <2>2. w \in Running(key[w])
    BY <1>3 DEF Running
  <2>3. key[w] \in cached
    BY <1>2, <2>2 DEF IInv, Settled, RefreshOnce
  <2>4. \A d \in Caller : Computing(d)' => Computing(d)
    BY <1>3 DEF Computing
  <2>5. ASSUME NEW v \in Worker, pc'[v] = "put" PROVE value'[key'[v]] <= result'[v]
    <3>1. v # w /\ pc[v] = "put" /\ v \in Caller
      BY <1>3, <2>5, WorkersCall
    <3>2. key[v] # key[w]
      <4>1. key[v] = key[w] => v \in Running(key[w])
        BY <3>1 DEF Running
      <4>2. \E u \in Worker : Running(key[w]) = {u}
        BY <1>2, <2>2 DEF IInv, RefreshOnce
      <4> QED
        BY <2>2, <3>1, <4>1, <4>2
    <3> QED
      BY <1>1, <1>2, <2>1, <3>1, <3>2 DEF IInv, TypeOK, Settled
  <2> QED
    BY <1>1, <2>1, <2>3, <2>4, <2>5 DEF IInv, Settled
<1> QED
  BY <1>4, <1>6, <1>7, <1>8 DEF IInv

(* A key leaves _refreshing when its one refresh ends.                     *)
LEMMA DiscardKeeps == ASSUME IInv, NEW w \in Worker, Discard(w) PROVE IInv'
<1>1. UNCHANGED <<data, published, generation, cached, value, stamp, expired, lock,
                  queue, key, result, lapses, faults>>
  BY DEF Discard, source, entries, bounds
<1>2. /\ w \in Caller /\ key[w] \in Key /\ TypeOK
      /\ refreshing' = refreshing \ {key[w]}
  BY WorkersCall DEF Discard, IInv, TypeOK
<1>3. /\ pc' \in [Caller -> Step] /\ pc[w] = "discard" /\ pc'[w] = "idle"
      /\ \A d \in Caller \ {w} : pc'[d] = pc[d]
  <2>1. "idle" \in Step /\ Goes(w, "discard", "idle")
    BY DEF Step, Discard
  <2> QED
    BY <1>2, <2>1, GoesTyped
<1>4. RefreshOnce'
  <2>1. \A k \in Key : Running(k)' = Running(k) \ {w} /\ Queued(k)' = Queued(k)
    BY <1>1, <1>3, WorkersCall DEF Running, Queued
  <2>2. w \in Running(key[w])
    BY <1>3 DEF Running
  <2>3. Queued(key[w]) = {} /\ Running(key[w]) = {w}
    BY <1>2, <2>2 DEF IInv, RefreshOnce
  <2>4. \A k \in Key \ {key[w]} : Running(k)' = Running(k)
    BY <2>1 DEF Running
  <2> QED
    BY <1>1, <1>2, <2>1, <2>3, <2>4 DEF IInv, RefreshOnce
<1>5. TypeOK' /\ Ordered' /\ LockHeld'
  BY <1>1, <1>2, <1>3 DEF IInv, TypeOK, Ordered, LockHeld
<1>6. Settled'
  <2>1. \A d \in Caller : Computing(d)' => Computing(d)
    BY <1>3 DEF Computing
  <2>2. \A v \in Worker : pc'[v] = "put" => pc[v] = "put"
    BY <1>3, WorkersCall
  <2> QED
    BY <1>1, <1>2, <2>1, <2>2 DEF IInv, Settled
<1> QED
  BY <1>4, <1>5, <1>6 DEF IInv

(***************************************************************************)
(* Theorems                                                                *)
(***************************************************************************)
LEMMA NextKeeps == IInv /\ [Next]_vars => IInv'
<1> SUFFICES ASSUME IInv, [Next]_vars PROVE IInv'
  OBVIOUS
<1>1. CASE Commit \/ Invalidate
  BY <1>1, SourceKeeps
<1>2. ASSUME NEW k \in Key, Warm(k) \/ Lapse(k) PROVE IInv'
  BY <1>2, WarmKeeps, LapseKeeps
<1>3. ASSUME NEW k \in Key, NEW t \in Thread, Request(t, k) PROVE IInv'
  BY <1>3, RequestKeeps
<1>4. ASSUME NEW c \in Caller, InCall(c) PROVE IInv'
  BY <1>4, LookupKeeps, AcquireKeeps, RecheckKeeps, QueryKeeps, StoreKeeps DEF InCall
<1>5. ASSUME NEW w \in Worker, InPool(w) PROVE IInv'
  BY <1>5, TakeJobKeeps, RefreshKeeps, PutKeeps, DiscardKeeps DEF InPool
<1>6. CASE UNCHANGED vars
  <2>1. UNCHANGED <<data, published, generation, cached, value, stamp, expired, lock,
                    refreshing, queue, pc, key, result, lapses, faults>>
    BY <1>6 DEF vars, source, entries, pool, caller, bounds
  <2> QED
    BY <2>1 DEF IInv, TypeOK, Ordered, LockHeld, RefreshOnce, Queued, Running, Settled, Computing
<1> QED
  BY <1>1, <1>2, <1>3, <1>4, <1>5, <1>6 DEF Next

LEMMA IInvHolds == Spec => []IInv
BY InitIInv, NextKeeps, PTL DEF Spec

(* Every variable of the cache keeps its type, and only cached entries     *)
(* have expired.                                                           *)
THEOREM TypeCorrect == Spec => []TypeOK
<1>1. IInv => TypeOK
  BY DEF IInv
<1> QED
  BY <1>1, IInvHolds, PTL

(* _schedule_refresh: a key is in _refreshing exactly while one refresh of *)
(* it is queued or running.                                                *)
THEOREM RefreshedOnce == Spec => []OneRefresh
<1>1. IInv => OneRefresh
  <2> SUFFICES ASSUME IInv, NEW k \in Key
               PROVE  Cardinality(Queued(k)) + Cardinality(Running(k)) =
                      (IF k \in refreshing THEN 1 ELSE 0)
    BY DEF OneRefresh
  <2>1. Cardinality({}) = 0
    BY FS_EmptySet
  <2>2. \A x : Cardinality({x}) = 1
    BY FS_Singleton
  <2>3. CASE Queued(k) = {} /\ Running(k) = {}
    BY <2>1, <2>3 DEF IInv, RefreshOnce
  <2>4. ASSUME NEW i \in DOMAIN queue, Queued(k) = {i}, Running(k) = {}, k \in refreshing
        PROVE  Cardinality(Queued(k)) + Cardinality(Running(k)) = 1
    <3>1. Cardinality(Queued(k)) = 1 /\ Cardinality(Running(k)) = 0
      BY <2>1, <2>2, <2>4, Zenon
    <3> QED
      BY <3>1
  <2>5. ASSUME NEW w \in Worker, Queued(k) = {}, Running(k) = {w}, k \in refreshing
        PROVE  Cardinality(Queued(k)) + Cardinality(Running(k)) = 1
    <3>1. Cardinality(Queued(k)) = 0 /\ Cardinality(Running(k)) = 1
      BY <2>1, <2>2, <2>5, Zenon
    <3> QED
      BY <3>1
  <2>6. CASE k \in refreshing
    BY <2>4, <2>5, <2>6 DEF IInv, RefreshOnce
  <2> QED
    BY <2>3, <2>6 DEF IInv, RefreshOnce
<1> QED
  BY <1>1, IInvHolds, PTL

(* A burst of cold requests runs the query once, while no entry lapses.    *)
THEOREM ComputedOnce == Spec => []SingleFlight
<1>1. IInv => SingleFlight
  BY DEF IInv, Settled, LockHeld, Computing, SingleFlight
<1> QED
  BY <1>1, IInvHolds, PTL

(* A cached result never gives way to an older one, while no entry lapses: *)
(* the refresh that replaces it has read the database after it was stored. *)
THEOREM ResultsNeverOlder == Spec => NeverOlder
<1>1. IInv /\ [Next]_vars => [lapses = 0 => \A k \in cached : value'[k] >= value[k]]_vars
  <2> SUFFICES ASSUME IInv, Next, lapses = 0, NEW k \in cached
               PROVE  value'[k] >= value[k]
    BY DEF vars, entries
  <2>1. k \in Key /\ value \in [Key -> Version] /\ value[k] \in Int /\ value[k] >= value[k]
    BY Bounds DEF IInv, TypeOK
  <2>2. CASE UNCHANGED value
    BY <2>1, <2>2
  <2>3. ASSUME NEW c \in Caller, Lookup(c) \/ Recheck(c) PROVE UNCHANGED value
    <3>1. expired = {} /\ key[c] \in Key /\ GetEntry(key[c])
      BY <2>3 DEF Lookup, Recheck, IInv, TypeOK, Settled
    <3> QED
      BY <3>1, GetEntryQuiet DEF entries
  <2>4. ASSUME NEW c \in Caller, Store(c) PROVE value'[k] >= value[k]
    <3>1. key[c] \notin cached /\ value' = [value EXCEPT ![key[c]] = result[c]]
      BY <2>4 DEF Store, Goes, Put, IInv, Settled, Computing
    <3> QED
      BY <2>1, <3>1
  <2>5. ASSUME NEW w \in Worker, PutRefreshed(w) PROVE value'[k] >= value[k]
    <3>1. /\ value' = [value EXCEPT ![key[w]] = result[w]] /\ value[key[w]] <= result[w]
          /\ result[w] \in Int
      BY <2>5, WorkersCall, Bounds DEF PutRefreshed, Goes, Put, IInv, TypeOK, Settled
    <3> QED
      BY <2>1, <3>1
  <2>6. CASE Commit \/ Invalidate \/ \E j \in Key : Warm(j) \/ Lapse(j)
    BY <2>1, <2>6 DEF Commit, Invalidate, Warm, Lapse, entries
  <2>7. ASSUME NEW j \in Key, NEW t \in Thread, Request(t, j) PROVE UNCHANGED value
    BY <2>7 DEF Request, entries
  <2>8. ASSUME NEW c \in Caller, Acquire(c) \/ Query(c) \/ QueryFails(c) PROVE UNCHANGED value
    BY <2>8 DEF Acquire, Query, QueryFails, entries
  <2>9. ASSUME NEW w \in Worker, TakeJob(w) \/ Refresh(w) \/ RefreshFails(w) \/ Discard(w)
        PROVE  UNCHANGED value
    BY <2>9 DEF TakeJob, Refresh, RefreshFails, Discard, entries
  <2> QED
    BY <2>2, <2>3, <2>4, <2>5, <2>6, <2>7, <2>8, <2>9 DEF Next, InCall, InPool
<1> QED
  BY <1>1, IInvHolds, PTL DEF Spec, NeverOlder
=============================================================================
