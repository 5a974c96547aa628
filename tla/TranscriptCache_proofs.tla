----------------------- MODULE TranscriptCache_proofs -----------------------
(***************************************************************************)
(* What is cached and served under an ETag is never older than the ETag    *)
(* says, and a request that runs alone never fails in the dictionary: for  *)
(* any sessions, threads, uploads, lengths and size of the cache.  Nor     *)
(* does it lose count: until two threads have met in the cache, the        *)
(* counter is the bytes cached and the cap holds.                          *)
(***************************************************************************)
EXTENDS TranscriptCache, SequenceTheorems, Sums

Adding(p) == p \in {"load", "store"}

(* What a thread adds to the counter it does on its way to one of these.   *)
Returns(t) == then[t] \in {"idle", "evict", "shrink"}

(* No body is behind its ETag or ahead of the bucket.                      *)
BodiesFit == \A e \in Items : e[2] <= body[e] /\ body[e] <= bucket[e[1]]

(* Nor is what a thread asks for and has fetched.                          *)
Fits(t) ==
  pc[t] # "idle" =>
    /\ tag[t][2] <= bucket[tag[t][1]]
    /\ pc[t] \notin {"get", "fetch"} => tag[t][2] <= data[t] /\ data[t] <= bucket[tag[t][1]]

Versions ==
  /\ \A s \in Session : row[s] <= bucket[s]
  /\ BodiesFit
  /\ \A t \in Thread : Fits(t)

(* A thread finds in the dictionary what it is about to take out.          *)
Finds(t) ==
  /\ pc[t] \in {"move", "replace"} => tag[t] \in Items
  /\ pc[t] = "evict" \/ (Adding(pc[t]) /\ then[t] = "evict") => stale[t] \subseteq Items
  /\ pc[t] = "popOldest" => Items # {}

(* Until two threads meet in the cache, one at most is there.              *)
Solo ==
  ~ raced => \A t \in Thread :
    /\ Finds(t)
    /\ InCache(pc[t]) => \A u \in Thread \ {t} : ~ InCache(pc[u])

IInv == TypeOK /\ (\A t \in Thread : Returns(t)) /\ Versions /\ Solo

(***************************************************************************)
(* The ordered dictionary                                                  *)
(***************************************************************************)
LEMMA ItemsTyped == ASSUME order \in Seq(Etag) PROVE Items \subseteq Etag
BY DEF Items, ToSet

(* Taking out a key that is there leaves the others.                       *)
LEMMA Removed ==
  ASSUME NEW s \in Seq(Etag), IsInjective(s), NEW e \in ToSet(s)
  PROVE  /\ RemoveFirst(s, e) \in Seq(Etag) /\ IsInjective(RemoveFirst(s, e))
         /\ ToSet(RemoveFirst(s, e)) = ToSet(s) \ {e}
         /\ Len(RemoveFirst(s, e)) = Len(s) - 1
<1>1. PICK n \in DOMAIN s : s[n] = e
  BY DEF ToSet
<1>2. /\ DOMAIN s = 1 .. Len(s) /\ Len(s) \in Nat /\ n \in 1 .. Len(s)
      /\ \A i \in 1 .. Len(s) : s[i] = e => i = n
  BY <1>1 DEF IsInjective
<1>3. RemoveFirst(s, e) = RemoveAt(s, n)
  <2>1. {i \in 1 .. Len(s) : s[i] = e} = {n}
    BY <1>1, <1>2
  <2>2. Min({n}) = n
    BY <1>2 DEF Min
  <2> QED
    BY <1>1, <1>2, <2>1, <2>2 DEF RemoveFirst, SelectInSeq
<1> DEFINE a == SubSeq(s, 1, n - 1)
           b == SubSeq(s, n + 1, Len(s))
           r == RemoveAt(s, n)
<1>4. /\ a \in Seq(Etag) /\ Len(a) = n - 1 /\ \A i \in 1 .. n - 1 : a[i] = s[i]
      /\ b \in Seq(Etag) /\ Len(b) = Len(s) - n /\ \A i \in 1 .. Len(s) - n : b[i] = s[n + i]
  BY <1>2
<1> HIDE DEF a, b
<1>5. /\ r \in Seq(Etag) /\ Len(r) = Len(s) - 1
      /\ \A i \in 1 .. n - 1 : r[i] = s[i]
      /\ \A i \in n .. Len(s) - 1 : r[i] = s[i + 1]
  <2>1. r = a \o b
    BY DEF RemoveAt, a, b
  <2> HIDE DEF r
  <2>2. a \in Seq(Etag) /\ b \in Seq(Etag) /\ a \o b \in Seq(Etag) /\ Len(a \o b) = Len(a) + Len(b)
    BY <1>4, ConcatProperties
  <2>3. \A i \in 1 .. Len(a) + Len(b) : (a \o b)[i] = IF i <= Len(a) THEN a[i] ELSE b[i - Len(a)]
    BY <1>4, ConcatProperties
  <2>4. r \in Seq(Etag) /\ Len(r) = Len(s) - 1
    BY <1>2, <1>4, <2>1, <2>2
  <2>5. ASSUME NEW i \in 1 .. n - 1 PROVE r[i] = s[i]
    <3>1. i \in 1 .. Len(a) + Len(b) /\ i <= Len(a)
      BY <1>2, <1>4
    <3> QED
      BY <1>4, <2>1, <2>3, <3>1
  <2>6. ASSUME NEW i \in n .. Len(s) - 1 PROVE r[i] = s[i + 1]
    <3>1. /\ i \in 1 .. Len(a) + Len(b) /\ ~ (i <= Len(a))
          /\ i - Len(a) \in 1 .. Len(s) - n /\ n + (i - Len(a)) = i + 1
      BY <1>2, <1>4
    <3>2. b[i - Len(a)] = s[n + (i - Len(a))]
      BY <1>4, <3>1
    <3> QED
      BY <2>1, <2>3, <3>1, <3>2
  <2> QED
    BY <2>4, <2>5, <2>6
<1>6. DOMAIN r = 1 .. Len(s) - 1
  BY <1>5
<1>7. IsInjective(r)
  <2> SUFFICES ASSUME NEW i \in DOMAIN r, NEW j \in DOMAIN r, r[i] = r[j] PROVE i = j
    BY DEF IsInjective
  <2> DEFINE f(m) == IF m < n THEN m ELSE m + 1
  <2>1. \A m \in DOMAIN r : f(m) \in DOMAIN s /\ r[m] = s[f(m)]
    BY <1>2, <1>5, <1>6
  <2>2. f(i) = f(j)
    BY <2>1 DEF IsInjective
  <2> QED
    BY <1>2, <1>6, <2>2
<1>8. ToSet(r) = ToSet(s) \ {e}
  <2>1. ASSUME NEW i \in DOMAIN r PROVE r[i] \in ToSet(s) \ {e}
    BY <1>1, <1>2, <1>5, <1>6 DEF ToSet
  <2>2. ASSUME NEW i \in DOMAIN s, s[i] # e PROVE \E j \in DOMAIN r : r[j] = s[i]
    <3>1. CASE i < n
      BY <1>2, <1>5, <1>6, <3>1
    <3>2. CASE i > n
      <4>1. i - 1 \in n .. Len(s) - 1 /\ i - 1 \in DOMAIN r
        BY <1>2, <1>6, <3>2
      <4> QED
        BY <1>2, <1>5, <4>1
    <3> QED
      BY <1>1, <1>2, <2>2, <3>1, <3>2
  <2> QED
    BY <2>1, <2>2 DEF ToSet
<1> QED
  BY <1>3, <1>5, <1>7, <1>8

(* Putting in a key that is not there adds it.                             *)
LEMMA Appended ==
  ASSUME NEW s \in Seq(Etag), IsInjective(s), NEW e \in Etag, e \notin ToSet(s)
  PROVE  /\ Append(s, e) \in Seq(Etag) /\ IsInjective(Append(s, e))
         /\ ToSet(Append(s, e)) = ToSet(s) \cup {e}
         /\ Len(Append(s, e)) = Len(s) + 1
<1> DEFINE r == Append(s, e)
<1>1. /\ r \in Seq(Etag) /\ Len(r) = Len(s) + 1 /\ Len(s) \in Nat
      /\ \A i \in 1 .. Len(s) : r[i] = s[i]
      /\ r[Len(s) + 1] = e
  BY AppendProperties
<1>2. DOMAIN s = 1 .. Len(s) /\ DOMAIN r = 1 .. Len(s) + 1
  BY <1>1
<1>3. DOMAIN r = DOMAIN s \cup {Len(s) + 1} /\ \A i \in DOMAIN s : r[i] = s[i] /\ s[i] # e
  BY <1>1, <1>2 DEF ToSet
<1>4. IsInjective(r)
  BY <1>1, <1>3 DEF IsInjective
<1>5. ToSet(r) = ToSet(s) \cup {e}
  BY <1>1, <1>3 DEF ToSet
<1> QED
  BY <1>1, <1>4, <1>5

(***************************************************************************)
(* The parts of a step                                                     *)
(***************************************************************************)
LruTyped ==
  order \in Seq(Etag) /\ IsInjective(order) /\ body \in [Etag -> Version] /\ idle \subseteq Items

LocalTyped ==
  /\ tag \in [Thread -> Etag] /\ data \in [Thread -> Version] /\ stale \in [Thread -> SUBSET Etag]
  /\ delta \in [Thread -> Int] /\ then \in [Thread -> Step] /\ loaded \in [Thread -> Int]

LEMMA Bounds == /\ MaxVersion \in Nat \ {0} /\ MaxRequests \in Nat /\ MaxBytes \in Nat
                /\ Version = 1 .. MaxVersion /\ 1 \in Version /\ Version \subseteq Nat
                /\ \A v \in Version : Length[v] \in Nat
                /\ NoTag \in Etag
<1>1. /\ MaxVersion \in Nat \ {0} /\ MaxRequests \in Nat /\ MaxBytes \in Nat
      /\ Version = 1 .. MaxVersion /\ 1 \in Version /\ Version \subseteq Nat
  BY LengthAssumption DEF Version
<1>2. \A v \in Version : Length[v] \in Nat
  BY LengthAssumption DEF Version
<1>3. \E e \in Etag : TRUE
  <2>1. PICK s \in Session : TRUE
    BY SessionAssumption
  <2>2. <<s, 1>> \in Etag
    BY <1>1, <2>1 DEF Etag
  <2> QED
    BY <2>2
<1> QED
  BY <1>1, <1>2, <1>3 DEF NoTag

LEMMA EtagTyped == ASSUME NEW e \in Etag PROVE e[1] \in Session /\ e[2] \in Version /\ e = <<e[1], e[2]>>
BY DEF Etag

(* What a thread does to the cache and to its own locals preserves IInv,   *)
(* when it fits and takes out what is there: another thread that could be  *)
(* surprised by it is in the cache, and then the two have met.             *)
LEMMA ThreadKeeps ==
  ASSUME IInv, NEW t \in Thread, NEW from, NEW to \in Step, Goes(t, from, to),
         UNCHANGED world, LruTyped', LocalTyped', size' \in Int, requests' \in 0 .. MaxRequests,
         \A u \in Thread \ {t} : /\ tag'[u] = tag[u] /\ data'[u] = data[u]
                                 /\ stale'[u] = stale[u] /\ then'[u] = then[u],
         Returns(t)', BodiesFit', Fits(t)',
         Items' = Items \/ InCache(to),
         ~ raced => Finds(t)'
  PROVE  IInv'
<1>1. /\ pc' \in [Thread -> Step] /\ pc'[t] = to
      /\ \A u \in Thread \ {t} : pc'[u] = pc[u]
      /\ raced' = (raced \/ (InCache(to) /\ \E u \in Thread \ {t} : InCache(pc[u])))
      /\ bucket' = bucket /\ row' = row
  BY DEF Goes, IInv, TypeOK, world
<1>2. TypeOK'
  BY <1>1 DEF IInv, TypeOK, LruTyped, LocalTyped
<1>3. \A u \in Thread : Returns(u)'
  BY DEF IInv, Returns
<1>4. Versions'
  <2>1. ASSUME NEW u \in Thread \ {t} PROVE Fits(u)'
    BY <1>1, <2>1 DEF IInv, Versions, Fits
  <2> QED
    BY <1>1, <2>1 DEF IInv, Versions
<1>5. Solo'
  <2> SUFFICES ASSUME ~ raced' PROVE Solo'
    BY DEF Solo
  <2>1. /\ ~ raced /\ Finds(t)'
        /\ InCache(to) => \A u \in Thread \ {t} : ~ InCache(pc[u])
    BY <1>1
  <2>2. ASSUME NEW u \in Thread \ {t} PROVE Finds(u)'
    <3>1. CASE Items' = Items
      BY <1>1, <2>1, <3>1 DEF IInv, Solo, Finds, Adding
    <3>2. CASE InCache(to)
      BY <1>1, <2>1, <3>2 DEF InCache, Finds, Adding
    <3> QED
      BY <3>1, <3>2
  <2>3. ASSUME NEW u \in Thread, NEW v \in Thread \ {u}, InCache(pc'[u])
        PROVE  ~ InCache(pc'[v])
    BY <1>1, <2>1, <2>3 DEF IInv, Solo
  <2> QED
    BY <2>1, <2>2, <2>3 DEF Solo
<1> QED
  BY <1>2, <1>3, <1>4, <1>5 DEF IInv

LEMMA Forgotten ==
  ASSUME TypeOK, NEW t \in Thread, NEW to, Forgets(t, to)
  PROVE  /\ tag' \in [Thread -> Etag] /\ data' \in [Thread -> Version]
         /\ stale' \in [Thread -> SUBSET Etag]
         /\ \A u \in Thread \ {t} : tag'[u] = tag[u] /\ data'[u] = data[u] /\ stale'[u] = stale[u]
BY Bounds DEF Forgets, local, TypeOK

LEMMA Dropped ==
  ASSUME IInv, NEW e \in Items, Drop(e), bucket' = bucket
  PROVE  LruTyped' /\ BodiesFit' /\ Items' = Items \ {e}
<1>1. order \in Seq(Etag) /\ IsInjective(order) /\ e \in ToSet(order) /\ idle \subseteq Items
  BY DEF IInv, TypeOK, Items
<1>2. /\ order' \in Seq(Etag) /\ IsInjective(order') /\ Items' = Items \ {e}
  BY <1>1, Removed DEF Drop, Items
<1> QED
  BY <1>1, <1>2 DEF Drop, LruTyped, IInv, TypeOK, Versions, BodiesFit

LEMMA Assigned ==
  ASSUME IInv, NEW e \in Etag, NEW v \in Version, e[2] <= v, v <= bucket[e[1]],
         Assign(e, v), bucket' = bucket
  PROVE  LruTyped' /\ BodiesFit' /\ Items' = Items \cup {e}
<1>1. order \in Seq(Etag) /\ IsInjective(order) /\ idle \subseteq Items
  BY DEF IInv, TypeOK
<1>2. order' \in Seq(Etag) /\ IsInjective(order') /\ Items' = Items \cup {e}
  <2>1. CASE e \in Items
    BY <1>1, <2>1 DEF Assign, Items
  <2>2. CASE e \notin Items
    <3>1. order' = Append(order, e) /\ e \notin ToSet(order)
      BY <2>2 DEF Assign, Items
    <3> QED
      BY <1>1, <3>1, Appended DEF Items
  <2> QED
    BY <2>1, <2>2
<1>3. body' = [body EXCEPT ![e] = v] /\ body \in [Etag -> Version] /\ Items \subseteq Etag
  BY <1>1, ItemsTyped DEF Assign, IInv, TypeOK
<1>4. BodiesFit'
  BY <1>2, <1>3 DEF IInv, Versions, BodiesFit
<1>5. LruTyped'
  BY <1>1, <1>2, <1>3 DEF Assign, LruTyped
<1> QED
  BY <1>2, <1>4, <1>5

LEMMA LruKept ==
  ASSUME IInv, UNCHANGED lru, bucket' = bucket
  PROVE  LruTyped' /\ BodiesFit' /\ Items' = Items
BY DEF lru, IInv, TypeOK, LruTyped, Versions, BodiesFit, Items

LEMMA Accounted ==
  ASSUME IInv, NEW t \in Thread, NEW n \in Int, NEW next \in {"idle", "evict", "shrink"},
         Account(t, n, next)
  PROVE  /\ Goes(t, pc[t], "load") /\ "load" \in Step
         /\ delta' \in [Thread -> Int] /\ loaded' \in [Thread -> Int]
         /\ then' \in [Thread -> Step] /\ then'[t] = next /\ Returns(t)'
         /\ \A u \in Thread \ {t} : then'[u] = then[u]
<1>1. Goes(t, pc[t], "load") /\ "load" \in Step /\ next \in Step
  BY DEF Account, Step, InPut
<1>2. /\ delta' = [delta EXCEPT ![t] = n] /\ then' = [then EXCEPT ![t] = next]
      /\ loaded' = loaded
  BY DEF Account
<1>3. delta' \in [Thread -> Int] /\ loaded' \in [Thread -> Int]
  BY <1>2 DEF IInv, TypeOK
<1>4. /\ then' \in [Thread -> Step] /\ then'[t] = next
      /\ \A u \in Thread \ {t} : then'[u] = then[u]
  BY <1>1, <1>2 DEF IInv, TypeOK
<1> QED
  BY <1>1, <1>3, <1>4 DEF Returns

(***************************************************************************)
(* The world                                                               *)
(***************************************************************************)
LEMMA WorldKeeps ==
  ASSUME IInv, NEW s \in Session, Upload(s) \/ Ingest(s)
  PROVE  IInv'
<1>1. UNCHANGED <<order, body, idle, size, pc, tag, data, stale, delta, then, loaded,
                  requests, raced>>
  BY DEF Upload, Ingest, lru, local, adding
<1>2. /\ bucket \in [Session -> Version] /\ row \in [Session -> Version]
      /\ \A z \in Session : row[z] <= bucket[z]
  BY DEF IInv, TypeOK, Versions
<1>3. \/ bucket[s] < MaxVersion /\ bucket' = [bucket EXCEPT ![s] = @ + 1] /\ row' = row
      \/ bucket' = bucket /\ row' = [row EXCEPT ![s] = bucket[s]]
  BY DEF Upload, Ingest
<1>4. /\ bucket' \in [Session -> Version] /\ row' \in [Session -> Version]
      /\ \A z \in Session : row'[z] <= bucket'[z] /\ bucket[z] <= bucket'[z]
  <2>1. CASE bucket[s] < MaxVersion /\ bucket' = [bucket EXCEPT ![s] = @ + 1] /\ row' = row
    <3>1. bucket[s] \in Version /\ bucket[s] + 1 \in Version /\ bucket[s] <= bucket[s] + 1
      BY <1>2, <2>1, Bounds
    <3>2. \A z \in Session : bucket[z] \in Nat /\ row[z] \in Nat
      BY <1>2, Bounds
    <3> QED
      BY <1>2, <2>1, <3>1, <3>2
  <2>2. CASE bucket' = bucket /\ row' = [row EXCEPT ![s] = bucket[s]]
    <3>1. \A z \in Session : bucket[z] \in Nat /\ row[z] \in Nat
      BY <1>2, Bounds
    <3> QED
      BY <1>2, <2>2, <3>1
  <2> QED
    BY <1>3, <2>1, <2>2
<1>5. TypeOK' /\ \A t \in Thread : Returns(t)'
  BY <1>1, <1>4 DEF IInv, TypeOK, Items, Returns
<1>6. BodiesFit'
  <2> SUFFICES ASSUME NEW e \in Items PROVE e[2] <= body[e] /\ body[e] <= bucket'[e[1]]
    BY <1>1 DEF BodiesFit, Items
  <2>1. e \in Etag /\ e[1] \in Session /\ body[e] \in Version /\ e[2] \in Version
    BY ItemsTyped, EtagTyped DEF IInv, TypeOK
  <2>2. e[2] <= body[e] /\ body[e] <= bucket[e[1]]
    BY DEF IInv, Versions, BodiesFit
  <2> QED
    BY <1>2, <1>4, <2>1, <2>2, Bounds
<1>7. ASSUME NEW t \in Thread PROVE Fits(t)'
  <2>1. tag[t] \in Etag /\ data[t] \in Version
    BY DEF IInv, TypeOK
  <2>2. tag[t][1] \in Session /\ tag[t][2] \in Version
    BY <2>1, EtagTyped
  <2>3. \A n \in Version : n <= bucket[tag[t][1]] => n <= bucket'[tag[t][1]]
    BY <1>2, <1>4, <2>2, Bounds
  <2> QED
    BY <1>1, <2>1, <2>2, <2>3 DEF IInv, Versions, Fits
<1>8. Solo'
  BY <1>1 DEF IInv, Solo, Finds, Items, Adding, InCache
<1> QED
  BY <1>4, <1>5, <1>6, <1>7, <1>8 DEF IInv, Versions

LEMMA IdleKeeps == ASSUME IInv, NEW e \in Etag, GoIdle(e) PROVE IInv'
<1>1. UNCHANGED <<bucket, row, order, body, size, pc, tag, data, stale, delta, then, loaded,
                  requests, raced>>
  BY DEF GoIdle, world, local, adding
<1>2. idle' \subseteq Items
  BY DEF GoIdle, IInv, TypeOK
<1> QED
  BY <1>1, <1>2 DEF IInv, TypeOK, Returns, Versions, BodiesFit, Fits, Solo, Finds, Items,
     Adding, InCache

(***************************************************************************)
(* The steps of a request                                                  *)
(***************************************************************************)
LEMMA Typed ==
  ASSUME IInv, NEW t \in Thread
  PROVE  /\ LruTyped /\ LocalTyped /\ BodiesFit /\ Fits(t) /\ Returns(t) /\ size \in Int
         /\ requests \in 0 .. MaxRequests /\ Items \subseteq Etag
         /\ tag[t] \in Etag /\ data[t] \in Version /\ stale[t] \in SUBSET Etag
         /\ raced \in BOOLEAN /\ (~ raced => Finds(t))
BY ItemsTyped DEF IInv, TypeOK, LruTyped, LocalTyped, Versions, Solo

LEMMA RequestKeeps == ASSUME IInv, NEW t \in Thread, Request(t) PROVE IInv'
<1>1. UNCHANGED <<bucket, row, order, body, idle, size, data, stale, delta, then, loaded>>
  BY DEF Request, world, lru, adding
<1>2. PICK s \in Session : tag' = [tag EXCEPT ![t] = <<s, row[s]>>]
  BY DEF Request
<1>3. Goes(t, "idle", "get") /\ "get" \in Step /\ requests' \in 0 .. MaxRequests
  BY Bounds DEF Request, Step, IInv, TypeOK
<1>4. <<s, row[s]>> \in Etag /\ row[s] <= bucket[s]
  BY DEF IInv, TypeOK, Versions, Etag
<1>5. /\ tag' \in [Thread -> Etag] /\ tag'[t] = <<s, row[s]>>
      /\ \A u \in Thread \ {t} : tag'[u] = tag[u]
  BY <1>2, <1>4 DEF IInv, TypeOK
<1>6. pc'[t] = "get"
  BY <1>3 DEF Goes, IInv, TypeOK
<1>7. LocalTyped' /\ Fits(t)'
  BY <1>1, <1>4, <1>5, <1>6, Typed DEF LocalTyped, Fits
<1>8. Finds(t)' /\ Returns(t)'
  BY <1>1, <1>6, Typed DEF Finds, Adding, Returns
<1>9. LruTyped' /\ BodiesFit' /\ Items' = Items /\ size' \in Int
  BY <1>1, LruKept, Typed DEF lru
<1>10. UNCHANGED world
  BY <1>1 DEF world
<1> QED
  BY <1>1, <1>3, <1>5, <1>7, <1>8, <1>9, <1>10, ThreadKeeps

(* What changes neither the cache nor the locals is safe if the next step  *)
(* finds what it takes out.                                                *)
LEMMA MoveKeeps ==
  ASSUME IInv, NEW t \in Thread, NEW from, NEW to \in Step, Goes(t, from, to),
         UNCHANGED <<world, lru, size, tag, then, delta, requests>>,
         loaded' \in [Thread -> Int], data' \in [Thread -> Version],
         stale' \in [Thread -> SUBSET Etag],
         \A u \in Thread \ {t} : data'[u] = data[u] /\ stale'[u] = stale[u],
         Fits(t)', ~ raced => Finds(t)'
  PROVE  IInv'
<1>1. LruTyped' /\ BodiesFit' /\ Items' = Items
  BY LruKept DEF world
<1>2. LocalTyped' /\ size' \in Int /\ requests' \in 0 .. MaxRequests /\ Returns(t)'
  BY Typed DEF LocalTyped, Returns
<1>3. UNCHANGED world
  OBVIOUS
<1> QED
  BY <1>1, <1>2, <1>3, ThreadKeeps

(* The lookup.                                                             *)
LEMMA LookupKeeps == ASSUME IInv, NEW t \in Thread, Hit(t) \/ Miss(t) PROVE IInv'
<1>1. PICK to \in {"touch", "fetch"} :
        /\ Goes(t, "get", to)
        /\ \/ to = "touch" /\ tag[t] \in Items /\ data' = [data EXCEPT ![t] = body[tag[t]]]
           \/ to = "fetch" /\ data' = data
  BY DEF Hit, Miss, local
<1>2. UNCHANGED <<world, lru, size, tag, stale, then, delta, loaded, requests>>
  BY DEF Hit, Miss, local, adding
<1>3. to \in Step
  BY DEF Step
<1>4. pc[t] = "get" /\ pc'[t] = to
  BY <1>1 DEF Goes, IInv, TypeOK
<1>5. body[tag[t]] \in Version /\ data' \in [Thread -> Version]
  BY <1>1, Typed DEF IInv, TypeOK
<1>6. \A u \in Thread \ {t} : data'[u] = data[u]
  BY <1>1 DEF IInv, TypeOK
<1>7. Fits(t)'
  <2>1. CASE to = "touch" /\ tag[t] \in Items /\ data' = [data EXCEPT ![t] = body[tag[t]]]
    <3>1. data'[t] = body[tag[t]]
      BY <2>1 DEF IInv, TypeOK
    <3> QED
      BY <1>2, <1>4, <2>1, <3>1, Typed DEF Fits, BodiesFit, world
  <2>2. CASE to = "fetch" /\ data' = data
    BY <1>2, <1>4, <2>2, Typed DEF Fits, world
  <2> QED
    BY <1>1, <2>1, <2>2
<1>8. Finds(t)'
  BY <1>4 DEF Finds, Adding
<1>9. loaded' \in [Thread -> Int] /\ stale' \in [Thread -> SUBSET Etag]
  BY <1>2 DEF IInv, TypeOK
<1> QED
  BY <1>1, <1>2, <1>3, <1>5, <1>6, <1>7, <1>8, <1>9, MoveKeeps

(* The fetched object may be newer than the row, never older.              *)
LEMMA FetchKeeps == ASSUME IInv, NEW t \in Thread, Fetch(t) PROVE IInv'
<1>1. /\ Goes(t, "fetch", "scan") /\ "scan" \in Step
      /\ data' = [data EXCEPT ![t] = bucket[tag[t][1]]]
      /\ UNCHANGED <<world, lru, size, tag, stale, then, delta, loaded, requests>>
  BY DEF Fetch, FetchedBody, adding, Step, InPut
<1>2. pc[t] = "fetch" /\ pc'[t] = "scan"
  BY <1>1 DEF Goes, IInv, TypeOK
<1>3. tag[t][1] \in Session /\ bucket[tag[t][1]] \in Version
  BY Typed, EtagTyped DEF IInv, TypeOK
<1>4. /\ data' \in [Thread -> Version] /\ data'[t] = bucket[tag[t][1]]
      /\ \A u \in Thread \ {t} : data'[u] = data[u]
  BY <1>1, <1>3 DEF IInv, TypeOK
<1>5. Fits(t)'
  <2>1. bucket[tag[t][1]] <= bucket[tag[t][1]]
    BY <1>3, Bounds
  <2> QED
    BY <1>1, <1>2, <1>4, <2>1, Typed DEF Fits, world
<1>6. Finds(t)' /\ loaded' \in [Thread -> Int] /\ stale' \in [Thread -> SUBSET Etag]
  BY <1>1, <1>2 DEF Finds, Adding, IInv, TypeOK
<1> QED
  BY <1>1, <1>4, <1>5, <1>6, MoveKeeps

(* put() looks for idle entries, and decides what to do next; += reads the *)
(* counter.                                                                *)
LEMMA DecideKeeps ==
  ASSUME IInv, NEW t \in Thread, Scan(t) \/ Load(t) \/ EvictedAll(t) \/ Check(t) \/ Shrink(t)
  PROVE  IInv'
<1>1. UNCHANGED <<world, lru, size, tag, data, then, delta, requests>>
  BY DEF Scan, Load, EvictedAll, Check, Shrink, local, adding
<1>2. loaded' \in [Thread -> Int] /\ data' \in [Thread -> Version]
  BY <1>1 DEF Scan, Load, EvictedAll, Check, Shrink, adding, IInv, TypeOK
<1>3. /\ stale' \in [Thread -> SUBSET Etag]
      /\ \A u \in Thread \ {t} : stale'[u] = stale[u]
      /\ stale'[t] = stale[t] \/ stale'[t] \subseteq Items
      /\ Scan(t) => stale'[t] \subseteq Items
  <2>1. stale \in [Thread -> SUBSET Etag] /\ idle \subseteq Items /\ Items \subseteq Etag
    BY Typed DEF IInv, TypeOK
  <2>2. stale' = stale \/ stale' = [stale EXCEPT ![t] = idle]
    BY DEF Scan, Load, EvictedAll, Check, Shrink, local
  <2>3. Scan(t) => stale' = [stale EXCEPT ![t] = idle]
    BY DEF Scan
  <2> QED
    BY <2>1, <2>2, <2>3
<1>4. PICK to \in {"evict", "store", "check", "replace", "shrink", "popOldest", "insert"} :
        /\ Goes(t, pc[t], to)
        /\ pc[t] \in {"scan", "load", "evict", "check", "shrink"}
        /\ to = "evict" => Scan(t)
        /\ to = "store" => pc[t] = "load"
        /\ to = "replace" => tag[t] \in Items
        /\ to = "popOldest" => order # <<>>
  <2>1. CASE Load(t)
    BY <2>1 DEF Load, Goes
  <2>2. CASE EvictedAll(t)
    BY <2>2 DEF EvictedAll, Goes
  <2>3. CASE Check(t)
    BY <2>3 DEF Check, Goes
  <2>4. CASE Shrink(t)
    BY <2>4 DEF Shrink, MustShrink, Goes
  <2>5. CASE Scan(t)
    <3>1. Goes(t, pc[t], "evict") /\ pc[t] = "scan"
      BY <2>5 DEF Scan, Goes
    <3> QED
      BY <2>5, <3>1
  <2> QED
    BY <2>1, <2>2, <2>3, <2>4, <2>5
<1>5. to \in Step
  BY DEF Step, InPut
<1>6. pc'[t] = to
  BY <1>4 DEF Goes, IInv, TypeOK
<1>7. Fits(t)'
  BY <1>1, <1>4, <1>6, Typed DEF Fits, world
<1>8. ~ raced => Finds(t)'
  <2>1. Items' = Items /\ (order # <<>> => Items # {})
    <3>1. order # <<>> => 1 \in DOMAIN order
      BY DEF IInv, TypeOK
    <3> QED
      BY <1>1, <3>1 DEF lru, Items, ToSet
  <2> QED
    BY <1>1, <1>3, <1>4, <1>6, <2>1, Typed DEF Finds, Adding
<1>9. \A u \in Thread \ {t} : data'[u] = data[u]
  BY <1>1
<1> QED
  BY <1>1, <1>2, <1>3, <1>4, <1>5, <1>7, <1>8, <1>9, MoveKeeps

(* A request that touches its entry puts it back if it has been evicted.   *)
LEMMA TouchKeeps == ASSUME IInv, NEW t \in Thread, Touch(t) PROVE IInv'
<1>1. /\ Goes(t, "touch", "move") /\ "move" \in Step /\ InCache("move")
      /\ Assign(tag[t], data[t])
      /\ UNCHANGED <<world, bucket, size, tag, data, stale, delta, then, loaded, requests>>
  BY DEF Touch, world, local, adding, Step, InCache
<1>2. pc[t] = "touch" /\ pc'[t] = "move"
  BY <1>1 DEF Goes, IInv, TypeOK
<1>3. tag[t][2] <= data[t] /\ data[t] <= bucket[tag[t][1]] /\ tag[t] \in Etag /\ data[t] \in Version
  BY <1>2, Typed DEF Fits
<1>4. LruTyped' /\ BodiesFit' /\ Items' = Items \cup {tag[t]}
  BY <1>1, <1>3, Assigned
<1>5. Fits(t)' /\ Finds(t)' /\ Returns(t)'
  BY <1>1, <1>2, <1>4, Typed DEF Fits, Finds, Adding, Returns
<1>6. LocalTyped' /\ size' \in Int /\ requests' \in 0 .. MaxRequests
  BY <1>1, Typed DEF LocalTyped
<1> QED
  BY <1>1, <1>4, <1>5, <1>6, ThreadKeeps

LEMMA MoveToEndKeeps == ASSUME IInv, NEW t \in Thread, MoveToEnd(t) PROVE IInv'
<1>1. /\ Goes(t, "move", "idle") /\ "idle" \in Step /\ tag[t] \in Items
      /\ order' = Append(RemoveFirst(order, tag[t]), tag[t])
      /\ UNCHANGED <<world, bucket, body, idle, size, delta, then, loaded, requests>>
      /\ Forgets(t, "idle")
  BY DEF MoveToEnd, world, adding, Step
<1>2. pc'[t] = "idle"
  BY <1>1 DEF Goes, IInv, TypeOK
<1>3. order' \in Seq(Etag) /\ IsInjective(order') /\ Items' = Items
  <2> DEFINE rest == RemoveFirst(order, tag[t])
  <2>1. order \in Seq(Etag) /\ IsInjective(order) /\ tag[t] \in ToSet(order) /\ tag[t] \in Etag
    BY <1>1, Typed DEF IInv, TypeOK, Items
  <2>2. rest \in Seq(Etag) /\ IsInjective(rest) /\ ToSet(rest) = ToSet(order) \ {tag[t]}
    BY <2>1, Removed
  <2> HIDE DEF rest
  <2>3. order' = Append(rest, tag[t]) /\ tag[t] \notin ToSet(rest)
    BY <1>1, <2>2 DEF rest
  <2>4. /\ order' \in Seq(Etag) /\ IsInjective(order')
        /\ ToSet(order') = ToSet(rest) \cup {tag[t]}
    BY <2>1, <2>2, <2>3, Appended
  <2>5. ToSet(order') = ToSet(order)
    BY <2>1, <2>2, <2>4
  <2> QED
    BY <2>4, <2>5 DEF Items
<1>4. LruTyped' /\ BodiesFit'
  BY <1>1, <1>3, Typed DEF LruTyped, BodiesFit
<1>5. LocalTyped' /\ Returns(t)' /\ size' \in Int /\ requests' \in 0 .. MaxRequests
  BY <1>1, Forgotten, Typed DEF LocalTyped, Returns, IInv
<1>6. Fits(t)' /\ Finds(t)'
  BY <1>2 DEF Fits, Finds, Adding
<1>7. \A u \in Thread \ {t} : /\ tag'[u] = tag[u] /\ data'[u] = data[u]
                              /\ stale'[u] = stale[u] /\ then'[u] = then[u]
  BY <1>1, Forgotten DEF IInv
<1> QED
  BY <1>1, <1>3, <1>4, <1>5, <1>6, <1>7, ThreadKeeps

(* A thread drops an entry, and goes on to account for it.                 *)
LEMMA DropKeeps ==
  ASSUME IInv, NEW t \in Thread, EvictIdle(t) \/ Replace(t) \/ PopOldest(t)
  PROVE  IInv'
<1>1. UNCHANGED <<world, bucket, size, tag, data, requests>> /\ InCache("load") /\ pc[t] \notin {"idle", "get", "fetch"}
  BY DEF EvictIdle, Replace, PopOldest, world, local, InCache
<1>2. PICK e \in Items, next \in {"evict", "shrink"} :
        /\ Drop(e) /\ Account(t, -Length[body[e]], next)
        /\ \/ next = "shrink" /\ stale' = stale
           \/ next = "evict" /\ pc[t] = "evict" /\ stale' = [stale EXCEPT ![t] = @ \ {e}]
  <2>1. CASE EvictIdle(t)
    BY <2>1 DEF EvictIdle
  <2>2. CASE Replace(t)
    BY <2>2 DEF Replace, local
  <2>3. CASE PopOldest(t)
    <3>1. order[1] \in Items
      <4>1. order \in Seq(Etag) /\ order # <<>>
        BY <2>3 DEF PopOldest, IInv, TypeOK
      <4> QED
        BY <4>1 DEF Items, ToSet
    <3> QED
      BY <2>3, <3>1 DEF PopOldest, local
  <2> QED
    BY <2>1, <2>2, <2>3
<1>3. -Length[body[e]] \in Int
  <2>1. body[e] \in Version
    BY Typed DEF IInv, TypeOK
  <2> QED
    BY <2>1, Bounds
<1>4. LruTyped' /\ BodiesFit' /\ Items' = Items \ {e}
  BY <1>1, <1>2, Dropped
<1>5. /\ Goes(t, pc[t], "load") /\ "load" \in Step
      /\ delta' \in [Thread -> Int] /\ loaded' \in [Thread -> Int]
      /\ then' \in [Thread -> Step] /\ then'[t] = next /\ Returns(t)'
      /\ \A u \in Thread \ {t} : then'[u] = then[u]
  BY <1>2, <1>3, Accounted
<1>6. /\ stale' \in [Thread -> SUBSET Etag]
      /\ \A u \in Thread \ {t} : stale'[u] = stale[u]
      /\ next = "evict" => pc[t] = "evict" /\ stale'[t] = stale[t] \ {e}
  BY <1>2, Typed DEF IInv, TypeOK
<1>7. LocalTyped' /\ size' \in Int /\ requests' \in 0 .. MaxRequests
  BY <1>1, <1>5, <1>6, Typed DEF LocalTyped
<1>8. pc'[t] = "load"
  BY <1>5 DEF Goes, IInv, TypeOK
<1>9. Fits(t)'
  BY <1>1, <1>8, Typed DEF Fits
<1>10. ~ raced => Finds(t)'
  BY <1>4, <1>5, <1>6, <1>8, Typed DEF Finds, Adding
<1> QED
  BY <1>1, <1>4, <1>5, <1>6, <1>7, <1>9, <1>10, ThreadKeeps

LEMMA InsertKeeps == ASSUME IInv, NEW t \in Thread, Insert(t) PROVE IInv'
<1>1. /\ UNCHANGED <<world, bucket, size, tag, data, stale, requests>> /\ InCache("load")
      /\ pc[t] = "insert" /\ Assign(tag[t], data[t])
      /\ Account(t, Length[data[t]], "idle")
  BY DEF Insert, world, local, InCache
<1>2. tag[t][2] <= data[t] /\ data[t] <= bucket[tag[t][1]] /\ tag[t] \in Etag /\ data[t] \in Version
  BY <1>1, Typed DEF Fits
<1>3. LruTyped' /\ BodiesFit' /\ Items' = Items \cup {tag[t]}
  BY <1>1, <1>2, Assigned
<1>4. Length[data[t]] \in Int
  BY <1>2, Bounds
<1>5. /\ Goes(t, pc[t], "load") /\ "load" \in Step
      /\ delta' \in [Thread -> Int] /\ loaded' \in [Thread -> Int]
      /\ then' \in [Thread -> Step] /\ then'[t] = "idle" /\ Returns(t)'
      /\ \A u \in Thread \ {t} : then'[u] = then[u]
  BY <1>1, <1>4, Accounted
<1>6. LocalTyped' /\ size' \in Int /\ requests' \in 0 .. MaxRequests
  BY <1>1, <1>5, Typed DEF LocalTyped
<1>7. pc'[t] = "load"
  BY <1>5 DEF Goes, IInv, TypeOK
<1>8. Fits(t)' /\ Finds(t)'
  BY <1>1, <1>5, <1>7, Typed DEF Fits, Finds, Adding
<1> QED
  BY <1>1, <1>3, <1>5, <1>6, <1>8, ThreadKeeps

(* The counter is written, and put() goes on or returns.                   *)
LEMMA StoreKeeps == ASSUME IInv, NEW t \in Thread, Store(t) PROVE IInv'
<1>1. /\ Goes(t, "store", then[t]) /\ then[t] \in {"idle", "evict", "shrink"}
      /\ UNCHANGED <<world, lru, bucket, requests>>
      /\ size' = loaded[t] + delta[t]
      /\ delta' = [delta EXCEPT ![t] = 0] /\ then' = [then EXCEPT ![t] = "idle"]
      /\ loaded' = [loaded EXCEPT ![t] = 0]
      /\ Forgets(t, then[t])
  BY Typed DEF Store, world, Returns
<1>2. pc[t] = "store" /\ pc'[t] = then[t] /\ then[t] \in Step /\ "idle" \in Step
  BY <1>1 DEF Goes, Step, InPut, IInv, TypeOK
<1>3. LruTyped' /\ BodiesFit' /\ Items' = Items
  BY <1>1, LruKept
<1>4. /\ delta' \in [Thread -> Int] /\ loaded' \in [Thread -> Int] /\ size' \in Int
      /\ then' \in [Thread -> Step] /\ then'[t] = "idle" /\ \A u \in Thread \ {t} : then'[u] = then[u]
  BY <1>1, <1>2 DEF IInv, TypeOK
<1>5. /\ tag' \in [Thread -> Etag] /\ data' \in [Thread -> Version]
      /\ stale' \in [Thread -> SUBSET Etag]
      /\ \A u \in Thread \ {t} : tag'[u] = tag[u] /\ data'[u] = data[u] /\ stale'[u] = stale[u]
  BY <1>1, Forgotten DEF IInv
<1>6. then[t] # "idle" => UNCHANGED <<tag, data, stale>>
  BY <1>1 DEF Forgets, local
<1>7. Fits(t)'
  BY <1>1, <1>2, <1>6, Typed DEF Fits, world
<1>8. ~ raced => Finds(t)'
  BY <1>1, <1>2, <1>3, <1>6, Typed DEF Finds, Adding
<1>9. LocalTyped' /\ Returns(t)' /\ requests' \in 0 .. MaxRequests
  BY <1>1, <1>4, <1>5, Typed DEF LocalTyped, Returns
<1> QED
  BY <1>1, <1>2, <1>3, <1>4, <1>5, <1>7, <1>8, <1>9, ThreadKeeps

LEMMA FailKeeps == ASSUME IInv, NEW t \in Thread, Fail(t) PROVE IInv'
<1>1. /\ Goes(t, pc[t], "idle") /\ "idle" \in Step /\ Forgets(t, "idle")
      /\ UNCHANGED <<world, bucket, lru, size, delta, then, loaded, requests>>
  BY DEF Fail, world, adding, Step
<1>2. pc'[t] = "idle"
  BY <1>1 DEF Goes, IInv, TypeOK
<1>3. LruTyped' /\ BodiesFit' /\ Items' = Items
  BY <1>1, LruKept
<1>4. /\ tag' \in [Thread -> Etag] /\ data' \in [Thread -> Version]
      /\ stale' \in [Thread -> SUBSET Etag]
      /\ \A u \in Thread \ {t} : tag'[u] = tag[u] /\ data'[u] = data[u] /\ stale'[u] = stale[u]
  BY <1>1, Forgotten DEF IInv
<1>5. LocalTyped' /\ Returns(t)' /\ size' \in Int /\ requests' \in 0 .. MaxRequests
  BY <1>1, <1>4, Typed DEF LocalTyped, Returns
<1>6. Fits(t)' /\ Finds(t)'
  BY <1>2 DEF Fits, Finds, Adding
<1>7. \A u \in Thread \ {t} : then'[u] = then[u]
  BY <1>1
<1> QED
  BY <1>1, <1>3, <1>4, <1>5, <1>6, <1>7, ThreadKeeps

(* Until two threads have met in the cache, no operation of it fails.      *)
LEMMA AloneNotLost == ASSUME IInv, ~ raced, NEW t \in Thread PROVE ~ LostRace(t)
<1>1. Finds(t) /\ (InCache(pc[t]) => \A u \in Thread \ {t} : ~ InCache(pc[u]))
  BY DEF IInv, Solo
<1>2. order = <<>> => Items = {}
  BY DEF Items, ToSet
<1> QED
  BY <1>1, <1>2 DEF LostRace, Finds, InCache

(***************************************************************************)
(* The counter                                                             *)
(***************************************************************************)
(* What the thread has yet to add to the counter.                          *)
Owed(t) == IF Adding(pc[t]) THEN delta[t] ELSE 0

(* The books of the one thread in the cache: the counter lacks what it     *)
(* owes, get() puts back what is there, and put() inserts under a key that *)
(* is not there and only what fits.                                        *)
Books(t) ==
  /\ size + Owed(t) = Bytes
  /\ pc[t] = "store" => loaded[t] = size
  /\ pc[t] = "touch" => tag[t] \in Items /\ body[tag[t]] = data[t]
  /\ pc[t] \in {"shrink", "popOldest", "insert"} \/ (Adding(pc[t]) /\ then[t] = "shrink")
       => tag[t] \notin Items
  /\ pc[t] = "insert" => order = <<>> \/ size + Length[data[t]] <= MaxBytes

Accounts ==
  ~ raced =>
    /\ WithinCap
    /\ \A t \in Thread : InCache(pc[t]) => Books(t)
    /\ (\A t \in Thread : ~ InCache(pc[t])) => size = Bytes

(* A dictionary of different keys is a finite set of them.                 *)
LEMMA Finite == ASSUME LruTyped PROVE IsFiniteSet(Items) /\ Items \subseteq Etag
<1>1. order \in Seq(Etag) /\ Len(order) \in Nat /\ DOMAIN order = 1 .. Len(order)
  BY DEF LruTyped
<1>2. order \in Surjection(1 .. Len(order), Items)
  BY <1>1 DEF Surjection, Items, ToSet
<1>3. IsFiniteSet(1 .. Len(order))
  BY <1>1, FS_Interval
<1> QED
  BY <1>1, <1>2, <1>3, FS_Surjection, ItemsTyped

(* Bytes is a sum of lengths over the cached keys.                         *)
LEMMA BytesTyped ==
  ASSUME LruTyped
  PROVE  /\ Bytes \in Nat
         /\ \A e \in Items : Length[body[e]] \in Nat
         /\ \A e \in Items :
              Bytes = Length[body[e]]
                        + SumFunctionOnSet([k \in Etag |-> Length[body[k]]], Items \ {e})
<1> DEFINE f == [k \in Etag |-> Length[body[k]]]
<1>1. IsFiniteSet(Items) /\ Items \subseteq Etag
  BY Finite
<1>2. \A e \in Etag : f[e] = Length[body[e]] /\ f[e] \in Nat
  BY Bounds DEF LruTyped
<1> HIDE DEF f
<1>3. \A e \in Items : f[e] \in Int /\ f[e] >= 0
  BY <1>1, <1>2
<1>4. SumFunctionOnSet(f, Items) \in Int /\ SumFunctionOnSet(f, Items) >= 0
  BY <1>1, <1>3, SumType
<1>5. ASSUME NEW e \in Items
      PROVE  SumFunctionOnSet(f, Items) = f[e] + SumFunctionOnSet(f, Items \ {e})
  BY <1>1, <1>3, SumWithout
<1>6. Bytes = SumFunctionOnSet(f, Items)
  BY DEF Bytes, f
<1> QED
  BY <1>1, <1>2, <1>4, <1>5, <1>6 DEF f

(* The bytes depend on what is cached alone.                               *)
LEMMA BytesKept ==
  ASSUME LruTyped, LruTyped', Items' = Items, \A e \in Items : body'[e] = body[e]
  PROVE  Bytes' = Bytes
<1>1. IsFiniteSet(Items) /\ Items \subseteq Etag
  BY Finite
<1>2. \A e \in Items : [k \in Etag |-> Length[body'[k]]][e] = [k \in Etag |-> Length[body[k]]][e]
  BY <1>1
<1>3. SumFunctionOnSet([k \in Etag |-> Length[body'[k]]], Items)
        = SumFunctionOnSet([k \in Etag |-> Length[body[k]]], Items)
  BY <1>1, <1>2, SumExtensional
<1> QED
  BY <1>3 DEF Bytes

(* What is taken out no longer counts.                                     *)
LEMMA BytesDropped ==
  ASSUME LruTyped, NEW e \in Items, Items' = Items \ {e}, body' = body
  PROVE  Bytes = Length[body[e]] + Bytes'
BY BytesTyped DEF Bytes

(* What is put in counts.                                                  *)
LEMMA BytesAdded ==
  ASSUME LruTyped, LruTyped', NEW e \in Etag, e \notin Items, Items' = Items \cup {e},
         \A k \in Items : body'[k] = body[k]
  PROVE  Bytes' = Length[body'[e]] + Bytes
<1> DEFINE f == [k \in Etag |-> Length[body[k]]]
           g == [k \in Etag |-> Length[body'[k]]]
<1>1. IsFiniteSet(Items) /\ Items \subseteq Etag
  BY Finite
<1>2. /\ \A k \in Items : g[k] = f[k] /\ f[k] \in Int
      /\ g[e] = Length[body'[e]] /\ g[e] \in Int
  BY <1>1, Bounds DEF LruTyped
<1>3. Bytes' = SumFunctionOnSet(g, Items \cup {e}) /\ Bytes = SumFunctionOnSet(f, Items)
  BY DEF Bytes
<1> HIDE DEF f, g
<1>4. SumFunctionOnSet(g, Items) = SumFunctionOnSet(f, Items)
  BY <1>1, <1>2, SumExtensional
<1>5. \A k \in Items : g[k] \in Int
  BY <1>2
<1>6. SumFunctionOnSet(g, Items \cup {e}) = g[e] + SumFunctionOnSet(g, Items)
  BY <1>1, <1>2, <1>5, SumWith
<1> QED
  BY <1>2, <1>3, <1>4, <1>6

(* A step of a thread that goes into, through or out of the cache and does *)
(* not meet another one: that thread's books are all that matters.         *)
LEMMA BooksBefore ==
  ASSUME IInv, Accounts, NEW t \in Thread, NEW from, NEW to \in Step, Goes(t, from, to), ~ raced',
         InCache(pc[t]) \/ InCache(to)
  PROVE  /\ pc[t] = from /\ pc'[t] = to /\ ~ raced /\ WithinCap /\ size + Owed(t) = Bytes
         /\ InCache(pc[t]) => Books(t)
         /\ \A u \in Thread \ {t} : pc'[u] = pc[u] /\ ~ InCache(pc[u])
         /\ size \in Int /\ LruTyped /\ LocalTyped
<1>1. /\ pc[t] = from /\ pc'[t] = to /\ ~ raced /\ \A u \in Thread \ {t} : pc'[u] = pc[u]
      /\ InCache(to) => \A u \in Thread \ {t} : ~ InCache(pc[u])
  BY DEF Goes, IInv, TypeOK
<1>2. \A u \in Thread \ {t} : ~ InCache(pc[u])
  BY <1>1 DEF IInv, Solo
<1>3. WithinCap /\ (InCache(pc[t]) => Books(t))
  BY <1>1 DEF Accounts
<1>4. size \in Int /\ LruTyped /\ LocalTyped
  BY Typed
<1>5. size + Owed(t) = Bytes
  <2>1. CASE InCache(pc[t])
    BY <1>3, <2>1 DEF Books
  <2>2. CASE ~ InCache(pc[t])
    <3>1. size = Bytes
      BY <1>1, <1>2, <2>2 DEF Accounts
    <3>2. Owed(t) = 0
      BY <2>2 DEF InCache, Owed, Adding
    <3> QED
      BY <1>4, <3>1, <3>2
  <2> QED
    BY <2>1, <2>2
<1> QED
  BY <1>1, <1>2, <1>3, <1>4, <1>5

(* It is enough that the books are right after one thread's step.          *)
LEMMA BooksAfter ==
  ASSUME NEW t \in Thread, ~ raced' => /\ WithinCap'
                                       /\ \A u \in Thread \ {t} : pc'[u] = pc[u] /\ ~ InCache(pc[u])
                                       /\ InCache(pc'[t]) => Books(t)'
                                       /\ ~ InCache(pc'[t]) => size' = Bytes'
  PROVE  Accounts'
BY DEF Accounts

(* Dropping an entry from a cache within its cap leaves it within.         *)
LEMMA DropWithin ==
  ASSUME LruTyped, WithinCap, NEW e \in Items, Drop(e)
  PROVE  /\ WithinCap' /\ Bytes' = Bytes - Length[body[e]] /\ Items' = Items \ {e}
         /\ Bytes \in Nat /\ Bytes' \in Nat /\ Length[body[e]] \in Nat
<1>1. /\ order \in Seq(Etag) /\ IsInjective(order) /\ e \in ToSet(order)
      /\ order' = RemoveFirst(order, e) /\ body' = body
  BY DEF LruTyped, Drop, Items
<1>2. Items' = Items \ {e} /\ Len(order') = Len(order) - 1 /\ Len(order) \in Nat
  BY <1>1, Removed DEF Items
<1>3. Bytes = Length[body[e]] + Bytes' /\ Bytes \in Nat /\ Length[body[e]] \in Nat
  BY <1>1, <1>2, BytesDropped, BytesTyped
<1>4. Bytes' \in Int /\ Bytes' >= 0
  <2>1. IsFiniteSet(Items') /\ Items' \subseteq Etag
    BY <1>2, Finite, FS_RemoveElement
  <2>2. \A k \in Etag : Length[body[k]] \in Nat
    BY Bounds DEF LruTyped
  <2> DEFINE f == [k \in Etag |-> Length[body[k]]]
  <2>3. \A k \in Items' : f[k] \in Int /\ f[k] >= 0
    BY <2>1, <2>2
  <2>4. Bytes' = SumFunctionOnSet(f, Items')
    BY <1>1 DEF Bytes
  <2> HIDE DEF f
  <2> QED
    BY <2>1, <2>3, <2>4, SumType
<1>5. MaxBytes \in Nat
  BY Bounds
<1>6. WithinCap'
  BY <1>2, <1>3, <1>4, <1>5 DEF WithinCap
<1> QED
  BY <1>2, <1>3, <1>4, <1>6

(* Nothing of this moves when a thread asks, misses or the bucket fails.   *)
LEMMA OutsideAccounts ==
  ASSUME IInv, Accounts, NEW t \in Thread, NEW from, NEW to \in {"idle", "get", "fetch"},
         Goes(t, from, to), from \in {"idle", "get", "fetch"},
         UNCHANGED <<order, body, size, then, delta, loaded>>,
         \A u \in Thread \ {t} : tag'[u] = tag[u] /\ data'[u] = data[u]
  PROVE  Accounts'
<1>1. /\ pc[t] = from /\ pc'[t] = to /\ \A u \in Thread \ {t} : pc'[u] = pc[u]
      /\ ~ raced' => ~ raced
  BY DEF Goes, IInv, TypeOK
<1>2. ~ InCache(pc[t]) /\ ~ InCache(pc'[t])
  BY <1>1 DEF InCache
<1>3. Bytes' = Bytes /\ Items' = Items /\ WithinCap' = WithinCap
  BY DEF Bytes, Items, WithinCap
<1>4. ASSUME NEW u \in Thread, InCache(pc'[u]), Books(u) PROVE Books(u)'
  BY <1>1, <1>2, <1>3, <1>4 DEF Books, Owed
<1>5. ASSUME ~ raced' PROVE Accounts'
  BY <1>1, <1>2, <1>3, <1>4, <1>5 DEF Accounts
<1> QED
  BY <1>5 DEF Accounts

(* Uploads and ingests touch no body in the cache.                         *)
LEMMA WorldAccounts ==
  ASSUME Accounts, UNCHANGED <<order, body, size, pc, tag, data, then, delta, loaded, raced>>
  PROVE  Accounts'
<1>1. Bytes' = Bytes /\ Items' = Items
  BY DEF Bytes, Items
<1> QED
  BY <1>1 DEF Accounts, WithinCap, Books, Owed

(* Steps in the cache that leave the dictionary and the counter alone.     *)
LEMMA DecideAccounts ==
  ASSUME IInv, Accounts, NEW t \in Thread,
         Hit(t) \/ Fetch(t) \/ Scan(t) \/ Load(t) \/ EvictedAll(t) \/ Check(t) \/ Shrink(t)
  PROVE  Accounts'
<1>1. UNCHANGED <<order, body, size, tag, then, delta>>
  BY DEF Hit, Fetch, Scan, Load, EvictedAll, Check, Shrink, lru, local, adding
<1>2. PICK from, to \in Step :
        /\ Goes(t, from, to) /\ InCache(to) 
        /\ \/ Hit(t) /\ from = "get" /\ to = "touch"
           \/ Fetch(t) /\ from = "fetch" /\ to = "scan"
           \/ Scan(t) /\ from = "scan" /\ to = "evict"
           \/ Load(t) /\ from = "load" /\ to = "store"
           \/ EvictedAll(t) /\ from = "evict" /\ to = "check"
           \/ Check(t) /\ from = "check" /\ to = "replace" /\ tag[t] \in Items
           \/ Check(t) /\ from = "check" /\ to = "shrink" /\ tag[t] \notin Items
           \/ Shrink(t) /\ from = "shrink" /\ to = "popOldest"
           \/ Shrink(t) /\ from = "shrink" /\ to = "insert" /\ ~ MustShrink(t)
  BY DEF Hit, Fetch, Scan, Load, EvictedAll, Check, Shrink, Step, InPut, InCache
<1>3. Bytes' = Bytes /\ Items' = Items /\ (WithinCap' <=> WithinCap)
  BY <1>1 DEF Bytes, Items, WithinCap
<1> SUFFICES ASSUME ~ raced'
             PROVE  /\ WithinCap' /\ InCache(pc'[t]) /\ Books(t)'
                    /\ \A u \in Thread \ {t} : pc'[u] = pc[u] /\ ~ InCache(pc[u])
  BY BooksAfter
<1>4. /\ pc[t] = from /\ pc'[t] = to /\ WithinCap /\ size + Owed(t) = Bytes
      /\ InCache(pc[t]) => Books(t)
      /\ \A u \in Thread \ {t} : pc'[u] = pc[u] /\ ~ InCache(pc[u])
      /\ size \in Int /\ LruTyped /\ LocalTyped
  BY <1>2, BooksBefore
<1>5. Owed(t)' = Owed(t)
  BY <1>1, <1>2, <1>4 DEF Owed, Adding
<1>6. (pc[t] = "store" => loaded[t] = size)'
  <2>1. CASE Load(t)
    BY <1>1, <2>1 DEF Load, IInv, TypeOK
  <2> QED
    BY <1>2, <1>4, <2>1
<1>7. (pc[t] = "touch" => tag[t] \in Items /\ body[tag[t]] = data[t])'
  <2>1. CASE Hit(t)
    BY <1>1, <1>3, <2>1 DEF Hit, IInv, TypeOK
  <2> QED
    BY <1>2, <1>4, <2>1
<1>8. (pc[t] \in {"shrink", "popOldest", "insert"} \/ (Adding(pc[t]) /\ then[t] = "shrink")
         => tag[t] \notin Items)'
  BY <1>1, <1>2, <1>3, <1>4 DEF Books, Adding, InCache
<1>9. (pc[t] = "insert" => order = <<>> \/ size + Length[data[t]] <= MaxBytes)'
  <2>1. CASE Shrink(t) /\ ~ MustShrink(t)
    <3>1. data' = data /\ Length[data[t]] \in Nat /\ MaxBytes \in Nat
      BY <2>1, <1>4, Bounds DEF Shrink, local, LocalTyped
    <3> QED
      BY <1>1, <1>4, <2>1, <3>1 DEF MustShrink
  <2> QED
    BY <1>2, <1>4, <2>1
<1>10. Books(t)'
  BY <1>1, <1>3, <1>4, <1>5, <1>6, <1>7, <1>8, <1>9 DEF Books
<1> QED
  BY <1>2, <1>3, <1>4, <1>10

(* get() puts back what is there and moves it to the end.                  *)
LEMMA GetAccounts ==
  ASSUME IInv, IInv', Accounts, NEW t \in Thread, Touch(t) \/ MoveToEnd(t)
  PROVE  Accounts'
<1>1. PICK from \in {"touch", "move"}, to \in {"move", "idle"} :
        /\ Goes(t, from, to) 
        /\ \/ from = "touch" /\ to = "move" /\ Touch(t)
           \/ from = "move" /\ to = "idle" /\ MoveToEnd(t)
  BY DEF Touch, MoveToEnd
<1>2. to \in Step /\ InCache(from) /\ UNCHANGED size
  BY <1>1 DEF Step, InCache, Touch, MoveToEnd
<1> SUFFICES ASSUME ~ raced'
             PROVE  /\ WithinCap' 
                    /\ InCache(pc'[t]) => Books(t)'
                    /\ ~ InCache(pc'[t]) => size' = Bytes'
                    /\ \A u \in Thread \ {t} : pc'[u] = pc[u] /\ ~ InCache(pc[u])
  BY BooksAfter
<1>3. pc[t] = from
  BY <1>1 DEF Goes
<1>4. /\ pc'[t] = to /\ WithinCap /\ size + Owed(t) = Bytes
      /\ Books(t)
      /\ \A u \in Thread \ {t} : pc'[u] = pc[u] /\ ~ InCache(pc[u])
      /\ size \in Int /\ LruTyped /\ LocalTyped
  BY <1>1, <1>2, <1>3, BooksBefore
<1>5. size = Bytes /\ Owed(t)' = 0
  BY <1>1, <1>3, <1>4 DEF Owed, Adding
<1>6. LruTyped'
  BY DEF IInv, TypeOK, LruTyped
<1>7. Items' = Items /\ Len(order') = Len(order) /\ \A e \in Items : body'[e] = body[e]
  <2>1. CASE Touch(t)
    <3>1. from = "touch" /\ Assign(tag[t], data[t])
      BY <2>1, <1>1, <1>3 DEF Touch, MoveToEnd, Goes
    <3>2. tag[t] \in Items /\ body[tag[t]] = data[t]
      BY <3>1, <1>3, <1>4 DEF Books
    <3>3. order' = order
      BY <3>1, <3>2 DEF Assign
    <3>4. body \in [Etag -> Version] /\ Items \subseteq Etag
      BY <1>4, Finite DEF LruTyped
    <3> QED
      BY <3>1, <3>2, <3>3, <3>4 DEF Assign, Items
  <2>2. CASE MoveToEnd(t)
    <3> DEFINE rest == RemoveFirst(order, tag[t])
    <3>1. /\ order \in Seq(Etag) /\ IsInjective(order) /\ tag[t] \in ToSet(order) /\ tag[t] \in Etag
          /\ Len(order) \in Nat
      BY <2>2, Typed DEF IInv, TypeOK, Items, MoveToEnd
    <3>2. /\ rest \in Seq(Etag) /\ IsInjective(rest) /\ ToSet(rest) = ToSet(order) \ {tag[t]}
          /\ Len(rest) = Len(order) - 1
      BY <3>1, Removed
    <3>3. order' = Append(rest, tag[t]) /\ body' = body
      BY <2>2 DEF MoveToEnd
    <3> HIDE DEF rest
    <3>4. ToSet(order') = ToSet(rest) \cup {tag[t]} /\ Len(order') = Len(rest) + 1
      BY <3>1, <3>2, <3>3, Appended
    <3> QED
      BY <3>1, <3>2, <3>3, <3>4 DEF Items
  <2> QED
    BY <2>1, <2>2
<1>8. Bytes' = Bytes
  BY <1>4, <1>6, <1>7, BytesKept
<1>9. WithinCap'
  BY <1>4, <1>7, <1>8 DEF WithinCap
<1>10. InCache(pc'[t]) => Books(t)'
  BY <1>1, <1>2, <1>4, <1>5, <1>8 DEF Books, Adding, InCache
<1> QED
  BY <1>2, <1>4, <1>5, <1>8, <1>9, <1>10

(* What a thread takes out it owes.                                        *)
LEMMA DropAccounts ==
  ASSUME IInv, Accounts, NEW t \in Thread, EvictIdle(t) \/ Replace(t) \/ PopOldest(t)
  PROVE  Accounts'
<1>1. PICK e \in Items, next \in {"evict", "shrink"} :
        /\ Drop(e) /\ Account(t, -Length[body[e]], next)
        /\ next = "shrink" => \/ pc[t] = "replace" /\ e = tag[t]
                              \/ pc[t] = "popOldest"
  <2>1. CASE EvictIdle(t)
    BY <2>1 DEF EvictIdle
  <2>2. CASE Replace(t)
    BY <2>2 DEF Replace
  <2>3. CASE PopOldest(t)
    <3>1. order[1] \in Items
      <4>1. order \in Seq(Etag) /\ order # <<>>
        BY <2>3 DEF PopOldest, IInv, TypeOK
      <4> QED
        BY <4>1 DEF Items, ToSet
    <3> QED
      BY <2>3, <3>1 DEF PopOldest
  <2> QED
    BY <2>1, <2>2, <2>3
<1>2. /\ Goes(t, pc[t], "load") /\ "load" \in Step /\ UNCHANGED <<size, tag, data>>
      /\ InCache("load") /\ InCache(pc[t]) /\ ~ Adding(pc[t])
      /\ delta' = [delta EXCEPT ![t] = -Length[body[e]]] /\ then' = [then EXCEPT ![t] = next]
  BY <1>1 DEF EvictIdle, Replace, PopOldest, Account, local, Step, InPut, InCache, Adding
<1> SUFFICES ASSUME ~ raced'
             PROVE  /\ WithinCap' /\ InCache(pc'[t]) /\ Books(t)'
                    /\ \A u \in Thread \ {t} : pc'[u] = pc[u] /\ ~ InCache(pc[u])
  BY BooksAfter
<1>3. /\ pc'[t] = "load" /\ WithinCap /\ size + Owed(t) = Bytes /\ Books(t)
      /\ \A u \in Thread \ {t} : pc'[u] = pc[u] /\ ~ InCache(pc[u])
      /\ size \in Int /\ LruTyped /\ LocalTyped
  BY <1>2, BooksBefore
<1>4. /\ WithinCap' /\ Bytes' = Bytes - Length[body[e]] /\ Items' = Items \ {e}
      /\ Bytes \in Nat /\ Bytes' \in Nat /\ Length[body[e]] \in Nat
  BY <1>1, <1>3, DropWithin
<1>5. delta'[t] = -Length[body[e]] /\ then'[t] = next
  BY <1>2, <1>3 DEF LocalTyped
<1>6. size' + Owed(t)' = Bytes'
  <2>1. size = Bytes
    BY <1>2, <1>3 DEF Owed
  <2>2. Owed(t)' = -Length[body[e]]
    BY <1>3, <1>5 DEF Owed, Adding
  <2> QED
    BY <1>2, <1>4, <2>1, <2>2
<1>7. next = "shrink" => tag'[t] \notin Items'
  BY <1>1, <1>2, <1>3, <1>4 DEF Books
<1>8. Books(t)'
  BY <1>3, <1>5, <1>6, <1>7 DEF Books, Adding
<1> QED
  BY <1>2, <1>3, <1>4, <1>8

(* What a thread puts in fits, or nothing else is there.                   *)
LEMMA InsertAccounts ==
  ASSUME IInv, IInv', Accounts, NEW t \in Thread, Insert(t)
  PROVE  Accounts'
<1>1. /\ Goes(t, pc[t], "load") /\ "load" \in Step /\ UNCHANGED <<size, tag, data>>
      /\ InCache("load") /\ pc[t] = "insert" /\ InCache(pc[t]) /\ ~ Adding(pc[t])
      /\ Assign(tag[t], data[t])
      /\ delta' = [delta EXCEPT ![t] = Length[data[t]]] /\ then' = [then EXCEPT ![t] = "idle"]
  BY DEF Insert, Account, local, Step, InPut, InCache, Adding
<1> SUFFICES ASSUME ~ raced'
             PROVE  /\ WithinCap' /\ InCache(pc'[t]) /\ Books(t)'
                    /\ \A u \in Thread \ {t} : pc'[u] = pc[u] /\ ~ InCache(pc[u])
  BY BooksAfter
<1>2. /\ pc'[t] = "load" /\ WithinCap /\ size + Owed(t) = Bytes /\ Books(t)
      /\ \A u \in Thread \ {t} : pc'[u] = pc[u] /\ ~ InCache(pc[u])
      /\ size \in Int /\ LruTyped /\ LocalTyped
  BY <1>1, BooksBefore
<1>3. tag[t] \notin Items /\ tag[t] \in Etag /\ data[t] \in Version
  BY <1>1, <1>2 DEF Books, LocalTyped
<1>4. /\ order' = Append(order, tag[t]) /\ body' = [body EXCEPT ![tag[t]] = data[t]]
      /\ order \in Seq(Etag) /\ IsInjective(order) /\ body \in [Etag -> Version]
  BY <1>1, <1>2, <1>3 DEF Assign, LruTyped
<1>5. Items' = Items \cup {tag[t]} /\ Len(order') = Len(order) + 1 /\ Len(order) \in Nat
  BY <1>3, <1>4, Appended DEF Items
<1>6. body'[tag[t]] = data[t] /\ \A k \in Items : body'[k] = body[k]
  <2>1. Items \subseteq Etag
    BY <1>2, Finite
  <2> QED
    BY <1>3, <1>4, <2>1
<1>7. LruTyped'
  BY DEF IInv, TypeOK, LruTyped
<1>8. Bytes' = Length[data[t]] + Bytes
  BY <1>2, <1>3, <1>5, <1>6, <1>7, BytesAdded
<1>9. Bytes \in Nat /\ Length[data[t]] \in Nat /\ MaxBytes \in Nat
  BY <1>2, <1>3, BytesTyped, Bounds
<1>10. size = Bytes
  BY <1>1, <1>2 DEF Owed
<1>11. WithinCap'
  <2>1. CASE order = <<>>
    <3>1. Len(order') = 1
      BY <1>5, <2>1
    <3> QED
      BY <3>1 DEF WithinCap
  <2>2. CASE size + Length[data[t]] <= MaxBytes
    BY <1>8, <1>9, <1>10, <2>2 DEF WithinCap
  <2> QED
    BY <1>1, <1>2, <2>1, <2>2 DEF Books
<1>12. Books(t)'
  <2>1. delta'[t] = Length[data[t]] /\ then'[t] = "idle"
    BY <1>1, <1>2 DEF LocalTyped
  <2>2. Owed(t)' = Length[data[t]]
    BY <1>2, <2>1 DEF Owed, Adding
  <2>3. size' + Owed(t)' = Bytes'
    BY <1>1, <1>8, <1>9, <1>10, <2>2
  <2> QED
    BY <1>2, <2>1, <2>3 DEF Books, Adding
<1> QED
  BY <1>1, <1>2, <1>11, <1>12

(* The counter has caught up.                                              *)
LEMMA StoreAccounts ==
  ASSUME IInv, Accounts, NEW t \in Thread, Store(t)
  PROVE  Accounts'
<1>1. /\ Goes(t, "store", then[t]) /\ then[t] \in {"idle", "evict", "shrink"}
      /\ UNCHANGED <<order, body>> /\ size' = loaded[t] + delta[t]
      /\ Forgets(t, then[t])
  BY Typed DEF Store, lru, Returns
<1>2. then[t] \in Step /\ InCache("store")
  BY <1>1 DEF Step, InPut, InCache
<1>3. Bytes' = Bytes /\ Items' = Items /\ (WithinCap' <=> WithinCap)
  BY <1>1 DEF Bytes, Items, WithinCap
<1> SUFFICES ASSUME ~ raced'
             PROVE  /\ WithinCap'
                    /\ InCache(pc'[t]) => Books(t)'
                    /\ ~ InCache(pc'[t]) => size' = Bytes'
                    /\ \A u \in Thread \ {t} : pc'[u] = pc[u] /\ ~ InCache(pc[u])
  BY BooksAfter
<1>4. pc[t] = "store"
  BY <1>1 DEF Goes
<1>5. /\ pc'[t] = then[t] /\ WithinCap /\ size + Owed(t) = Bytes /\ Books(t)
      /\ \A u \in Thread \ {t} : pc'[u] = pc[u] /\ ~ InCache(pc[u])
      /\ size \in Int /\ LruTyped /\ LocalTyped
  BY <1>1, <1>2, <1>4, BooksBefore
<1>6. size' = Bytes'
  BY <1>1, <1>3, <1>4, <1>5 DEF Books, Owed, Adding
<1>7. InCache(pc'[t]) => Books(t)'
  <2> SUFFICES ASSUME InCache(then[t]) PROVE Books(t)'
    BY <1>5
  <2>1. tag' = tag /\ then[t] # "idle"
    BY <1>1 DEF Forgets, local, InCache
  <2>2. Owed(t)' = 0 /\ Bytes' \in Int
    <3>1. Bytes \in Int
      BY <1>5, BytesTyped
    <3> QED
      BY <1>1, <1>3, <1>5, <3>1 DEF Owed, Adding
  <2>3. size' + Owed(t)' = Bytes'
    <3>1. \A a, b, c : a \in Int /\ b = 0 /\ c = a => c + b = a
      OBVIOUS
    <3> QED
      BY <1>6, <2>2, <3>1, Zenon
  <2> QED
    BY <1>1, <1>3, <1>4, <1>5, <2>1, <2>3 DEF Books, Adding
<1> QED
  BY <1>3, <1>5, <1>6, <1>7

(* A request that starts, misses or fails moves no bytes.                  *)
LEMMA RequestAccounts ==
  ASSUME IInv, Accounts, NEW t \in Thread, Request(t) \/ Miss(t) \/ Fail(t)
  PROVE  Accounts'
<1>1. UNCHANGED <<order, body, size, then, delta, loaded>>
  BY DEF Request, Miss, Fail, lru, adding
<1>2. \A u \in Thread \ {t} : tag'[u] = tag[u] /\ data'[u] = data[u]
  <2>1. CASE Fail(t)
    BY <2>1, Forgotten DEF Fail, IInv
  <2>2. CASE Request(t) \/ Miss(t)
    BY <2>2 DEF Request, Miss, local, IInv, TypeOK
  <2> QED
    BY <2>1, <2>2
<1>3. CASE raced
  BY <1>3 DEF Request, Miss, Fail, Goes, Accounts
<1>4. CASE ~ raced
  <2>1. PICK from \in {"idle", "get", "fetch"}, to \in {"idle", "get", "fetch"} : Goes(t, from, to)
    <3>1. CASE Fail(t)
      <4>1. ~ LostRace(t)
        BY <1>4, AloneNotLost
      <4> QED
        BY <3>1, <4>1 DEF Fail
    <3> QED
      BY <3>1 DEF Request, Miss
  <2> QED
    BY <1>1, <1>2, <2>1, OutsideAccounts
<1> QED
  BY <1>3, <1>4

(* Every step keeps the books.                                             *)
LEMMA AccountsKept == IInv /\ IInv' /\ Accounts /\ [Next]_vars => Accounts'
<1> SUFFICES ASSUME IInv, IInv', Accounts, [Next]_vars PROVE Accounts'
  OBVIOUS
<1>1. CASE (\E s \in Session : Upload(s) \/ Ingest(s)) \/ (\E e \in Etag : GoIdle(e)) \/ UNCHANGED vars
  <2>1. UNCHANGED <<order, body, size, pc, tag, data, then, delta, loaded, raced>>
    BY <1>1 DEF Upload, Ingest, GoIdle, vars, lru, local, adding
  <2> QED
    BY <2>1, WorldAccounts
<1>2. ASSUME NEW t \in Thread, Request(t) \/ ThreadStep(t) PROVE Accounts'
  BY <1>2, RequestAccounts, DecideAccounts, GetAccounts, DropAccounts, InsertAccounts, StoreAccounts
     DEF ThreadStep
<1> QED
  BY <1>1, <1>2 DEF Next

(* An empty cache has no bytes.                                            *)
LEMMA InitAccounts == Init => Accounts
<1> SUFFICES ASSUME Init PROVE Accounts
  OBVIOUS
<1>1. Items = {} /\ Len(order) = 0
  BY DEF Init, Items, ToSet
<1>2. Bytes = 0 /\ size = 0
  BY <1>1, SumOfNone DEF Bytes, Init
<1> QED
  BY <1>1, <1>2 DEF Init, Accounts, WithinCap, InCache

(***************************************************************************)
(* Theorems                                                                *)
(***************************************************************************)
(* The cache is empty and nobody asks.                                     *)
LEMMA InitIInv == Init => IInv
<1> SUFFICES ASSUME Init PROVE IInv
  OBVIOUS
<1>1. order = <<>> /\ Items = {} /\ IsInjective(order) /\ order \in Seq(Etag)
  BY DEF Init, Items, ToSet, IsInjective
<1>2. pc \in [Thread -> Step] /\ then \in [Thread -> Step]
  BY DEF Init, Step
<1>3. body \in [Etag -> Version]
  BY EtagTyped DEF Init
<1>4. /\ bucket \in [Session -> Version] /\ row \in [Session -> Version]
      /\ \A s \in Session : row[s] <= bucket[s]
  BY Bounds DEF Init
<1>5. TypeOK
  <2>1. /\ tag \in [Thread -> Etag] /\ data \in [Thread -> Version]
        /\ requests \in 0 .. MaxRequests /\ raced \in BOOLEAN
    <3>1. NoTag \in Etag /\ 1 \in Version /\ MaxRequests \in Nat
      BY Bounds
    <3>2. tag \in [Thread -> Etag] /\ data \in [Thread -> Version]
      BY <3>1 DEF Init
    <3>3. requests \in 0 .. MaxRequests
      BY <3>1 DEF Init
    <3>4. raced \in BOOLEAN
      BY DEF Init
    <3> QED
      BY <3>2, <3>3, <3>4
  <2>2. /\ idle \subseteq Items /\ size \in Int /\ stale \in [Thread -> SUBSET Etag]
        /\ delta \in [Thread -> Int] /\ loaded \in [Thread -> Int]
    BY DEF Init
  <2> QED
    BY <1>1, <1>2, <1>3, <1>4, <2>1, <2>2 DEF TypeOK
<1>6. (\A t \in Thread : Returns(t)) /\ Versions /\ Solo
  BY <1>1, <1>4 DEF Init, Returns, Versions, BodiesFit, Fits, Solo, Finds, Adding, InCache
<1> QED
  BY <1>5, <1>6 DEF IInv

LEMMA NextKeeps == IInv /\ [Next]_vars => IInv'
<1> SUFFICES ASSUME IInv, [Next]_vars PROVE IInv'
  OBVIOUS
<1>1. ASSUME NEW s \in Session, Upload(s) \/ Ingest(s) PROVE IInv'
  BY <1>1, WorldKeeps
<1>2. ASSUME NEW e \in Etag, GoIdle(e) PROVE IInv'
  BY <1>2, IdleKeeps
<1>3. ASSUME NEW t \in Thread, Request(t) \/ ThreadStep(t) PROVE IInv'
  BY <1>3, RequestKeeps, LookupKeeps, TouchKeeps, MoveToEndKeeps, FetchKeeps, DecideKeeps,
     DropKeeps, InsertKeeps, StoreKeeps, FailKeeps DEF ThreadStep
<1>4. CASE UNCHANGED vars
  <2>1. UNCHANGED <<bucket, row, order, body, idle, size, pc, tag, data, stale, delta, then,
                    loaded, requests, raced>>
    BY <1>4 DEF vars, world, lru, local, adding
  <2> QED
    BY <2>1 DEF IInv, TypeOK, Returns, Versions, BodiesFit, Fits, Solo, Finds, Items, Adding,
       InCache
<1> QED
  BY <1>1, <1>2, <1>3, <1>4 DEF Next

LEMMA IInvHolds == Spec => []IInv
BY InitIInv, NextKeeps, PTL DEF Spec

(* No key is twice in the dictionary, whatever threads do to it.           *)
THEOREM TypeCorrect == Spec => []TypeOK
<1>1. IInv => TypeOK
  BY DEF IInv
<1> QED
  BY <1>1, IInvHolds, PTL

(* get_transcript never serves or caches, under an ETag, bytes older than  *)
(* the upload the ETag names.                                              *)
THEOREM ServedNotOlder == Spec => []NeverOlderThanEtag
<1>1. IInv => NeverOlderThanEtag
  BY DEF IInv, Versions, BodiesFit, Fits, NeverOlderThanEtag
<1> QED
  BY <1>1, IInvHolds, PTL

(* What get and put of _IdleLRU take out of the dictionary is there, until *)
(* two threads have met in them.                                           *)
THEOREM AloneNeverFails == Spec => []FailsOnlyRaced
<1>1. IInv => FailsOnlyRaced
  BY AloneNotLost DEF FailsOnlyRaced
<1> QED
  BY <1>1, IInvHolds, PTL

(* As long as no two threads have met in the cache, _size is the number of *)
(* bytes in it whenever nobody asks, and put() has kept it within          *)
(* max_bytes, but for a single larger body.                                *)
THEOREM AccountsRight == Spec => []QuietAccounting
<1>1. Accounts => QuietAccounting
  BY DEF Accounts, QuietAccounting, Quiet, InCache
<1> QED
  BY <1>1, InitAccounts, AccountsKept, IInvHolds, PTL DEF Spec
=============================================================================
