--------------------------- MODULE Inspector_proofs ---------------------------
(***************************************************************************)
(* Files dropped together give the dashboard what each gives alone, and    *)
(* the four readings of a transcript agree.                                *)
(***************************************************************************)
EXTENDS Panels_proofs

(***************************************************************************)
(* Lists: filtering, mapping and sorting what is joined                    *)
(***************************************************************************)
(* What of a list is in P, what F makes of it, and the list by rank.       *)
Sieve(s, P) == At(s, {i \in DOMAIN s : s[i] \in P})
Mapped(s, F) == [i \in DOMAIN s |-> F[s[i]]]
Sorted(s, R) == Ordered(s, Mapped(s, R))

(* F maps X into Y.                                                        *)
Maps(F, X, Y) == F \in [X -> Y]

(* a lists the numbers of S in order.                                      *)
Rising(a, m, S) ==
  /\ a \in [1 .. m -> S]
  /\ \A v \in S : \E k \in 1 .. m : a[k] = v
  /\ \A j, k \in 1 .. m : j < k => a[j] < a[k]

LEMMA AscendingRising ==
  ASSUME NEW S \in SUBSET Int, IsFiniteSet(S)
  PROVE  \E m \in Nat : Rising(Ascending(S), m, S) /\ DOMAIN Ascending(S) = 1 .. m
<1>1. PICK a : a = Ascending(S)
  OBVIOUS
<1>2. Enumerates(a, S)
  BY <1>1, AscendingIs
<1>3. \A j, k \in DOMAIN a : j < k => a[j] < a[k]
  BY <1>1, AscendingRises
<1>4. PICK m \in Nat : m = Len(a)
  BY <1>2 DEF Enumerates
<1>5. DOMAIN a = 1 .. m /\ a \in [1 .. m -> S]
  BY <1>2, <1>4 DEF Enumerates
<1>6. Rising(a, m, S)
  BY <1>2, <1>3, <1>5 DEF Enumerates, Rising
<1> QED
  BY <1>1, <1>5, <1>6

LEMMA RisingUnique ==
  ASSUME NEW S \in SUBSET Int, NEW m \in Nat, NEW n \in Nat,
         NEW a, Rising(a, m, S), NEW b, Rising(b, n, S)
  PROVE  a = b
<1> DEFINE T == {k \in Nat : k \in 1 .. m /\ ~(k \in 1 .. n /\ a[k] = b[k])}
<1>1. \A k \in 1 .. m : a[k] \in S /\ a[k] \in Int
  BY DEF Rising
<1>2. \A k \in 1 .. n : b[k] \in S /\ b[k] \in Int
  BY DEF Rising
<1>3. ASSUME NEW j \in 1 .. m, NEW k \in 1 .. m, a[j] < a[k] PROVE j < k
  BY <1>1, <1>3 DEF Rising
<1>4. ASSUME NEW j \in 1 .. n, NEW k \in 1 .. n, b[j] < b[k] PROVE j < k
  BY <1>2, <1>4, SMTT(30) DEF Rising
<1>5. T = {}
  <2> SUFFICES ASSUME T # {} PROVE FALSE
    OBVIOUS
  <2>1. PICK k \in T : \A j \in T : k <= j
    <3>1. T \in SUBSET Nat
      OBVIOUS
    <3> HIDE DEF T
    <3> QED
      BY <3>1, LeastNat
  <2>2. k \in 1 .. m /\ ~(k \in 1 .. n /\ a[k] = b[k])
    OBVIOUS
  <2>3. \A j \in 1 .. m : j < k => j \in 1 .. n /\ a[j] = b[j]
    BY <2>1, <2>2
  <2>4. PICK q \in 1 .. n : b[q] = a[k]
    BY <1>1, <2>2 DEF Rising
  <2>5. ~(q < k)
    <3>1. q < k => q \in 1 .. m /\ a[q] = a[k]
      BY <2>2, <2>3, <2>4
    <3>2. q < k /\ q \in 1 .. m => a[q] < a[k]
      BY <2>2 DEF Rising
    <3> QED
      BY <1>1, <2>2, <3>1, <3>2
  <2>6. q # k
    BY <2>2, <2>4
  <2>7. k < q /\ k \in 1 .. n
    BY <2>2, <2>5, <2>6
  <2>8. b[k] < b[q]
    BY <2>7 DEF Rising
  <2>9. PICK p \in 1 .. m : a[p] = b[k]
    BY <1>2, <2>7 DEF Rising
  <2>10. p < k
    BY <1>3, <2>2, <2>4, <2>8, <2>9
  <2>11. a[p] = b[p] /\ p \in 1 .. n
    BY <2>3, <2>10
  <2>12. b[p] < b[k]
    BY <2>7, <2>10, <2>11 DEF Rising
  <2> QED
    BY <1>2, <2>7, <2>9, <2>11, <2>12
<1>6. \A k \in 1 .. m : k \in 1 .. n /\ a[k] = b[k]
  BY <1>5
<1>7. m = n
  <2>1. m <= n
    BY <1>6
  <2>2. ASSUME m < n PROVE FALSE
    <3>1. n \in 1 .. n
      BY <2>2
    <3>2. PICK p \in 1 .. m : a[p] = b[n]
      BY <1>2, <3>1 DEF Rising
    <3>3. b[p] = b[n] /\ p < n /\ p \in 1 .. n
      BY <1>6, <2>2, <3>2
    <3>4. b[p] < b[n]
      BY <3>1, <3>3 DEF Rising
    <3> QED
      BY <1>2, <3>1, <3>3, <3>4
  <2> QED
    BY <2>1, <2>2
<1>8. a \in [1 .. m -> S] /\ b \in [1 .. m -> S]
  BY <1>7 DEF Rising
<1> QED
  BY <1>6, <1>8

(* What stands at some places, by any list of the places.                  *)
LEMMA AtRising ==
  ASSUME NEW X, NEW s \in Seq(X), NEW S \in SUBSET DOMAIN s, NEW m \in Nat, NEW a, Rising(a, m, S)
  PROVE  At(s, S) = [k \in 1 .. m |-> s[a[k]]] /\ At(s, S) \in Seq(X) /\ Len(At(s, S)) = m
<1>1. IsFiniteSet(S) /\ S \in SUBSET Int
  BY PlacesFinite
<1>2. PICK n \in Nat : Rising(Ascending(S), n, S) /\ DOMAIN Ascending(S) = 1 .. n
  BY <1>1, AscendingRising
<1>3. Ascending(S) = a
  BY <1>1, <1>2, RisingUnique
<1>4. DOMAIN a = 1 .. m
  BY DEF Rising
<1> DEFINE f == [k \in 1 .. m |-> s[a[k]]]
<1>5. At(s, S) = Computed(f)
  BY <1>3, <1>4 DEF At
<1>6. f \in [1 .. m -> X]
  <2>1. \A k \in 1 .. m : a[k] \in DOMAIN s
    BY DEF Rising
  <2>2. \A i \in DOMAIN s : s[i] \in X
    OBVIOUS
  <2> QED
    BY <2>1, <2>2
<1> HIDE DEF f
<1>7. Computed(f) = f /\ f \in Seq(X) /\ Len(f) = m
  BY <1>6, ComputedIs
<1> QED
  BY <1>5, <1>7 DEF f

LEMMA SomeRising ==
  ASSUME NEW X, NEW s \in Seq(X), NEW S \in SUBSET DOMAIN s
  PROVE  \E m \in Nat : \E a : Rising(a, m, S)
<1>1. IsFiniteSet(S) /\ S \in SUBSET Int
  BY PlacesFinite
<1> QED
  BY <1>1, AscendingRising

LEMMA SieveIs ==
  ASSUME NEW X, NEW s \in Seq(X), NEW P
  PROVE  /\ Sieve(s, P) \in Seq(X) /\ \A k \in DOMAIN Sieve(s, P) : Sieve(s, P)[k] \in P
         /\ (\A i \in DOMAIN s : s[i] \in P) => Sieve(s, P) = s
         /\ (\A i \in DOMAIN s : s[i] \notin P) => Sieve(s, P) = <<>>
<1> DEFINE S == {i \in DOMAIN s : s[i] \in P}
<1>1. S \in SUBSET DOMAIN s /\ \A i \in S : s[i] \in P
  OBVIOUS
<1>2. PICK n \in Nat : n = Len(s) /\ DOMAIN s = 1 .. n
  OBVIOUS
<1>3. Sieve(s, P) = At(s, S)
  BY DEF Sieve
<1>4. (\A i \in DOMAIN s : s[i] \in P) => S = 1 .. n
  BY <1>2
<1>5. (\A i \in DOMAIN s : s[i] \notin P) => S = {}
  OBVIOUS
<1> HIDE DEF S
<1>6. PICK m \in Nat : \E b : Rising(b, m, S)
  BY <1>1, SomeRising
<1>7. PICK a : Rising(a, m, S)
  BY <1>6
<1>8. At(s, S) = [k \in 1 .. m |-> s[a[k]]] /\ At(s, S) \in Seq(X) /\ Len(At(s, S)) = m
  BY <1>1, <1>7, AtRising
<1>9. \A k \in 1 .. m : s[a[k]] \in P
  BY <1>1, <1>7 DEF Rising
<1>10. ASSUME S = 1 .. n PROVE At(s, S) = s
  <2> DEFINE id == [k \in 1 .. n |-> k]
  <2>1. Rising(id, n, S)
    BY <1>10 DEF Rising
  <2> HIDE DEF id
  <2>2. At(s, S) = [k \in 1 .. n |-> s[id[k]]]
    BY <1>1, <2>1, AtRising
  <2>3. \A k \in 1 .. n : id[k] = k
    BY DEF id
  <2>4. [k \in 1 .. n |-> s[id[k]]] = [k \in 1 .. n |-> s[k]]
    BY <2>3
  <2>5. [k \in 1 .. n |-> s[k]] = s
    BY <1>2
  <2> QED
    BY <2>2, <2>4, <2>5
<1>11. ASSUME S = {} PROVE At(s, S) = <<>>
  <2>1. m = 0
    BY <1>7, <1>11 DEF Rising
  <2> QED
    BY <1>8, <2>1
<1> QED
  BY <1>3, <1>4, <1>5, <1>8, <1>9, <1>10, <1>11

(* A filter of a list and another is both filtered.                        *)
LEMMA SieveJoin ==
  ASSUME NEW X, NEW s \in Seq(X), NEW t \in Seq(X), NEW P
  PROVE  Sieve(s \o t, P) = Sieve(s, P) \o Sieve(t, P)
<1> DEFINE S(u) == {i \in DOMAIN u : u[i] \in P}
<1>1. PICK u \in Seq(X) : u = s \o t
  <2>1. s \o t \in Seq(X)
    BY ConcatPlaces
  <2> QED
    BY <2>1
<1>2. PICK n \in Nat, l \in Nat : n = Len(s) /\ l = Len(t) /\ DOMAIN s = 1 .. n /\ DOMAIN t = 1 .. l
  OBVIOUS
<1>3. /\ DOMAIN u = 1 .. n + l /\ \A i \in 1 .. n : u[i] = s[i]
      /\ \A i \in 1 .. l : u[n + i] = t[i]
  BY <1>1, <1>2
<1>4. /\ S(s) \in SUBSET DOMAIN s /\ S(t) \in SUBSET DOMAIN t /\ S(u) \in SUBSET DOMAIN u
      /\ S(s) \in SUBSET Nat /\ S(t) \in SUBSET Nat
  BY <1>2
<1>5. /\ \A i \in S(s) : i \in 1 .. n /\ i \in S(u)
      /\ \A i \in S(t) : i \in 1 .. l /\ n + i \in S(u)
      /\ \A i \in S(u) : i \in S(s) \/ \E j \in S(t) : i = n + j
  <2>1. ASSUME NEW i \in S(u), i \notin S(s) PROVE \E j \in S(t) : i = n + j
    <3>1. i \in 1 .. n + l /\ ~(i \in 1 .. n)
      BY <1>2, <1>3, <2>1
    <3>2. PICK j \in 1 .. l : i = n + j
      <4>1. i - n \in 1 .. l /\ i = n + (i - n)
        BY <3>1
      <4> QED
        BY <4>1
    <3>3. t[j] \in P
      BY <1>3, <3>2
    <3> QED
      BY <1>2, <3>2, <3>3
  <2>2. \A i \in S(s) : i \in 1 .. n /\ i \in S(u)
    BY <1>2, <1>3
  <2>3. ASSUME NEW i \in S(t) PROVE i \in 1 .. l /\ n + i \in S(u)
    <3>1. i \in 1 .. l /\ t[i] \in P
      BY <1>2
    <3>2. n + i \in 1 .. n + l /\ u[n + i] = t[i]
      BY <1>3, <3>1
    <3> QED
      BY <1>3, <3>1, <3>2
  <2> QED
    BY <2>1, <2>2, <2>3
<1>6. Sieve(s, P) = At(s, S(s)) /\ Sieve(t, P) = At(t, S(t)) /\ Sieve(u, P) = At(u, S(u))
  BY DEF Sieve
<1> HIDE DEF S
<1>7. PICK m \in Nat : \E b : Rising(b, m, S(s))
  BY <1>4, SomeRising
<1>8. PICK a : Rising(a, m, S(s))
  BY <1>7
<1>9. PICK k \in Nat : \E b : Rising(b, k, S(t))
  BY <1>4, SomeRising
<1>10. PICK b : Rising(b, k, S(t))
  BY <1>9
<1> DEFINE c == [j \in 1 .. m + k |-> IF j <= m THEN a[j] ELSE n + b[j - m]]
<1>11. /\ \A j \in 1 .. m : a[j] \in S(s) /\ a[j] \in 1 .. n
       /\ \A j \in 1 .. k : b[j] \in S(t) /\ b[j] \in 1 .. l
  BY <1>5, <1>8, <1>10 DEF Rising
<1>12. \A j \in 1 .. m + k : j \in 1 .. m \/ (~(j <= m) /\ j - m \in 1 .. k)
  OBVIOUS
<1>13. \A j \in 1 .. m + k : /\ j \in 1 .. m => c[j] = a[j]
                             /\ ~(j <= m) => c[j] = n + b[j - m]
  OBVIOUS
<1>14. \A j \in 1 .. m : j \in 1 .. m + k /\ c[j] = a[j]
  OBVIOUS
<1>15. \A j \in 1 .. k : m + j \in 1 .. m + k /\ c[m + j] = n + b[j]
  <2> SUFFICES ASSUME NEW j \in 1 .. k PROVE m + j \in 1 .. m + k /\ c[m + j] = n + b[j]
    OBVIOUS
  <2>1. m + j \in 1 .. m + k /\ ~(m + j <= m) /\ m + j - m = j
    OBVIOUS
  <2> QED
    BY <2>1
<1>16. DOMAIN c = 1 .. m + k
  OBVIOUS
<1>17. c \in [1 .. m + k -> S(u)]
  <2>1. \A j \in 1 .. m + k : c[j] \in S(u)
    <3> HIDE DEF c
    <3> QED
      BY <1>5, <1>11, <1>12, <1>13
  <2> QED
    BY <2>1
<1> HIDE DEF c
<1>18. ASSUME NEW i \in S(u) PROVE \E j \in 1 .. m + k : c[j] = i
  <2>1. CASE i \in S(s)
    BY <1>8, <1>14, <2>1 DEF Rising
  <2>2. ASSUME NEW q \in S(t), i = n + q PROVE \E j \in 1 .. m + k : c[j] = i
    <3>1. PICK j \in 1 .. k : b[j] = q
      BY <1>10 DEF Rising
    <3> QED
      BY <1>15, <2>2, <3>1
  <2> QED
    BY <1>5, <2>1, <2>2
<1>19. ASSUME NEW i \in 1 .. m + k, NEW j \in 1 .. m + k, i < j PROVE c[i] < c[j]
  <2>1. CASE i \in 1 .. m /\ j \in 1 .. m
    BY <1>8, <1>13, <1>19, <2>1 DEF Rising
  <2>2. CASE i \in 1 .. m /\ ~(j <= m)
    BY <1>11, <1>12, <1>13, <2>2, SMTT(30)
  <2>3. CASE ~(i <= m) /\ ~(j <= m)
    <3>1. i - m \in 1 .. k /\ j - m \in 1 .. k /\ i - m < j - m
      BY <1>12, <1>19, <2>3
    <3>2. b[i - m] < b[j - m]
      BY <1>10, <3>1 DEF Rising
    <3>3. b[i - m] \in Int /\ b[j - m] \in Int
      BY <1>11, <3>1
    <3> QED
      BY <1>13, <2>3, <3>2, <3>3
  <2> QED
    BY <1>12, <1>19, <2>1, <2>2, <2>3
<1>20. Rising(c, m + k, S(u))
  BY <1>17, <1>18, <1>19 DEF Rising
<1>21. PICK v \in Seq(X) : v = Sieve(u, P) /\ v = [j \in 1 .. m + k |-> u[c[j]]]
  BY <1>4, <1>6, <1>20, AtRising
<1>22. PICK x \in Seq(X) : x = Sieve(s, P) /\ x = [j \in 1 .. m |-> s[a[j]]]
  BY <1>4, <1>6, <1>8, AtRising
<1>23. PICK y \in Seq(X) : y = Sieve(t, P) /\ y = [j \in 1 .. k |-> t[b[j]]]
  BY <1>4, <1>6, <1>10, AtRising
<1>24. Len(v) = m + k /\ Len(x) = m /\ Len(y) = k
  BY <1>21, <1>22, <1>23
<1>25. \A j \in 1 .. m : v[j] = x[j]
  BY <1>3, <1>11, <1>14, <1>21, <1>22
<1>26. \A j \in 1 .. k : v[m + j] = y[j]
  BY <1>3, <1>11, <1>15, <1>21, <1>23, SMTT(30)
<1>27. v = x \o y
  <2>1. /\ x \o y \in Seq(X) /\ Len(x \o y) = m + k
        /\ \A j \in 1 .. m : (x \o y)[j] = x[j]
        /\ \A j \in 1 .. k : (x \o y)[m + j] = y[j]
    <3>1. /\ x \o y \in Seq(X) /\ Len(x \o y) = Len(x) + Len(y)
          /\ \A j \in 1 .. Len(x) : (x \o y)[j] = x[j]
          /\ \A j \in 1 .. Len(y) : (x \o y)[Len(x) + j] = y[j]
      BY ConcatPlaces
    <3> QED
      BY <1>24, <3>1
  <2>2. PICK w_ : w_ = x \o y
    OBVIOUS
  <2>3. \A j \in 1 .. m + k : v[j] = w_[j]
    <3> SUFFICES ASSUME NEW j \in 1 .. m + k PROVE v[j] = w_[j]
      OBVIOUS
    <3>1. j \in 1 .. m \/ (j - m \in 1 .. k /\ j = m + (j - m))
      BY <1>12
    <3> QED
      BY <1>25, <1>26, <2>1, <2>2, <3>1
  <2> QED
    BY <1>24, <2>1, <2>2, <2>3
<1> QED
  BY <1>1, <1>21, <1>22, <1>23, <1>27

LEMMA MappedIs ==
  ASSUME NEW X, NEW Y, NEW s \in Seq(X), NEW F, Maps(F, X, Y)
  PROVE  /\ Mapped(s, F) \in Seq(Y) /\ Len(Mapped(s, F)) = Len(s) /\ DOMAIN Mapped(s, F) = DOMAIN s
         /\ \A i \in DOMAIN s : s[i] \in X /\ Mapped(s, F)[i] = F[s[i]]
<1>1. PICK n \in Nat : n = Len(s) /\ DOMAIN s = 1 .. n
  OBVIOUS
<1>2. \A i \in 1 .. n : s[i] \in X
  BY <1>1
<1>3. PICK m : m = Mapped(s, F)
  OBVIOUS
<1>4. m = [i \in 1 .. n |-> F[s[i]]]
  BY <1>1, <1>3 DEF Mapped
<1>5. m \in [1 .. n -> Y]
  BY <1>2, <1>4 DEF Maps
<1>6. m \in Seq(Y) /\ Len(m) = n /\ DOMAIN m = 1 .. n
  BY <1>5
<1> QED
  BY <1>1, <1>2, <1>3, <1>4, <1>6

LEMMA MappedJoin ==
  ASSUME NEW X, NEW Y, NEW s \in Seq(X), NEW t \in Seq(X), NEW F, Maps(F, X, Y)
  PROVE  /\ Mapped(s \o t, F) = Mapped(s, F) \o Mapped(t, F)
         /\ Mapped(s, F) \in Seq(Y) /\ Mapped(t, F) \in Seq(Y) /\ s \o t \in Seq(X)
<1>1. PICK u : u = s \o t
  OBVIOUS
<1>2. /\ u \in Seq(X) /\ Len(u) = Len(s) + Len(t) /\ \A j \in 1 .. Len(s) : u[j] = s[j]
      /\ \A j \in 1 .. Len(t) : u[Len(s) + j] = t[j]
  BY <1>1, ConcatPlaces
<1>3. PICK n \in Nat, l \in Nat : n = Len(s) /\ l = Len(t)
  OBVIOUS
<1>4. DOMAIN s = 1 .. n /\ DOMAIN t = 1 .. l /\ DOMAIN u = 1 .. n + l
  BY <1>2, <1>3
<1>5. PICK a \in Seq(Y) : a = Mapped(s, F) /\ Len(a) = n /\ \A i \in 1 .. n : a[i] = F[s[i]]
  <2>1. /\ Mapped(s, F) \in Seq(Y) /\ Len(Mapped(s, F)) = Len(s)
        /\ \A i \in DOMAIN s : s[i] \in X /\ Mapped(s, F)[i] = F[s[i]]
    BY MappedIs
  <2> QED
    BY <1>3, <1>4, <2>1
<1>6. PICK b \in Seq(Y) : b = Mapped(t, F) /\ Len(b) = l /\ \A i \in 1 .. l : b[i] = F[t[i]]
  BY <1>3, <1>4, MappedIs
<1>7. PICK c \in Seq(Y) : c = Mapped(u, F) /\ Len(c) = n + l /\ \A i \in 1 .. n + l : c[i] = F[u[i]]
  BY <1>2, <1>3, <1>4, MappedIs
<1>8. PICK d : d = a \o b
  OBVIOUS
<1>9. /\ d \in Seq(Y) /\ Len(d) = Len(a) + Len(b) /\ \A j \in 1 .. Len(a) : d[j] = a[j]
      /\ \A j \in 1 .. Len(b) : d[Len(a) + j] = b[j]
  BY <1>8, ConcatPlaces
<1>10. \A i \in 1 .. n + l : i \in 1 .. n \/ (i - n \in 1 .. l /\ i = n + (i - n))
  OBVIOUS
<1>11. \A i \in 1 .. n : i \in 1 .. n + l
  OBVIOUS
<1>12. ASSUME NEW i \in 1 .. n PROVE c[i] = d[i]
  <2>1. c[i] = F[u[i]] /\ u[i] = s[i] /\ d[i] = a[i] /\ a[i] = F[s[i]]
    BY <1>2, <1>3, <1>5, <1>7, <1>9, <1>11
  <2> QED
    BY <2>1
<1>13. ASSUME NEW i \in 1 .. l PROVE c[n + i] = d[n + i]
  <2>1. n + i \in 1 .. n + l
    OBVIOUS
  <2>2. c[n + i] = F[u[n + i]] /\ u[n + i] = t[i] /\ d[n + i] = b[i] /\ b[i] = F[t[i]]
    BY <1>2, <1>3, <1>5, <1>6, <1>7, <1>9, <2>1
  <2> QED
    BY <2>2
<1>14. \A i \in 1 .. n + l : c[i] = d[i]
  BY <1>10, <1>12, <1>13
<1>15. c = d
  BY <1>5, <1>6, <1>7, <1>9, <1>14
<1> QED
  BY <1>1, <1>2, <1>5, <1>6, <1>7, <1>8, <1>15

LEMMA MappedLast ==
  ASSUME NEW X, NEW Y, NEW s \in Seq(X), NEW x \in X, NEW F, Maps(F, X, Y)
  PROVE  Mapped(s \o <<x>>, F) = Mapped(s, F) \o <<F[x]>> /\ Mapped(s, F) \in Seq(Y) /\ F[x] \in Y
<1>3. ASSUME NEW t \in Seq(X) 
      PROVE  /\ Mapped(s \o t, F) = Mapped(s, F) \o Mapped(t, F)
             /\ Mapped(s, F) \in Seq(Y) /\ Mapped(t, F) \in Seq(Y) /\ s \o t \in Seq(X)
  BY MappedJoin
<1>1. <<x>> \in Seq(X)
  OBVIOUS
<1>2. PICK o \in Seq(X) : o = <<x>>
  BY <1>1
<1>4. Mapped(s \o o, F) = Mapped(s, F) \o Mapped(o, F)
  BY <1>2, <1>3
<1>5. Mapped(<<x>>, F) = <<F[x]>>
  BY DEF Mapped
<1>6. Mapped(s, F) \in Seq(Y) /\ F[x] \in Y
  BY <1>2, <1>3 DEF Maps
<1> QED
  BY <1>2, <1>4, <1>5, <1>6

(* Q is what F takes into P.                                               *)
Pulls(F, X, P, Q) == \A x \in X : F[x] \in P <=> x \in Q

(* Whether one maps or picks places first.                                 *)
LEMMA AtMapped ==
  ASSUME NEW X, NEW Y, NEW s \in Seq(X), NEW F, Maps(F, X, Y), NEW S \in SUBSET DOMAIN s
  PROVE  At(Mapped(s, F), S) = Mapped(At(s, S), F) /\ At(s, S) \in Seq(X)
<1>1. PICK n \in Nat : n = Len(s) /\ DOMAIN s = 1 .. n
  OBVIOUS
<1>2. PICK m \in Seq(Y) : m = Mapped(s, F) /\ DOMAIN m = 1 .. n /\ \A i \in 1 .. n : s[i] \in X /\ m[i] = F[s[i]]
  <2>1. /\ Mapped(s, F) \in Seq(Y) /\ DOMAIN Mapped(s, F) = DOMAIN s
        /\ \A i \in DOMAIN s : s[i] \in X /\ Mapped(s, F)[i] = F[s[i]]
    BY MappedIs
  <2> QED
    BY <1>1, <2>1
<1>3. S \in SUBSET DOMAIN m
  BY <1>1, <1>2
<1>5. PICK k \in Nat : \E b : Rising(b, k, S)
  BY SomeRising
<1>6. PICK a : Rising(a, k, S)
  BY <1>5
<1>7. PICK u \in Seq(X) : u = At(s, S) /\ u = [j \in 1 .. k |-> s[a[j]]]
  <2>1. At(s, S) = [j \in 1 .. k |-> s[a[j]]] /\ At(s, S) \in Seq(X)
    BY <1>6, AtRising
  <2> QED
    BY <2>1
<1>8. PICK v : v = At(m, S) /\ v = [j \in 1 .. k |-> m[a[j]]]
  <2>1. At(m, S) = [j \in 1 .. k |-> m[a[j]]]
    BY <1>3, <1>6, AtRising
  <2> QED
    BY <2>1
<1>9. \A j \in 1 .. k : a[j] \in 1 .. n
  BY <1>1, <1>6 DEF Rising
<1>10. v = [j \in 1 .. k |-> F[u[j]]]
  BY <1>2, <1>7, <1>8, <1>9
<1>11. DOMAIN u = 1 .. k
  BY <1>7
<1> QED
  BY <1>2, <1>7, <1>8, <1>10, <1>11 DEF Mapped

LEMMA SieveMapped ==
  ASSUME NEW X, NEW Y, NEW s \in Seq(X), NEW F, Maps(F, X, Y), NEW P, NEW Q,
         Pulls(F, X, P, Q)
  PROVE  Sieve(Mapped(s, F), P) = Mapped(Sieve(s, Q), F)
<1>1. /\ Mapped(s, F) \in Seq(Y) /\ Len(Mapped(s, F)) = Len(s) /\ DOMAIN Mapped(s, F) = DOMAIN s
      /\ \A i \in DOMAIN s : s[i] \in X /\ Mapped(s, F)[i] = F[s[i]]
  BY MappedIs
<1>2. {i \in DOMAIN Mapped(s, F) : Mapped(s, F)[i] \in P} = {i \in DOMAIN s : s[i] \in Q}
  BY <1>1 DEF Pulls
<1>3. PICK S : S = {i \in DOMAIN s : s[i] \in Q}
  OBVIOUS
<1>4. S \in SUBSET DOMAIN s
  BY <1>3
<1>5. At(Mapped(s, F), S) = Mapped(At(s, S), F)
  BY <1>4, AtMapped
<1> QED
  BY <1>2, <1>3, <1>5 DEF Sieve

(***************************************************************************)
(* Joining                                                                 *)
(***************************************************************************)
(* A list is empty or a shorter one and a last element.                    *)
LEMMA LastOf ==
  ASSUME NEW X, NEW s \in Seq(X), s # <<>>
  PROVE  \E t \in Seq(X) : \E x \in X : /\ s = t \o <<x>> /\ Len(s) = Len(t) + 1 /\ Len(t) \in Nat
                                        /\ x = s[Len(t) + 1] /\ \A i \in 1 .. Len(t) : t[i] = s[i]
<1>1. PICK m \in Nat : Len(s) = m + 1
  <2>1. Len(s) \in Nat /\ Len(s) # 0
    OBVIOUS
  <2>2. Len(s) - 1 \in Nat /\ Len(s) = (Len(s) - 1) + 1
    BY <2>1
  <2> QED
    BY <2>2, Zenon
<1> DEFINE t == [i \in 1 .. m |-> s[i]]
           x == s[m + 1]
<1>2. t \in Seq(X) /\ Len(t) = m /\ x \in X /\ \A i \in 1 .. m : t[i] = s[i]
  <2>1. \A i \in 1 .. m : i \in 1 .. m + 1
    OBVIOUS
  <2>2. \A i \in 1 .. m + 1 : s[i] \in X
    BY <1>1
  <2>3. m + 1 \in 1 .. m + 1
    OBVIOUS
  <2>4. t \in [1 .. m -> X]
    BY <2>1, <2>2
  <2> QED
    BY <2>2, <2>3, <2>4
<1> HIDE DEF t
<1>3. <<x>> \in Seq(X) /\ Len(<<x>>) = 1 /\ <<x>>[1] = x
  BY <1>2
<1>4. PICK o \in Seq(X) : o = <<x>>
  BY <1>3
<1>5. PICK u : u = t \o o
  OBVIOUS
<1>6. /\ u \in Seq(X) /\ Len(u) = Len(t) + Len(o) /\ \A j \in 1 .. Len(t) : u[j] = t[j]
      /\ \A j \in 1 .. Len(o) : u[Len(t) + j] = o[j]
  <2>1. t \in Seq(X) /\ o \in Seq(X)
    BY <1>2
  <2> QED
    BY <1>5, <2>1, ConcatPlaces
<1>7. Len(u) = m + 1 /\ u[m + 1] = x /\ \A j \in 1 .. m : u[j] = s[j]
  BY <1>2, <1>3, <1>4, <1>6
<1>8. \A j \in 1 .. m + 1 : j \in 1 .. m \/ j = m + 1
  OBVIOUS
<1>9. u = s
  BY <1>1, <1>6, <1>7, <1>8
<1>10. s = t \o <<x>>
  BY <1>4, <1>5, <1>9
<1> QED
  BY <1>1, <1>2, <1>10

LEMMA FlattenNone == FlattenSeq(<<>>) = <<>>
BY DEF FlattenSeq

LEMMA FlattenLast ==
  ASSUME NEW X, NEW ss \in Seq(Seq(X)), NEW s \in Seq(X)
  PROVE  FlattenSeq(ss \o <<s>>) = FlattenSeq(ss) \o s
<1>0. PICK Y : Y = Seq(X)
  OBVIOUS
<1>1. PICK o : o = <<s>>
  OBVIOUS
<1>2. o \in Seq(Y) /\ Len(o) = 1 /\ o[1] = s /\ ss \in Seq(Y)
  BY <1>0, <1>1
<1>3. PICK tt : tt = ss \o o
  OBVIOUS
<1>4. /\ tt \in Seq(Y) /\ Len(tt) = Len(ss) + Len(o) /\ \A j \in 1 .. Len(ss) : tt[j] = ss[j]
      /\ \A j \in 1 .. Len(o) : tt[Len(ss) + j] = o[j]
  <2>1. ss \in Seq(Y) /\ o \in Seq(Y)
    BY <1>2
  <2> QED
    BY <1>3, <2>1, ConcatPlaces
<1>5. PICK m \in Nat : m = Len(ss)
  BY <1>2
<1>6. tt \in Seq(Seq(X)) /\ Len(tt) = m + 1 /\ tt[m + 1] = s /\ \A j \in 1 .. m : tt[j] = ss[j]
  BY <1>0, <1>2, <1>4, <1>5
<1>7. PICK off : Offsets(off, tt)
  BY <1>6, OffsetsExist
<1>8. /\ off \in [1 .. (m + 1) + 1 -> Nat] /\ off[1] = 0
      /\ \A i \in 1 .. m + 1 : off[i + 1] = off[i] + Len(tt[i])
  BY <1>6, <1>7 DEF Offsets
<1> DEFINE less == [i \in 1 .. m + 1 |-> off[i]]
<1>9. \A i \in 1 .. m : i \in 1 .. m + 1 /\ i + 1 \in 1 .. m + 1
  OBVIOUS
<1>10. \A i \in 1 .. m + 1 : i \in 1 .. (m + 1) + 1 /\ off[i] \in Nat /\ less[i] = off[i]
  BY <1>8
<1>11. Offsets(less, ss)
  <2>1. less \in [1 .. m + 1 -> Nat]
    BY <1>10
  <2>2. 1 \in 1 .. m + 1
    OBVIOUS
  <2>3. less[1] = 0
    BY <1>8, <1>10, <2>2
  <2> HIDE DEF less
  <2>4. \A i \in 1 .. m : less[i + 1] = less[i] + Len(ss[i])
    BY <1>6, <1>8, <1>9, <1>10
  <2> QED
    BY <1>5, <2>1, <2>3, <2>4 DEF Offsets
<1> HIDE DEF less
<1>12. PICK f : f = FlattenSeq(ss)
  OBVIOUS
<1>13. f \in Seq(X) /\ Len(f) = less[m + 1] /\ \A i \in 1 .. m : \A j \in 1 .. Len(ss[i]) : f[less[i] + j] = ss[i][j]
  BY <1>5, <1>11, <1>12, FlattenPlaces
<1>14. m + 1 \in 1 .. m + 1
  OBVIOUS
<1>15. PICK k \in Nat : k = off[m + 1] /\ Len(f) = k
  BY <1>10, <1>13, <1>14
<1>16. PICK u : u = f \o s
  OBVIOUS
<1>17. /\ u \in Seq(X) /\ Len(u) = Len(f) + Len(s) /\ \A j \in 1 .. Len(f) : u[j] = f[j]
       /\ \A j \in 1 .. Len(s) : u[Len(f) + j] = s[j]
  <2>1. f \in Seq(X)
    BY <1>13
  <2> QED
    BY <1>16, <2>1, ConcatPlaces
<1>18. off[Len(tt) + 1] = Len(u)
  BY <1>6, <1>8, <1>14, <1>15, <1>17
<1>19. ASSUME NEW i \in 1 .. m + 1, NEW j \in 1 .. Len(tt[i]) PROVE tt[i][j] = u[off[i] + j]
  <2>1. CASE i = m + 1
    BY <1>6, <1>15, <1>17, <2>1
  <2>2. CASE i # m + 1
    <3>1. i \in 1 .. m
      BY <2>2
    <3>2. tt[i] = ss[i] /\ f[off[i] + j] = ss[i][j]
      <4>1. tt[i] = ss[i]
        BY <1>6, <3>1
      <4>2. j \in 1 .. Len(ss[i])
        BY <4>1
      <4>3. less[i] = off[i]
        BY <1>10
      <4>4. \A q \in 1 .. Len(ss[i]) : f[less[i] + q] = ss[i][q]
        BY <1>13, <3>1
      <4>5. f[less[i] + j] = ss[i][j]
        BY <4>2, <4>4
      <4> QED
        BY <4>1, <4>3, <4>5
    <3>3. off[i] + j \in 1 .. k
      <4>1. \A x, y \in 1 .. m + 1 : x <= y => less[x] <= less[y]
        BY <1>5, <1>11, OffsetsRise
      <4>2. i + 1 \in 1 .. m + 1 /\ i + 1 <= m + 1
        BY <3>1
      <4>3. less[i + 1] <= less[m + 1]
        BY <1>14, <4>1, <4>2
      <4>4. off[i + 1] <= k /\ off[i + 1] = off[i] + Len(tt[i]) /\ off[i] \in Nat /\ off[i + 1] \in Nat
        BY <1>8, <1>10, <1>14, <1>15, <4>2, <4>3
      <4>5. Len(tt[i]) \in Nat
        BY <1>6, <3>1, <3>2
      <4>6. \A x, y, z, v \in Nat : z = x + y /\ z <= v => \A q \in 1 .. y : x + q \in 1 .. v
        OBVIOUS
      <4>7. \A q \in 1 .. Len(tt[i]) : off[i] + q \in 1 .. k
        BY <4>4, <4>5, <4>6
      <4> QED
        BY <4>7
    <3> QED
      BY <1>15, <1>17, <3>2, <3>3
  <2> QED
    BY <2>1, <2>2
<1>20. FlattenSeq(tt) = u
  BY <1>6, <1>7, <1>17, <1>18, <1>19, PiecesJoin
<1> QED
  BY <1>1, <1>3, <1>12, <1>16, <1>20

(* What holds of the empty list and of each list with one more element     *)
(* holds of all lists.                                                     *)
ListInductive(G, X) ==
  G \in SUBSET Seq(X) /\ <<>> \in G /\ \A s \in G : \A x \in X : s \o <<x>> \in G
LEMMA ListInduction ==
  ASSUME NEW X, NEW G, ListInductive(G, X)
  PROVE  G = Seq(X)
<1> DEFINE T == {m \in Nat : \E s \in Seq(X) : Len(s) = m /\ s \notin G}
<1>1. T = {}
  <2> SUFFICES ASSUME T # {} PROVE FALSE
    OBVIOUS
  <2>1. PICK m \in T : \A k \in T : m <= k
    <3>1. T \in SUBSET Nat
      OBVIOUS
    <3> HIDE DEF T
    <3> QED
      BY <3>1, LeastNat
  <2>2. PICK s \in Seq(X) : Len(s) = m /\ s \notin G
    OBVIOUS
  <2>3. PICK t \in Seq(X) : \E x \in X : s = t \o <<x>> /\ Len(s) = Len(t) + 1 /\ Len(t) \in Nat
    <3>1. s # <<>>
      BY <2>2 DEF ListInductive
    <3>2. \E t \in Seq(X) : \E x \in X : /\ s = t \o <<x>> /\ Len(s) = Len(t) + 1 /\ Len(t) \in Nat
                                        /\ x = s[Len(t) + 1] /\ \A i \in 1 .. Len(t) : t[i] = s[i]
      BY <3>1, LastOf, ZenonT(30)
    <3> QED
      BY <3>2
  <2>4. t \in G
    BY <2>1, <2>2, <2>3
  <2> QED
    BY <2>2, <2>3, <2>4 DEF ListInductive
<1>2. ASSUME NEW s \in Seq(X) PROVE s \in G
  <2>1. Len(s) \in Nat
    OBVIOUS
  <2> QED
    BY <1>1, <2>1
<1> QED
  BY <1>2 DEF ListInductive

(***************************************************************************)
(* What is made of each of a list, joined                                  *)
(***************************************************************************)
LEMMA JoinedLast ==
  ASSUME NEW P, NEW Y, NEW s \in Seq(P), NEW x \in P, NEW h, Maps(h, P, Seq(Y))
  PROVE  /\ FlattenSeq(Mapped(s \o <<x>>, h)) = FlattenSeq(Mapped(s, h)) \o h[x]
         /\ FlattenSeq(Mapped(s, h)) \in Seq(Y) /\ h[x] \in Seq(Y) /\ s \o <<x>> \in Seq(P)
<1>1. PICK Z : Z = Seq(Y)
  OBVIOUS
<1>2. Maps(h, P, Z)
  BY <1>1
<1>3. Mapped(s \o <<x>>, h) = Mapped(s, h) \o <<h[x]>> /\ Mapped(s, h) \in Seq(Z) /\ h[x] \in Z
  BY <1>2, MappedLast
<1>4. Mapped(s, h) \in Seq(Seq(Y)) /\ h[x] \in Seq(Y)
  BY <1>1, <1>3
<1>5. PICK ss \in Seq(Seq(Y)), t \in Seq(Y) : ss = Mapped(s, h) /\ t = h[x]
  BY <1>4
<1>6. FlattenSeq(ss \o <<t>>) = FlattenSeq(ss) \o t
  BY FlattenLast
<1>7. PICK off : Offsets(off, ss)
  BY OffsetsExist
<1>8. FlattenSeq(ss) \in Seq(Y)
  BY <1>7, FlattenPlaces
<1>9. s \o <<x>> \in Seq(P)
  OBVIOUS
<1> QED
  BY <1>3, <1>5, <1>6, <1>8, <1>9

LEMMA JoinedNone == ASSUME NEW h PROVE FlattenSeq(Mapped(<<>>, h)) = <<>>
<1>1. Mapped(<<>>, h) = <<>>
  BY DEF Mapped
<1> QED
  BY <1>1, FlattenNone

(* What is made of two joined lists by joining what is made of both, is    *)
(* made of any joined lists in this way.                                   *)
Joining(g, X, Y) ==
  /\ \A a \in Seq(X) : g[a] \in Seq(Y)
  /\ g[<<>>] = <<>>
  /\ \A a, b \in Seq(X) : g[a \o b] = g[a] \o g[b]
Through(k, g, h, P) == \A x \in P : k[x] = g[h[x]]

LEMMA JoinedThrough ==
  ASSUME NEW P, NEW X, NEW Y, NEW s \in Seq(P), NEW h, Maps(h, P, Seq(X)), NEW k, Maps(k, P, Seq(Y)),
         NEW g, Joining(g, X, Y), Through(k, g, h, P)
  PROVE  /\ g[FlattenSeq(Mapped(s, h))] = FlattenSeq(Mapped(s, k))
         /\ FlattenSeq(Mapped(s, h)) \in Seq(X) /\ FlattenSeq(Mapped(s, k)) \in Seq(Y)
<1> DEFINE Good(t) == /\ g[FlattenSeq(Mapped(t, h))] = FlattenSeq(Mapped(t, k))
                      /\ FlattenSeq(Mapped(t, h)) \in Seq(X) /\ FlattenSeq(Mapped(t, k)) \in Seq(Y)
           G == {t \in Seq(P) : Good(t)}
<1>1. Good(<<>>)
  <2>1. FlattenSeq(Mapped(<<>>, h)) = <<>>
    BY JoinedNone
  <2>2. FlattenSeq(Mapped(<<>>, k)) = <<>>
    BY JoinedNone
  <2>3. g[<<>>] = <<>>
    BY DEF Joining
  <2>4. <<>> \in Seq(X) /\ <<>> \in Seq(Y)
    OBVIOUS
  <2> QED
    BY <2>1, <2>2, <2>3, <2>4
<1>2. ASSUME NEW t \in Seq(P), NEW x \in P, Good(t) PROVE Good(t \o <<x>>)
  <2>1. PICK a : a = FlattenSeq(Mapped(t, h))
    OBVIOUS
  <2>2. PICK b : b = FlattenSeq(Mapped(t, k))
    OBVIOUS
  <2>3. FlattenSeq(Mapped(t \o <<x>>, h)) = a \o h[x] /\ a \in Seq(X) /\ h[x] \in Seq(X)
    <3>1. /\ FlattenSeq(Mapped(t \o <<x>>, h)) = FlattenSeq(Mapped(t, h)) \o h[x]
          /\ FlattenSeq(Mapped(t, h)) \in Seq(X) /\ h[x] \in Seq(X) /\ t \o <<x>> \in Seq(P)
      BY JoinedLast
    <3> QED
      BY <2>1, <3>1
  <2>4. FlattenSeq(Mapped(t \o <<x>>, k)) = b \o k[x] /\ b \in Seq(Y) /\ k[x] \in Seq(Y)
    <3>1. /\ FlattenSeq(Mapped(t \o <<x>>, k)) = FlattenSeq(Mapped(t, k)) \o k[x]
          /\ FlattenSeq(Mapped(t, k)) \in Seq(Y) /\ k[x] \in Seq(Y) /\ t \o <<x>> \in Seq(P)
      BY JoinedLast
    <3> QED
      BY <2>2, <3>1
  <2>5. g[a \o h[x]] = g[a] \o g[h[x]]
    BY <2>3 DEF Joining
  <2>6. g[a] = b /\ k[x] = g[h[x]]
    BY <1>2, <2>1, <2>2 DEF Through
  <2>7. a \o h[x] \in Seq(X) /\ b \o k[x] \in Seq(Y)
    BY <2>3, <2>4
  <2> QED
    BY <2>3, <2>4, <2>5, <2>6, <2>7
<1> HIDE DEF Good
<1>3. ListInductive(G, P)
  BY <1>1, <1>2 DEF ListInductive
<1> HIDE DEF G
<1>4. G = Seq(P)
  BY <1>3, ListInduction
<1>5. Good(s)
  BY <1>4 DEF G
<1> QED
  BY <1>5 DEF Good

(* Of joined lists all but one of which are empty, that one is left.       *)
LEMMA JoinedEmpty ==
  ASSUME NEW P, NEW Y, NEW s \in Seq(P), NEW h, Maps(h, P, Seq(Y)), \A k \in DOMAIN s : h[s[k]] = <<>>
  PROVE  FlattenSeq(Mapped(s, h)) = <<>>
<1> DEFINE Good(t) == (\A k \in DOMAIN t : h[t[k]] = <<>>) => FlattenSeq(Mapped(t, h)) = <<>>
           G == {t \in Seq(P) : Good(t)}
<1>1. Good(<<>>)
  BY JoinedNone
<1>2. ASSUME NEW t \in Seq(P), NEW x \in P, Good(t) PROVE Good(t \o <<x>>)
  <2>1. PICK u : u = t \o <<x>>
    OBVIOUS
  <2>2. PICK m \in Nat : m = Len(t) /\ DOMAIN t = 1 .. m
    OBVIOUS
  <2>3. DOMAIN u = 1 .. m + 1 /\ u[m + 1] = x /\ \A k \in 1 .. m : u[k] = t[k]
    BY <2>1, <2>2
  <2>4. SUFFICES ASSUME \A k \in DOMAIN u : h[u[k]] = <<>> PROVE FlattenSeq(Mapped(u, h)) = <<>>
    BY <2>1
  <2>5. m + 1 \in DOMAIN u /\ \A k \in DOMAIN t : k \in DOMAIN u /\ u[k] = t[k]
    BY <2>2, <2>3
  <2>6. h[x] = <<>> /\ \A k \in DOMAIN t : h[t[k]] = <<>>
    BY <2>3, <2>4, <2>5
  <2>7. FlattenSeq(Mapped(t, h)) = <<>>
    BY <1>2, <2>6
  <2>8. /\ FlattenSeq(Mapped(t \o <<x>>, h)) = FlattenSeq(Mapped(t, h)) \o h[x]
        /\ FlattenSeq(Mapped(t, h)) \in Seq(Y) /\ h[x] \in Seq(Y) /\ t \o <<x>> \in Seq(P)
    BY JoinedLast
  <2>9. <<>> \o <<>> = <<>>
    OBVIOUS
  <2> QED
    BY <2>1, <2>6, <2>7, <2>8, <2>9
<1> HIDE DEF Good
<1>3. ListInductive(G, P)
  BY <1>1, <1>2 DEF ListInductive
<1> HIDE DEF G
<1>4. G = Seq(P)
  BY <1>3, ListInduction
<1>5. Good(s)
  BY <1>4 DEF G
<1> QED
  BY <1>5 DEF Good

OnlyOne(h, s, i) == i \in DOMAIN s /\ \A k \in DOMAIN s : k # i => h[s[k]] = <<>>
LEMMA JoinedOnly ==
  ASSUME NEW P, NEW Y, NEW s \in Seq(P), NEW h, Maps(h, P, Seq(Y)), NEW i, OnlyOne(h, s, i)
  PROVE  FlattenSeq(Mapped(s, h)) = h[s[i]] /\ h[s[i]] \in Seq(Y)
<1> DEFINE Good(t) == \A j : OnlyOne(h, t, j) => FlattenSeq(Mapped(t, h)) = h[t[j]] /\ h[t[j]] \in Seq(Y)
           G == {t \in Seq(P) : Good(t)}
<1>1. Good(<<>>)
  BY DEF OnlyOne
<1>2. ASSUME NEW t \in Seq(P), NEW x \in P, Good(t) PROVE Good(t \o <<x>>)
  <2>1. PICK u : u = t \o <<x>>
    OBVIOUS
  <2>2. PICK m \in Nat : m = Len(t) /\ DOMAIN t = 1 .. m
    OBVIOUS
  <2>3. DOMAIN u = 1 .. m + 1 /\ u[m + 1] = x /\ \A k \in 1 .. m : u[k] = t[k]
    BY <2>1, <2>2
  <2>4. SUFFICES ASSUME NEW j, OnlyOne(h, u, j)
                 PROVE  FlattenSeq(Mapped(u, h)) = h[u[j]] /\ h[u[j]] \in Seq(Y)
    BY <2>1
  <2>5. /\ FlattenSeq(Mapped(t \o <<x>>, h)) = FlattenSeq(Mapped(t, h)) \o h[x]
        /\ FlattenSeq(Mapped(t, h)) \in Seq(Y) /\ h[x] \in Seq(Y) /\ t \o <<x>> \in Seq(P)
    BY JoinedLast
  <2>6. m + 1 \in DOMAIN u /\ \A k \in DOMAIN t : k \in DOMAIN u /\ u[k] = t[k] /\ k # m + 1
    BY <2>2, <2>3
  <2>7. \A r \in Seq(Y) : <<>> \o r = r /\ r \o <<>> = r
    OBVIOUS
  <2>8. CASE j = m + 1
    <3>1. \A k \in DOMAIN t : h[t[k]] = <<>>
      BY <2>4, <2>6, <2>8 DEF OnlyOne
    <3>2. FlattenSeq(Mapped(t, h)) = <<>>
      BY <3>1, JoinedEmpty
    <3> QED
      BY <2>1, <2>3, <2>5, <2>7, <2>8, <3>2
  <2>9. CASE j # m + 1
    <3>1. h[x] = <<>>
      BY <2>3, <2>4, <2>6, <2>9 DEF OnlyOne
    <3>2. j \in DOMAIN t /\ u[j] = t[j]
      BY <2>2, <2>3, <2>4, <2>9 DEF OnlyOne
    <3>3. OnlyOne(h, t, j)
      BY <2>4, <2>6, <3>2 DEF OnlyOne
    <3>4. FlattenSeq(Mapped(t, h)) = h[t[j]] /\ h[t[j]] \in Seq(Y)
      BY <1>2, <3>3
    <3> QED
      BY <2>1, <2>5, <2>7, <3>1, <3>2, <3>4
  <2> QED
    BY <2>8, <2>9
<1> HIDE DEF Good
<1>3. ListInductive(G, P)
  BY <1>1, <1>2 DEF ListInductive
<1> HIDE DEF G
<1>4. G = Seq(P)
  BY <1>3, ListInduction
<1>5. Good(s)
  BY <1>4 DEF G
<1> QED
  BY <1>5 DEF Good

(***************************************************************************)
(* The values of joined blocks, each of one value                          *)
(***************************************************************************)
AllAre(a, x) == a # <<>> /\ \A i \in DOMAIN a : a[i] = x
NoneIs(c, x) == \A i \in DOMAIN c : c[i] # x

LEMMA DistinctLast ==
  ASSUME NEW X, NEW c \in Seq(X), NEW a \in Seq(X), NEW x \in X, AllAre(a, x), NoneIs(c, x)
  PROVE  Distinct(c \o a) = Distinct(c) \o <<x>> /\ Distinct(c) \in Seq(X)
<1>1. PICK u : u = c \o a
  OBVIOUS
<1>2. PICK m \in Nat, n \in Nat : m = Len(c) /\ n = Len(a)
  OBVIOUS
<1>3. /\ u \in Seq(X) /\ Len(u) = m + n /\ \A j \in 1 .. m : u[j] = c[j]
      /\ \A j \in 1 .. n : u[m + j] = a[j]
  BY <1>1, <1>2, ConcatPlaces
<1>4. DOMAIN c = 1 .. m /\ DOMAIN a = 1 .. n /\ DOMAIN u = 1 .. m + n
  BY <1>2, <1>3
<1>5. n # 0 /\ m + 1 \in 1 .. m + n /\ u[m + 1] = x
  <2>1. n # 0
    BY <1>2 DEF AllAre
  <2>2. 1 \in 1 .. n /\ m + 1 \in 1 .. m + n
    BY <2>1
  <2> QED
    BY <1>3, <1>4, <2>1, <2>2 DEF AllAre
<1>6. \A i \in m + 1 .. m + n : u[i] = x
  <2> SUFFICES ASSUME NEW i \in m + 1 .. m + n PROVE u[i] = x
    OBVIOUS
  <2>1. i - m \in 1 .. n /\ i = m + (i - m)
    OBVIOUS
  <2> QED
    BY <1>3, <1>4, <2>1 DEF AllAre
<1>7. \A i \in 1 .. m : u[i] # x
  BY <1>3, <1>4 DEF NoneIs
<1> DEFINE S == {i \in DOMAIN c : \A j \in 1 .. i - 1 : c[j] # c[i]}
           T == {i \in DOMAIN u : \A j \in 1 .. i - 1 : u[j] # u[i]}
<1>8. \A i \in 1 .. m : i \in T <=> i \in S
  <2> SUFFICES ASSUME NEW i \in 1 .. m PROVE i \in T <=> i \in S
    OBVIOUS
  <2>1. \A j \in 1 .. i - 1 : j \in 1 .. m
    OBVIOUS
  <2>2. i \in DOMAIN c /\ i \in DOMAIN u
    BY <1>4
  <2> QED
    BY <1>3, <2>1, <2>2
<1>9. \A i \in m + 1 .. m + n : i \in T <=> i = m + 1
  <2> SUFFICES ASSUME NEW i \in m + 1 .. m + n PROVE i \in T <=> i = m + 1
    OBVIOUS
  <2>1. CASE i = m + 1
    <3>1. \A j \in 1 .. i - 1 : j \in 1 .. m
      BY <2>1
    <3> QED
      BY <1>4, <1>5, <1>7, <2>1, <3>1
  <2>2. CASE i # m + 1
    <3>1. m + 1 \in 1 .. i - 1
      BY <2>2
    <3> QED
      BY <1>5, <1>6, <2>2, <3>1
  <2> QED
    BY <2>1, <2>2
<1>10. S \in SUBSET DOMAIN c /\ T \in SUBSET DOMAIN u /\ Distinct(c) = At(c, S) /\ Distinct(u) = At(u, T)
  BY DEF Distinct
<1>11. \A i \in 1 .. m + n : i \in 1 .. m \/ i \in m + 1 .. m + n
  OBVIOUS
<1> HIDE DEF S, T
<1>12. \A i : i \in T <=> i \in S \/ i = m + 1
  BY <1>4, <1>5, <1>8, <1>9, <1>10, <1>11
<1>13. PICK k \in Nat : \E b : Rising(b, k, S)
  <2>1. S \in SUBSET DOMAIN c
    BY <1>10
  <2> QED
    BY <2>1, SomeRising
<1>14. PICK b : Rising(b, k, S)
  BY <1>13
<1>15. \A j \in 1 .. k : b[j] \in S /\ b[j] \in 1 .. m
  BY <1>4, <1>10, <1>14 DEF Rising
<1> DEFINE d == [j \in 1 .. k + 1 |-> IF j = k + 1 THEN m + 1 ELSE b[j]]
<1>16. \A j \in 1 .. k + 1 : j \in 1 .. k \/ j = k + 1
  OBVIOUS
<1>17. \A j \in 1 .. k : j \in 1 .. k + 1 /\ j # k + 1
  OBVIOUS
<1>18. k + 1 \in 1 .. k + 1
  OBVIOUS
<1>19. d[k + 1] = m + 1 /\ \A j \in 1 .. k : d[j] = b[j]
  BY <1>17, <1>18
<1>20. d = [j \in 1 .. k + 1 |-> d[j]]
  OBVIOUS
<1> HIDE DEF d
<1>21. Rising(d, k + 1, T)
  <2>1. \A j \in 1 .. k + 1 : d[j] \in T
    BY <1>12, <1>15, <1>16, <1>19
  <2>2. d \in [1 .. k + 1 -> T]
    BY <1>20, <2>1
  <2>3. ASSUME NEW v \in T PROVE \E j \in 1 .. k + 1 : d[j] = v
    <3>1. CASE v = m + 1
      BY <1>18, <1>19, <3>1
    <3>2. CASE v \in S
      <4>1. PICK j \in 1 .. k : b[j] = v
        BY <1>14, <3>2 DEF Rising
      <4> QED
        BY <1>17, <1>19, <4>1
    <3> QED
      BY <1>12, <3>1, <3>2
  <2>4. ASSUME NEW i \in 1 .. k + 1, NEW j \in 1 .. k + 1, i < j PROVE d[i] < d[j]
    <3>1. i \in 1 .. k
      BY <2>4
    <3>2. CASE j = k + 1
      <4>1. d[i] \in 1 .. m /\ d[j] = m + 1
        BY <1>15, <1>19, <3>1, <3>2
      <4> QED
        BY <4>1
    <3>3. CASE j \in 1 .. k
      BY <1>14, <1>19, <2>4, <3>1, <3>3 DEF Rising
    <3> QED
      BY <1>16, <3>2, <3>3
  <2> QED
    BY <2>2, <2>3, <2>4 DEF Rising
<1>22. PICK p \in Seq(X) : p = Distinct(c) /\ Len(p) = k /\ p = [j \in 1 .. k |-> c[b[j]]]
  <2>1. S \in SUBSET DOMAIN c
    BY <1>10
  <2>2. At(c, S) = [j \in 1 .. k |-> c[b[j]]] /\ At(c, S) \in Seq(X) /\ Len(At(c, S)) = k
    BY <1>14, <2>1, AtRising
  <2> QED
    BY <1>10, <2>2
<1>23. PICK q \in Seq(X) : q = Distinct(u) /\ Len(q) = k + 1 /\ q = [j \in 1 .. k + 1 |-> u[d[j]]]
  <2>1. T \in SUBSET DOMAIN u /\ u \in Seq(X) /\ k + 1 \in Nat
    BY <1>3, <1>10
  <2>2. At(u, T) = [j \in 1 .. k + 1 |-> u[d[j]]] /\ At(u, T) \in Seq(X) /\ Len(At(u, T)) = k + 1
    BY <1>21, <2>1, AtRising
  <2> QED
    BY <1>10, <2>2
<1>24. \A j \in 1 .. k : p[j] = c[b[j]]
  BY <1>22
<1>25. \A j \in 1 .. k + 1 : q[j] = u[d[j]]
  BY <1>23
<1>26. q[k + 1] = x /\ \A j \in 1 .. k : q[j] = p[j]
  <2>1. q[k + 1] = x
    BY <1>5, <1>18, <1>19, <1>25
  <2>2. ASSUME NEW j \in 1 .. k PROVE q[j] = p[j]
    <3>1. q[j] = u[d[j]] /\ d[j] = b[j] /\ p[j] = c[b[j]] /\ b[j] \in 1 .. m
      BY <1>15, <1>17, <1>19, <1>24, <1>25
    <3> QED
      BY <1>3, <3>1
  <2> QED
    BY <2>1, <2>2
<1>27. <<x>> \in Seq(X) /\ Len(<<x>>) = 1 /\ <<x>>[1] = x
  OBVIOUS
<1>28. PICK o \in Seq(X) : o = <<x>>
  BY <1>27
<1>29. PICK r : r = p \o o
  OBVIOUS
<1>30. /\ r \in Seq(X) /\ Len(r) = Len(p) + Len(o) /\ \A j \in 1 .. Len(p) : r[j] = p[j]
       /\ \A j \in 1 .. Len(o) : r[Len(p) + j] = o[j]
  BY <1>29, ConcatPlaces
<1>31. Len(r) = k + 1 /\ r[k + 1] = x /\ \A j \in 1 .. k : r[j] = p[j]
  BY <1>22, <1>27, <1>28, <1>30
<1>32. \A j \in 1 .. k + 1 : q[j] = r[j]
  BY <1>16, <1>26, <1>31
<1>33. q = r
  BY <1>23, <1>30, <1>31, <1>32
<1> QED
  BY <1>1, <1>22, <1>23, <1>28, <1>29, <1>33

LEMMA DistinctNone == Distinct(<<>>) = <<>>
<1>0. <<>> \in Seq(Nat)
  OBVIOUS
<1>1. PICK e \in Seq(Nat) : e = <<>>
  BY <1>0
<1>2. DOMAIN e = {}
  BY <1>1
<1>3. Enumerates(Distinct(e), ToSet(e))
  BY DistinctIs
<1>4. ToSet(e) = {}
  BY <1>2 DEF ToSet
<1>5. PICK d : d = Distinct(e)
  OBVIOUS
<1>6. d \in Seq({})
  BY <1>3, <1>4, <1>5 DEF Enumerates
<1>7. ~(Len(d) >= 1)
  BY <1>6
<1>8. Len(d) = 0 /\ d = <<>>
  BY <1>6, <1>7
<1> QED
  BY <1>1, <1>5, <1>8

(* The blocks of a list of things with names that differ: what is made of  *)
(* the name of each block that is not empty, joined in order, is what is   *)
(* made of each thing if nothing is made of those with an empty block.     *)
Blocks(blk, nm, P) == \A x \in P : \A i \in DOMAIN blk[x] : blk[x][i] = nm[x]
ByName(q, blk, nm, E, P) == \A x \in P : q[x] = IF blk[x] = <<>> THEN <<>> ELSE E[nm[x]]
Apart(nm, s) == \A i, j \in DOMAIN s : nm[s[i]] = nm[s[j]] => i = j

LEMMA JoinedDistinct ==
  ASSUME NEW P, NEW X, NEW Y, NEW s \in Seq(P), NEW nm, Maps(nm, P, X), NEW blk, Maps(blk, P, Seq(X)),
         Blocks(blk, nm, P), NEW E, Maps(E, X, Seq(Y)), NEW q, Maps(q, P, Seq(Y)),
         ByName(q, blk, nm, E, P), Apart(nm, s)
  PROVE  FlattenSeq(Mapped(Distinct(FlattenSeq(Mapped(s, blk))), E)) = FlattenSeq(Mapped(s, q))
<1> DEFINE F(t) == FlattenSeq(Mapped(t, blk))
           Good(t) == Apart(nm, t) =>
             /\ F(t) \in Seq(X) /\ Distinct(F(t)) \in Seq(X)
             /\ FlattenSeq(Mapped(Distinct(F(t)), E)) = FlattenSeq(Mapped(t, q))
             /\ \A i \in DOMAIN F(t) : \E k \in DOMAIN t : F(t)[i] = nm[t[k]]
           G == {t \in Seq(P) : Good(t)}
<1>1. Good(<<>>)
  <2>1. FlattenSeq(Mapped(<<>>, blk)) = <<>>
    BY JoinedNone
  <2>2. FlattenSeq(Mapped(<<>>, q)) = <<>>
    BY JoinedNone
  <2>3. Distinct(<<>>) = <<>>
    BY DistinctNone
  <2>4. FlattenSeq(Mapped(<<>>, E)) = <<>>
    BY JoinedNone
  <2>5. <<>> \in Seq(X) /\ DOMAIN <<>> = {}
    OBVIOUS
  <2> QED
    BY <2>1, <2>2, <2>3, <2>4, <2>5
<1>2. ASSUME NEW t \in Seq(P), NEW x \in P, Good(t) PROVE Good(t \o <<x>>)
  <2>1. PICK u : u = t \o <<x>>
    OBVIOUS
  <2>2. PICK m \in Nat : m = Len(t) /\ DOMAIN t = 1 .. m
    OBVIOUS
  <2>3. DOMAIN u = 1 .. m + 1 /\ u[m + 1] = x /\ \A k \in 1 .. m : u[k] = t[k]
    BY <2>1, <2>2
  <2>4. SUFFICES ASSUME Apart(nm, u)
                 PROVE  /\ F(u) \in Seq(X) /\ Distinct(F(u)) \in Seq(X)
                        /\ FlattenSeq(Mapped(Distinct(F(u)), E)) = FlattenSeq(Mapped(u, q))
                        /\ \A i \in DOMAIN F(u) : \E k \in DOMAIN u : F(u)[i] = nm[u[k]]
    BY <2>1
  <2>5. m + 1 \in DOMAIN u /\ \A k \in DOMAIN t : k \in DOMAIN u /\ u[k] = t[k] /\ k # m + 1
    BY <2>2, <2>3
  <2>6. Apart(nm, t)
    BY <2>4, <2>5 DEF Apart
  <2>7. PICK c \in Seq(X) : c = F(t)
    BY <1>2, <2>6
  <2>8. /\ Distinct(c) \in Seq(X) /\ FlattenSeq(Mapped(Distinct(c), E)) = FlattenSeq(Mapped(t, q))
        /\ \A i \in DOMAIN c : \E k \in DOMAIN t : c[i] = nm[t[k]]
    BY <1>2, <2>6, <2>7
  <2>9. F(u) = c \o blk[x] /\ blk[x] \in Seq(X)
    <3>1. /\ FlattenSeq(Mapped(t \o <<x>>, blk)) = FlattenSeq(Mapped(t, blk)) \o blk[x]
          /\ FlattenSeq(Mapped(t, blk)) \in Seq(X) /\ blk[x] \in Seq(X) /\ t \o <<x>> \in Seq(P)
      BY JoinedLast
    <3> QED
      BY <2>1, <2>7, <3>1
  <2>10. /\ FlattenSeq(Mapped(u, q)) = FlattenSeq(Mapped(t, q)) \o q[x]
         /\ FlattenSeq(Mapped(t, q)) \in Seq(Y) /\ q[x] \in Seq(Y)
    <3>1. /\ FlattenSeq(Mapped(t \o <<x>>, q)) = FlattenSeq(Mapped(t, q)) \o q[x]
          /\ FlattenSeq(Mapped(t, q)) \in Seq(Y) /\ q[x] \in Seq(Y) /\ t \o <<x>> \in Seq(P)
      BY JoinedLast
    <3> QED
      BY <2>1, <3>1
  <2>11. PICK v : v = F(u)
    OBVIOUS
  <2> HIDE DEF F
  <2>12. CASE blk[x] = <<>>
    <3>1. c \o <<>> = c
      OBVIOUS
    <3>2. v = c
      BY <2>9, <2>11, <2>12, <3>1
    <3>3. q[x] = <<>>
      BY <2>12 DEF ByName
    <3>4. \A r \in Seq(Y) : r \o <<>> = r
      OBVIOUS
    <3>5. FlattenSeq(Mapped(u, q)) = FlattenSeq(Mapped(t, q))
      BY <2>10, <3>3, <3>4
    <3>6. \A i \in DOMAIN v : \E k \in DOMAIN u : v[i] = nm[u[k]]
      BY <2>5, <2>8, <3>2
    <3> QED
      BY <2>8, <2>11, <3>2, <3>5, <3>6
  <2>13. CASE blk[x] # <<>>
    <3>1. PICK a \in Seq(X) : a = blk[x] /\ a # <<>>
      BY <2>9, <2>13
    <3>2. PICK y \in X : y = nm[x]
      BY DEF Maps
    <3>3. AllAre(a, y)
      BY <3>1, <3>2 DEF AllAre, Blocks
    <3>4. NoneIs(c, y)
      <4> SUFFICES ASSUME NEW i \in DOMAIN c PROVE c[i] # y
        BY DEF NoneIs
      <4>1. PICK k \in DOMAIN t : c[i] = nm[t[k]]
        BY <2>8
      <4>2. k \in DOMAIN u /\ m + 1 \in DOMAIN u /\ u[k] = t[k] /\ u[m + 1] = x /\ k # m + 1
        BY <2>3, <2>5
      <4> QED
        BY <2>4, <3>2, <4>1, <4>2 DEF Apart
    <3>5. Distinct(c \o a) = Distinct(c) \o <<y>> /\ Distinct(c) \in Seq(X)
      BY <3>3, <3>4, DistinctLast
    <3>6. PICK d \in Seq(X) : d = Distinct(c)
      BY <3>5
    <3>7. /\ FlattenSeq(Mapped(d \o <<y>>, E)) = FlattenSeq(Mapped(d, E)) \o E[y]
          /\ FlattenSeq(Mapped(d, E)) \in Seq(Y) /\ E[y] \in Seq(Y) /\ d \o <<y>> \in Seq(X)
      BY JoinedLast
    <3>8. v = c \o a
      BY <2>9, <2>11, <3>1
    <3>9. q[x] = E[y]
      BY <2>13, <3>2 DEF ByName
    <3>10. FlattenSeq(Mapped(Distinct(v), E)) = FlattenSeq(Mapped(u, q)) /\ Distinct(v) \in Seq(X)
      BY <2>8, <2>10, <3>5, <3>6, <3>7, <3>8, <3>9
    <3>11. /\ v \in Seq(X) /\ Len(v) = Len(c) + Len(a) /\ \A j \in 1 .. Len(c) : v[j] = c[j]
           /\ \A j \in 1 .. Len(a) : v[Len(c) + j] = a[j]
      BY <3>8, ConcatPlaces
    <3>12. ASSUME NEW i \in DOMAIN v PROVE \E k \in DOMAIN u : v[i] = nm[u[k]]
      <4>1. PICK lc \in Nat, la \in Nat : lc = Len(c) /\ la = Len(a) /\ DOMAIN c = 1 .. lc /\ DOMAIN a = 1 .. la
        OBVIOUS
      <4>2. i \in 1 .. lc + la
        BY <3>11, <4>1
      <4>3. CASE i \in 1 .. lc
        <5>1. v[i] = c[i] /\ i \in DOMAIN c
          BY <3>11, <4>1, <4>3
        <5>2. PICK k \in DOMAIN t : c[i] = nm[t[k]]
          BY <2>8, <5>1
        <5>3. k \in DOMAIN u /\ u[k] = t[k]
          BY <2>5
        <5> QED
          BY <5>1, <5>2, <5>3
      <4>4. CASE i \notin 1 .. lc
        <5>1. i - lc \in 1 .. la /\ i = lc + (i - lc)
          BY <4>2, <4>4
        <5>2. v[i] = y
          BY <3>3, <3>11, <4>1, <5>1 DEF AllAre
        <5> QED
          BY <2>3, <2>5, <3>2, <5>2
      <4> QED
        BY <4>3, <4>4
    <3> QED
      BY <2>11, <3>10, <3>11, <3>12
  <2> QED
    BY <2>12, <2>13
<1> HIDE DEF Good
<1>3. ListInductive(G, P)
  BY <1>1, <1>2 DEF ListInductive
<1> HIDE DEF G
<1>4. G = Seq(P)
  BY <1>3, ListInduction
<1>5. Good(s)
  BY <1>4 DEF G
<1> QED
  BY <1>5 DEF Good

(***************************************************************************)
(* Sorting what is joined and what is mapped                               *)
(***************************************************************************)
(* u is s in another order, given by p, in which equal ranks keep theirs.  *)
Steady(p, u, s, R) ==
  /\ Len(u) = Len(s) /\ p \in [DOMAIN s -> DOMAIN s]
  /\ \A i \in DOMAIN s : \E k \in DOMAIN s : p[k] = i
  /\ \A k \in DOMAIN s : u[k] = s[p[k]]
  /\ \A j, k \in DOMAIN s : j < k /\ R[s[p[j]]] = R[s[p[k]]] => p[j] < p[k]

LEMMA RanksAre ==
  ASSUME NEW X, NEW s \in Seq(X), NEW R, Maps(R, X, Int)
  PROVE  \E n \in Nat : /\ n = Len(s) /\ DOMAIN s = 1 .. n /\ Mapped(s, R) \in [1 .. n -> Int]
                        /\ \A i \in 1 .. n : Mapped(s, R)[i] = R[s[i]]
<1>1. /\ Mapped(s, R) \in Seq(Int) /\ Len(Mapped(s, R)) = Len(s) /\ DOMAIN Mapped(s, R) = DOMAIN s
      /\ \A i \in DOMAIN s : s[i] \in X /\ Mapped(s, R)[i] = R[s[i]]
  BY MappedIs
<1>2. PICK n \in Nat : n = Len(s) /\ DOMAIN s = 1 .. n
  OBVIOUS
<1>3. PICK r \in Seq(Int) : r = Mapped(s, R) /\ Len(r) = n
  BY <1>1, <1>2
<1>4. r \in [1 .. n -> Int]
  BY <1>3
<1>5. \A i \in 1 .. n : Mapped(s, R)[i] = R[s[i]]
  BY <1>1, <1>2
<1>6. n = Len(s) /\ DOMAIN s = 1 .. n /\ Mapped(s, R) \in [1 .. n -> Int]
  BY <1>2, <1>3, <1>4
<1> QED
  BY <1>5, <1>6

LEMMA SortSteady ==
  ASSUME NEW X, NEW s \in Seq(X), NEW u \in Seq(X), NEW R, Maps(R, X, Int), NEW p, Steady(p, u, s, R)
  PROVE  Sorted(u, R) = Sorted(s, R)
<1>1. PICK n \in Nat : /\ n = Len(s) /\ DOMAIN s = 1 .. n /\ Mapped(s, R) \in [1 .. n -> Int]
                       /\ \A i \in 1 .. n : Mapped(s, R)[i] = R[s[i]]
  BY RanksAre
<1>2. PICK rs \in [1 .. n -> Int] : rs = Mapped(s, R) /\ \A i \in 1 .. n : rs[i] = R[s[i]]
  BY <1>1
<1>3. Len(u) = n
  BY <1>1 DEF Steady
<1>4. PICK ru : ru = Mapped(u, R) /\ ru \in [1 .. n -> Int] /\ \A i \in 1 .. n : ru[i] = R[u[i]]
  <2>1. PICK k \in Nat : /\ k = Len(u) /\ DOMAIN u = 1 .. k /\ Mapped(u, R) \in [1 .. k -> Int]
                         /\ \A i \in 1 .. k : Mapped(u, R)[i] = R[u[i]]
    BY RanksAre
  <2> QED
    BY <1>3, <2>1
<1>5. DOMAIN u = 1 .. n
  BY <1>3
<1>6. PICK a : Lists(a, 1 .. n, rs) /\ Sorted(s, R) = [k \in 1 .. n |-> s[a[k]]]
  <2>1. rs \in [DOMAIN s -> Int]
    BY <1>1
  <2>2. \E b : Lists(b, DOMAIN s, rs) /\ Ordered(s, rs) = [k \in DOMAIN s |-> s[b[k]]]
    BY <2>1, OrderedLists
  <2> QED
    BY <1>1, <1>2, <2>2 DEF Sorted
<1>7. PICK b : Lists(b, 1 .. n, ru) /\ Sorted(u, R) = [k \in 1 .. n |-> u[b[k]]]
  <2>1. ru \in [DOMAIN u -> Int]
    BY <1>4, <1>5
  <2>2. \E c : Lists(c, DOMAIN u, ru) /\ Ordered(u, ru) = [k \in DOMAIN u |-> u[c[k]]]
    BY <2>1, OrderedLists
  <2> QED
    BY <1>4, <1>5, <2>2 DEF Sorted
<1>8. /\ p \in [1 .. n -> 1 .. n] /\ \A i \in 1 .. n : \E k \in 1 .. n : p[k] = i
      /\ \A k \in 1 .. n : u[k] = s[p[k]]
      /\ \A j, k \in 1 .. n : j < k /\ R[s[p[j]]] = R[s[p[k]]] => p[j] < p[k]
  BY <1>1 DEF Steady
<1>9. /\ b \in [1 .. n -> 1 .. n] /\ \A i \in 1 .. n : \E k \in 1 .. n : b[k] = i
      /\ \A j, k \in 1 .. n : j < k => Precedes(ru, b[j], b[k])
  BY <1>7 DEF Lists
<1> DEFINE c == [k \in 1 .. n |-> p[b[k]]]
<1>10. c \in [1 .. n -> 1 .. n] /\ \A k \in 1 .. n : c[k] = p[b[k]]
  BY <1>8, <1>9
<1> HIDE DEF c
<1>11. ASSUME NEW k \in 1 .. n PROVE ru[k] = rs[p[k]] /\ ru[k] \in Int /\ rs[p[k]] = R[s[p[k]]]
  <2>1. p[k] \in 1 .. n /\ u[k] = s[p[k]]
    BY <1>8
  <2>2. rs[p[k]] = R[s[p[k]]]
    BY <1>2, <2>1
  <2>3. ru[k] = R[u[k]] /\ ru[k] \in Int
    BY <1>4
  <2> QED
    BY <2>1, <2>2, <2>3
<1>12. ASSUME NEW j \in 1 .. n, NEW k \in 1 .. n, j < k PROVE Precedes(rs, c[j], c[k])
  <2>1. ru[b[j]] < ru[b[k]] \/ (ru[b[j]] = ru[b[k]] /\ b[j] < b[k])
    BY <1>9, <1>12 DEF Precedes
  <2>2. b[j] \in 1 .. n /\ b[k] \in 1 .. n
    BY <1>9
  <2>3. CASE ru[b[j]] < ru[b[k]]
    BY <1>10, <1>11, <2>2, <2>3, ZenonT(30) DEF Precedes
  <2>4. CASE ru[b[j]] = ru[b[k]] /\ b[j] < b[k]
    <3>1. p[b[j]] < p[b[k]]
      <4>1. ru[b[j]] = R[s[p[b[j]]]] /\ ru[b[k]] = R[s[p[b[k]]]]
        BY <1>11, <2>2
      <4>2. R[s[p[b[j]]]] = R[s[p[b[k]]]]
        BY <2>4, <4>1
      <4> QED
        BY <1>8, <2>2, <2>4, <4>2
    <3> QED
      BY <1>10, <1>11, <2>2, <2>4, <3>1 DEF Precedes
  <2> QED
    BY <2>1, <2>3, <2>4
<1>13. ASSUME NEW i \in 1 .. n PROVE \E k \in 1 .. n : c[k] = i
  <2>1. PICK m \in 1 .. n : p[m] = i
    BY <1>8
  <2>2. PICK k \in 1 .. n : b[k] = m
    BY <1>9
  <2> QED
    BY <1>10, <2>1, <2>2
<1>14. Lists(c, 1 .. n, rs)
  BY <1>10, <1>12, <1>13 DEF Lists
<1>15. a = c
  BY <1>6, <1>14, ListsUnique
<1>16. \A k \in 1 .. n : s[a[k]] = u[b[k]]
  BY <1>8, <1>9, <1>10, <1>15, ZenonT(30)
<1> QED
  BY <1>6, <1>7, <1>16

LEMMA SortedIsSteady ==
  ASSUME NEW X, NEW s \in Seq(X), NEW R, Maps(R, X, Int)
  PROVE  Sorted(s, R) \in Seq(X) /\ \E p : Steady(p, Sorted(s, R), s, R)
<1>1. PICK n \in Nat : /\ n = Len(s) /\ DOMAIN s = 1 .. n /\ Mapped(s, R) \in [1 .. n -> Int]
                       /\ \A i \in 1 .. n : Mapped(s, R)[i] = R[s[i]]
  BY RanksAre
<1>2. PICK rs \in [1 .. n -> Int] : rs = Mapped(s, R) /\ \A i \in 1 .. n : rs[i] = R[s[i]]
  BY <1>1
<1>3. PICK a : Lists(a, 1 .. n, rs) /\ Sorted(s, R) = [k \in 1 .. n |-> s[a[k]]]
  <2>1. rs \in [DOMAIN s -> Int]
    BY <1>1
  <2>2. \E b : Lists(b, DOMAIN s, rs) /\ Ordered(s, rs) = [k \in DOMAIN s |-> s[b[k]]]
    BY <2>1, OrderedLists
  <2> QED
    BY <1>1, <1>2, <2>2 DEF Sorted
<1>4. /\ a \in [1 .. n -> 1 .. n] /\ \A i \in 1 .. n : \E k \in 1 .. n : a[k] = i
      /\ \A j, k \in 1 .. n : j < k => Precedes(rs, a[j], a[k])
  BY <1>3 DEF Lists
<1>5. PICK u : u = Sorted(s, R)
  OBVIOUS
<1>6. u = [k \in 1 .. n |-> s[a[k]]] /\ \A k \in 1 .. n : u[k] = s[a[k]]
  BY <1>3, <1>5
<1>7. u \in Seq(X) /\ Len(u) = n
  <2>0. \A k \in 1 .. n : s[k] \in X
    BY <1>1
  <2>1. \A k \in 1 .. n : s[a[k]] \in X
    BY <1>4, <2>0
  <2>2. u \in [1 .. n -> X]
    BY <1>6, <2>1
  <2> QED
    BY <2>2
<1>8. ASSUME NEW j \in 1 .. n, NEW k \in 1 .. n, j < k, R[s[a[j]]] = R[s[a[k]]] PROVE a[j] < a[k]
  <2>1. a[j] \in 1 .. n /\ a[k] \in 1 .. n /\ Precedes(rs, a[j], a[k])
    BY <1>4, <1>8
  <2>2. rs[a[j]] = rs[a[k]] /\ rs[a[j]] \in Int
    BY <1>2, <1>8, <2>1
  <2> QED
    BY <2>1, <2>2 DEF Precedes
<1>9. Steady(a, u, s, R)
  BY <1>1, <1>4, <1>6, <1>7, <1>8 DEF Steady
<1> QED
  BY <1>5, <1>7, <1>9

LEMMA SteadyJoin ==
  ASSUME NEW X, NEW s \in Seq(X), NEW u \in Seq(X), NEW t \in Seq(X), NEW v \in Seq(X), NEW R,
         NEW p, Steady(p, u, s, R), NEW q, Steady(q, v, t, R)
  PROVE  \E r : Steady(r, u \o v, s \o t, R)
<1>1. PICK m \in Nat, n \in Nat : m = Len(s) /\ n = Len(t)
  OBVIOUS
<1>2. DOMAIN s = 1 .. m /\ DOMAIN t = 1 .. n /\ Len(u) = m /\ Len(v) = n
  BY <1>1 DEF Steady
<1>3. PICK a : a = s \o t
  OBVIOUS
<1>4. PICK b : b = u \o v
  OBVIOUS
<1>5. /\ a \in Seq(X) /\ Len(a) = m + n /\ \A j \in 1 .. m : a[j] = s[j]
      /\ \A j \in 1 .. n : a[m + j] = t[j]
  <2>1. /\ a \in Seq(X) /\ Len(a) = Len(s) + Len(t) /\ \A j \in 1 .. Len(s) : a[j] = s[j]
        /\ \A j \in 1 .. Len(t) : a[Len(s) + j] = t[j]
    BY <1>3, ConcatPlaces
  <2> QED
    BY <1>1, <2>1
<1>6. /\ b \in Seq(X) /\ Len(b) = m + n /\ \A j \in 1 .. m : b[j] = u[j]
      /\ \A j \in 1 .. n : b[m + j] = v[j]
  <2>1. /\ b \in Seq(X) /\ Len(b) = Len(u) + Len(v) /\ \A j \in 1 .. Len(u) : b[j] = u[j]
        /\ \A j \in 1 .. Len(v) : b[Len(u) + j] = v[j]
    BY <1>4, ConcatPlaces
  <2> QED
    BY <1>2, <2>1
<1>7. DOMAIN a = 1 .. m + n
  BY <1>5
<1>8. /\ p \in [1 .. m -> 1 .. m] /\ \A i \in 1 .. m : \E k \in 1 .. m : p[k] = i
      /\ \A k \in 1 .. m : u[k] = s[p[k]]
      /\ \A j, k \in 1 .. m : j < k /\ R[s[p[j]]] = R[s[p[k]]] => p[j] < p[k]
  BY <1>2 DEF Steady
<1>9. /\ q \in [1 .. n -> 1 .. n] /\ \A i \in 1 .. n : \E k \in 1 .. n : q[k] = i
      /\ \A k \in 1 .. n : v[k] = t[q[k]]
      /\ \A j, k \in 1 .. n : j < k /\ R[t[q[j]]] = R[t[q[k]]] => q[j] < q[k]
  BY <1>2 DEF Steady
<1> DEFINE r == [k \in 1 .. m + n |-> IF k <= m THEN p[k] ELSE m + q[k - m]]
<1>10. ASSUME NEW k \in 1 .. m
       PROVE  k \in 1 .. m + n /\ r[k] = p[k] /\ r[k] \in 1 .. m /\ r[k] \in 1 .. m + n
  <2>1. k \in 1 .. m + n /\ k <= m
    OBVIOUS
  <2>2. r[k] = p[k]
    BY <2>1
  <2>3. p[k] \in 1 .. m
    BY <1>8
  <2> QED
    BY <2>1, <2>2, <2>3
<1>11. ASSUME NEW k \in 1 .. n
       PROVE  /\ m + k \in 1 .. m + n /\ r[m + k] = m + q[k] /\ q[k] \in 1 .. n
              /\ r[m + k] \in 1 .. m + n
  <2>1. m + k \in 1 .. m + n /\ ~(m + k <= m) /\ (m + k) - m = k
    OBVIOUS
  <2>2. r[m + k] = m + q[k]
    BY <2>1
  <2>3. q[k] \in 1 .. n
    BY <1>9
  <2> QED
    BY <2>1, <2>2, <2>3
<1>12. ASSUME NEW k \in 1 .. m + n PROVE k \in 1 .. m \/ \E l \in 1 .. n : k = m + l
  <2>1. k \in 1 .. m \/ (k - m \in 1 .. n /\ k = m + (k - m))
    OBVIOUS
  <2> QED
    BY <2>1
<1>13. r = [k \in 1 .. m + n |-> r[k]]
  OBVIOUS
<1> HIDE DEF r
<1>14. \A k \in 1 .. m + n : r[k] \in 1 .. m + n
  BY <1>10, <1>11, <1>12
<1>15. r \in [1 .. m + n -> 1 .. m + n]
  BY <1>13, <1>14
<1>16. ASSUME NEW i \in 1 .. m + n PROVE \E k \in 1 .. m + n : r[k] = i
  <2>1. CASE i \in 1 .. m
    <3>1. PICK k \in 1 .. m : p[k] = i
      BY <1>8, <2>1
    <3> QED
      BY <1>10, <3>1
  <2>2. CASE \E l \in 1 .. n : i = m + l
    <3>1. PICK l \in 1 .. n : i = m + l
      BY <2>2
    <3>2. PICK k \in 1 .. n : q[k] = l
      BY <1>9
    <3> QED
      BY <1>11, <3>1, <3>2
  <2> QED
    BY <1>12, <2>1, <2>2
<1>17. ASSUME NEW k \in 1 .. m + n PROVE b[k] = a[r[k]]
  <2>1. CASE k \in 1 .. m
    <3>1. b[k] = u[k] /\ u[k] = s[p[k]]
      BY <1>6, <1>8, <2>1
    <3>2. r[k] = p[k] /\ p[k] \in 1 .. m
      BY <1>10, <2>1
    <3>3. a[p[k]] = s[p[k]]
      BY <1>5, <3>2
    <3> QED
      BY <3>1, <3>2, <3>3
  <2>2. CASE \E l \in 1 .. n : k = m + l
    <3>1. PICK l \in 1 .. n : k = m + l
      BY <2>2
    <3>2. b[k] = v[l] /\ v[l] = t[q[l]]
      BY <1>6, <1>9, <3>1
    <3>3. r[k] = m + q[l] /\ q[l] \in 1 .. n
      BY <1>11, <3>1
    <3>4. a[m + q[l]] = t[q[l]]
      BY <1>5, <3>3
    <3> QED
      BY <3>2, <3>3, <3>4
  <2> QED
    BY <1>12, <2>1, <2>2
<1>18. \A k \in 1 .. m : a[r[k]] = s[p[k]]
  BY <1>5, <1>10
<1>19. ASSUME NEW k \in 1 .. n PROVE a[r[m + k]] = t[q[k]]
  <2>1. r[m + k] = m + q[k] /\ q[k] \in 1 .. n
    BY <1>11
  <2>2. a[m + q[k]] = t[q[k]]
    BY <1>5, <2>1
  <2> QED
    BY <2>1, <2>2
<1>20. ASSUME NEW j \in 1 .. m + n, NEW k \in 1 .. m + n, j < k, R[a[r[j]]] = R[a[r[k]]]
       PROVE  r[j] < r[k]
  <2>1. CASE j \in 1 .. m /\ k \in 1 .. m
    BY <1>8, <1>10, <1>18, <1>20, <2>1
  <2>2. CASE j \in 1 .. m /\ k \notin 1 .. m
    <3>1. PICK l \in 1 .. n : k = m + l
      BY <1>12, <2>2
    <3>2. r[j] \in 1 .. m /\ r[k] = m + q[l] /\ q[l] \in 1 .. n
      BY <1>10, <1>11, <2>2, <3>1
    <3> QED
      BY <3>2
  <2>3. CASE j \notin 1 .. m
    <3>1. PICK i \in 1 .. n : j = m + i
      BY <1>12, <2>3
    <3>2. k \notin 1 .. m
      BY <1>20, <2>3
    <3>3. PICK l \in 1 .. n : k = m + l
      BY <1>12, <3>2
    <3>4. i < l
      BY <1>20, <3>1, <3>3
    <3>5. q[i] < q[l]
      BY <1>9, <1>19, <1>20, <3>1, <3>3, <3>4
    <3>6. r[j] = m + q[i] /\ r[k] = m + q[l] /\ q[i] \in 1 .. n /\ q[l] \in 1 .. n
      BY <1>11, <3>1, <3>3
    <3> QED
      BY <3>5, <3>6
  <2> QED
    BY <2>1, <2>2, <2>3
<1>21. Len(b) = Len(a)
  BY <1>5, <1>6
<1>22. Steady(r, b, a, R)
  BY <1>7, <1>15, <1>16, <1>17, <1>20, <1>21 DEF Steady
<1> QED
  BY <1>3, <1>4, <1>22

(* Sorting joined lists is sorting what they are, sorted one by one.       *)
SortedEach(k, h, R, P) == \A x \in P : k[x] = Sorted(h[x], R)
LEMMA SortJoined ==
  ASSUME NEW P, NEW X, NEW s \in Seq(P), NEW h, Maps(h, P, Seq(X)), NEW k, Maps(k, P, Seq(X)),
         NEW R, Maps(R, X, Int), SortedEach(k, h, R, P)
  PROVE  Sorted(FlattenSeq(Mapped(s, k)), R) = Sorted(FlattenSeq(Mapped(s, h)), R)
<1> DEFINE Good(t) == /\ FlattenSeq(Mapped(t, h)) \in Seq(X) /\ FlattenSeq(Mapped(t, k)) \in Seq(X)
                      /\ \E p : Steady(p, FlattenSeq(Mapped(t, k)), FlattenSeq(Mapped(t, h)), R)
           G == {t \in Seq(P) : Good(t)}
<1>1. Good(<<>>)
  <2>1. FlattenSeq(Mapped(<<>>, h)) = <<>>
    BY JoinedNone
  <2>2. FlattenSeq(Mapped(<<>>, k)) = <<>>
    BY JoinedNone
  <2>3. <<>> \in Seq(X)
    OBVIOUS
  <2>4. PICK e \in Seq(X) : e = <<>>
    BY <2>3
  <2>5. DOMAIN e = {}
    BY <2>4
  <2>6. PICK f : f = [i \in {} |-> {}]
    OBVIOUS
  <2>7. f \in [DOMAIN e -> DOMAIN e]
    BY <2>5, <2>6
  <2>8. Steady(f, e, e, R)
    BY <2>5, <2>7 DEF Steady
  <2> QED
    BY <2>1, <2>2, <2>3, <2>4, <2>8
<1>2. ASSUME NEW t \in Seq(P), NEW x \in P, Good(t) PROVE Good(t \o <<x>>)
  <2>1. PICK a \in Seq(X) : a = FlattenSeq(Mapped(t, h))
    BY <1>2
  <2>2. PICK b \in Seq(X) : b = FlattenSeq(Mapped(t, k))
    BY <1>2
  <2>3. PICK p : Steady(p, b, a, R)
    BY <1>2, <2>1, <2>2
  <2>4. FlattenSeq(Mapped(t \o <<x>>, h)) = a \o h[x] /\ h[x] \in Seq(X)
    <3>1. /\ FlattenSeq(Mapped(t \o <<x>>, h)) = FlattenSeq(Mapped(t, h)) \o h[x]
          /\ FlattenSeq(Mapped(t, h)) \in Seq(X) /\ h[x] \in Seq(X) /\ t \o <<x>> \in Seq(P)
      BY JoinedLast
    <3> QED
      BY <2>1, <3>1
  <2>5. FlattenSeq(Mapped(t \o <<x>>, k)) = b \o k[x] /\ k[x] \in Seq(X)
    <3>1. /\ FlattenSeq(Mapped(t \o <<x>>, k)) = FlattenSeq(Mapped(t, k)) \o k[x]
          /\ FlattenSeq(Mapped(t, k)) \in Seq(X) /\ k[x] \in Seq(X) /\ t \o <<x>> \in Seq(P)
      BY JoinedLast
    <3> QED
      BY <2>2, <3>1
  <2>6. PICK c \in Seq(X) : c = h[x]
    BY <2>4
  <2>7. PICK d \in Seq(X) : d = k[x]
    BY <2>5
  <2>8. PICK q : Steady(q, d, c, R)
    <3>1. Sorted(c, R) \in Seq(X) /\ \E r : Steady(r, Sorted(c, R), c, R)
      BY SortedIsSteady
    <3>2. d = Sorted(c, R)
      BY <2>6, <2>7 DEF SortedEach
    <3> QED
      BY <3>1, <3>2
  <2>9. \E r : Steady(r, b \o d, a \o c, R)
    BY <2>3, <2>8, SteadyJoin
  <2>10. b \o d \in Seq(X) /\ a \o c \in Seq(X)
    OBVIOUS
  <2> QED
    BY <2>4, <2>5, <2>6, <2>7, <2>9, <2>10
<1> HIDE DEF Good
<1>3. ListInductive(G, P)
  BY <1>1, <1>2 DEF ListInductive
<1> HIDE DEF G
<1>4. G = Seq(P)
  BY <1>3, ListInduction
<1>5. Good(s)
  BY <1>4 DEF G
<1>6. PICK a \in Seq(X), b \in Seq(X) : a = FlattenSeq(Mapped(s, h)) /\ b = FlattenSeq(Mapped(s, k))
  BY <1>5 DEF Good
<1>7. PICK p : Steady(p, b, a, R)
  BY <1>5, <1>6 DEF Good
<1>8. Sorted(b, R) = Sorted(a, R)
  BY <1>7, SortSteady
<1> QED
  BY <1>6, <1>8

(* Whether one maps or sorts first.                                        *)
LEMMA SortMapped ==
  ASSUME NEW X, NEW Y, NEW s \in Seq(X), NEW F, Maps(F, X, Y), NEW R, Maps(R, X, Int),
         NEW Q, Maps(Q, Y, Int), Through(R, Q, F, X)
  PROVE  Sorted(Mapped(s, F), Q) = Mapped(Sorted(s, R), F) /\ Sorted(s, R) \in Seq(X)
<1>1. PICK n \in Nat : /\ n = Len(s) /\ DOMAIN s = 1 .. n /\ Mapped(s, R) \in [1 .. n -> Int]
                       /\ \A i \in 1 .. n : Mapped(s, R)[i] = R[s[i]]
  BY RanksAre
<1>2. PICK t : t = Mapped(s, F)
  OBVIOUS
<1>3. /\ t \in Seq(Y) /\ Len(t) = n /\ DOMAIN t = 1 .. n
      /\ \A i \in 1 .. n : s[i] \in X /\ t[i] = F[s[i]]
  <2>1. /\ Mapped(s, F) \in Seq(Y) /\ Len(Mapped(s, F)) = Len(s) /\ DOMAIN Mapped(s, F) = DOMAIN s
        /\ \A i \in DOMAIN s : s[i] \in X /\ Mapped(s, F)[i] = F[s[i]]
    BY MappedIs
  <2> QED
    BY <1>1, <1>2, <2>1
<1>4. PICK r \in [1 .. n -> Int] : r = Mapped(s, R) /\ \A i \in 1 .. n : r[i] = R[s[i]]
  BY <1>1
<1>5. Mapped(t, Q) = r
  <2>1. \A i \in 1 .. n : Q[t[i]] = r[i]
    BY <1>3, <1>4 DEF Through
  <2>2. r = [i \in 1 .. n |-> r[i]]
    OBVIOUS
  <2>3. Mapped(t, Q) = [i \in 1 .. n |-> Q[t[i]]]
    BY <1>3 DEF Mapped
  <2> QED
    BY <2>1, <2>2, <2>3
<1>6. PICK a : Lists(a, 1 .. n, r) /\ Sorted(s, R) = [k \in 1 .. n |-> s[a[k]]]
  <2>1. r \in [DOMAIN s -> Int]
    BY <1>1
  <2>2. \E b : Lists(b, DOMAIN s, r) /\ Ordered(s, r) = [k \in DOMAIN s |-> s[b[k]]]
    BY <2>1, OrderedLists
  <2> QED
    BY <1>1, <1>4, <2>2 DEF Sorted
<1>7. PICK b : Lists(b, 1 .. n, r) /\ Sorted(t, Q) = [k \in 1 .. n |-> t[b[k]]]
  <2>1. r \in [DOMAIN t -> Int] /\ t \in Seq(Y)
    BY <1>3
  <2>2. \E c : Lists(c, DOMAIN t, r) /\ Ordered(t, r) = [k \in DOMAIN t |-> t[c[k]]]
    BY <2>1, OrderedLists
  <2> QED
    BY <1>3, <1>5, <2>2 DEF Sorted
<1>8. a = b
  BY <1>6, <1>7, ListsUnique
<1>9. \A k \in 1 .. n : a[k] \in 1 .. n
  BY <1>6 DEF Lists
<1>10. PICK u : u = Sorted(s, R)
  OBVIOUS
<1>11. DOMAIN u = 1 .. n /\ \A k \in 1 .. n : u[k] = s[a[k]]
  BY <1>6, <1>10
<1>12. Mapped(u, F) = [k \in 1 .. n |-> F[u[k]]]
  BY <1>11 DEF Mapped
<1>13. \A k \in 1 .. n : t[b[k]] = F[u[k]]
  BY <1>3, <1>8, <1>9, <1>11
<1>14. u \in Seq(X)
  <2>1. Sorted(s, R) \in Seq(X) /\ \E p : Steady(p, Sorted(s, R), s, R)
    BY SortedIsSteady
  <2> QED
    BY <1>10, <2>1
<1> QED
  BY <1>2, <1>7, <1>10, <1>12, <1>13, <1>14

(***************************************************************************)
(* Records and their session ids                                           *)
(***************************************************************************)
Sid == STRING \cup {"", Live}
AnyMeta  == [line : Nat, ts : Int, type : STRING, model : STRING, tokens : [Bucket -> Nat], sid : Sid]
AnyEvent == [line : Nat, ts : Int, type : STRING, text : BOOLEAN, error : BOOLEAN,
              size : Nat, index : Nat, sid : Sid]
AnyUse   == {asUsageRecord(m, NoTime) : m \in AnyMeta}

UseOf     == [m \in AnyMeta |-> asUsageRecord(m, NoTime)]
MetaTag(n)  == [m \in AnyMeta |-> [m EXCEPT !.sid = n]]
EventTag(n) == [e \in AnyEvent |-> [e EXCEPT !.sid = n]]
UseTag(n)   == [u \in AnyUse |-> [u EXCEPT !.sid = n]]
LineOf    == [u \in AnyUse |-> u.line]
SidAt     == [u \in AnyUse |-> SidOf(u)]

Status == {m \in AnyMeta : m.type = "status_update"}
Of(n)  == {u \in AnyUse : SidOf(u) = n}
Kept   == {u \in AnyUse : u.ts # NoTime /\ u.ctx # 0}
Texts  == {e \in AnyEvent : e.type = "user_message" /\ e.text}
From(n) == {e \in AnyEvent : e.sid = n}

LEMMA RecordsAre == /\ \A m \in ParsedMeta : m \in AnyMeta /\ m.sid = ""
                    /\ \A e \in ParsedEvent : e \in AnyEvent /\ e.sid = ""
<1>1. "" \in Sid
  BY DEF Sid
<1>2. ASSUME NEW m \in ParsedMeta PROVE m \in AnyMeta /\ m.sid = ""
  BY <1>1, Zenon DEF ParsedMeta, AnyMeta
<1>3. ASSUME NEW e \in ParsedEvent PROVE e \in AnyEvent /\ e.sid = ""
  BY <1>1, Zenon DEF ParsedEvent, AnyEvent
<1> QED
  BY <1>2, <1>3, Zenon

LEMMA UseRowIs ==
  ASSUME NEW m \in AnyMeta
  PROVE  /\ UseOf[m] \in AnyUse /\ UseOf[m] = asUsageRecord(m, NoTime)
         /\ UseOf[m].line = m.line /\ UseOf[m].ts = m.ts /\ UseOf[m].sid = m.sid
         /\ UseOf[m].tokens = m.tokens /\ UseOf[m].ctx = usageCtxInput(m.tokens)
<1>1. UseOf[m] = asUsageRecord(m, NoTime) /\ asUsageRecord(m, NoTime) \in AnyUse
  BY DEF UseOf, AnyUse
<1> QED
  BY <1>1 DEF asUsageRecord

LEMMA UseRowFields ==
  ASSUME NEW u \in AnyUse
  PROVE  u.line \in Int /\ u.ts \in Int /\ u.sid \in Sid /\ SidOf(u) \in Sid
<1>1. PICK m \in AnyMeta : u = asUsageRecord(m, NoTime)
  BY DEF AnyUse
<1>2. u.line = m.line /\ u.ts = m.ts /\ u.sid = m.sid
  BY <1>1 DEF asUsageRecord
<1>3. m.line \in Int /\ m.ts \in Int /\ m.sid \in Sid
  BY DEF AnyMeta
<1>4. SidOf(u) = u.sid \/ SidOf(u) = Live
  BY Zenon DEF SidOf
<1>5. Live \in Sid
  BY DEF Sid
<1> QED
  BY <1>2, <1>3, <1>4, <1>5

LEMMA TaggedMeta ==
  ASSUME NEW m \in AnyMeta, NEW n \in Sid
  PROVE  /\ MetaTag(n)[m] \in AnyMeta /\ MetaTag(n)[m] = [m EXCEPT !.sid = n]
         /\ MetaTag(n)[m].sid = n /\ MetaTag(n)[m].type = m.type
         /\ asUsageRecord(MetaTag(n)[m], NoTime) = [asUsageRecord(m, NoTime) EXCEPT !.sid = n]
<1>1. PICK t : t = [m EXCEPT !.sid = n]
  OBVIOUS
<1>2. MetaTag(n)[m] = t
  BY <1>1 DEF MetaTag
<1>3. /\ t \in AnyMeta /\ t.sid = n /\ t.type = m.type /\ t.line = m.line /\ t.ts = m.ts
      /\ t.model = m.model /\ t.tokens = m.tokens
  BY <1>1 DEF AnyMeta
<1>4. asUsageRecord(t, NoTime) = [asUsageRecord(m, NoTime) EXCEPT !.sid = n]
  BY <1>3 DEF asUsageRecord
<1> QED
  BY <1>1, <1>2, <1>3, <1>4

LEMMA TaggedUse ==
  ASSUME NEW u \in AnyUse, NEW n \in Sid
  PROVE  /\ UseTag(n)[u] \in AnyUse /\ UseTag(n)[u] = [u EXCEPT !.sid = n] /\ UseTag(n)[u].sid = n
         /\ UseTag(n)[u].line = u.line /\ UseTag(n)[u].ts = u.ts /\ UseTag(n)[u].tokens = u.tokens
         /\ UseTag(n)[u].ctx = u.ctx /\ UseTag(n)[u].model = u.model
<1>1. PICK m \in AnyMeta : u = asUsageRecord(m, NoTime)
  BY DEF AnyUse
<1>2. PICK v : v = [u EXCEPT !.sid = n]
  OBVIOUS
<1>3. UseTag(n)[u] = v
  BY <1>2 DEF UseTag
<1>4. v = asUsageRecord(MetaTag(n)[m], NoTime) /\ MetaTag(n)[m] \in AnyMeta
  BY <1>1, <1>2, TaggedMeta
<1>5. v \in AnyUse
  BY <1>4 DEF AnyUse
<1>6. /\ v.sid = n /\ v.line = u.line /\ v.ts = u.ts /\ v.tokens = u.tokens
      /\ v.ctx = u.ctx /\ v.model = u.model
  BY <1>1, <1>2 DEF asUsageRecord
<1> QED
  BY <1>2, <1>3, <1>5, <1>6

LEMMA TaggedEvent ==
  ASSUME NEW e \in AnyEvent, NEW n \in Sid
  PROVE  /\ EventTag(n)[e] \in AnyEvent /\ EventTag(n)[e] = [e EXCEPT !.sid = n]
         /\ EventTag(n)[e].sid = n /\ EventTag(n)[e].type = e.type
         /\ EventTag(n)[e].text = e.text /\ EventTag(n)[e].line = e.line
<1>1. PICK t : t = [e EXCEPT !.sid = n]
  OBVIOUS
<1>2. EventTag(n)[e] = t
  BY <1>1 DEF EventTag
<1>3. t \in AnyEvent /\ t.sid = n /\ t.type = e.type /\ t.text = e.text /\ t.line = e.line
  BY <1>1 DEF AnyEvent
<1> QED
  BY <1>1, <1>2, <1>3

LEMMA RecordMaps ==
  /\ Maps(UseOf, AnyMeta, AnyUse) /\ Maps(LineOf, AnyUse, Int) /\ Maps(SidAt, AnyUse, Sid)
  /\ \A n \in Sid : /\ Maps(MetaTag(n), AnyMeta, AnyMeta) /\ Maps(EventTag(n), AnyEvent, AnyEvent)
                       /\ Maps(UseTag(n), AnyUse, AnyUse)
<1>1. Maps(UseOf, AnyMeta, AnyUse)
  BY UseRowIs DEF Maps, UseOf
<1>2. Maps(LineOf, AnyUse, Int)
  BY UseRowFields DEF Maps, LineOf
<1>3. Maps(SidAt, AnyUse, Sid)
  BY UseRowFields DEF Maps, SidAt
<1>4. ASSUME NEW n \in Sid
      PROVE  /\ Maps(MetaTag(n), AnyMeta, AnyMeta) /\ Maps(EventTag(n), AnyEvent, AnyEvent)
             /\ Maps(UseTag(n), AnyUse, AnyUse)
  <2>1. \A m \in AnyMeta : MetaTag(n)[m] \in AnyMeta
    BY TaggedMeta
  <2>2. \A e \in AnyEvent : EventTag(n)[e] \in AnyEvent
    BY TaggedEvent
  <2>3. \A u \in AnyUse : UseTag(n)[u] \in AnyUse
    BY TaggedUse
  <2>4. Maps(MetaTag(n), AnyMeta, AnyMeta)
    BY <2>1 DEF Maps, MetaTag
  <2>5. Maps(EventTag(n), AnyEvent, AnyEvent)
    BY <2>2 DEF Maps, EventTag
  <2>6. Maps(UseTag(n), AnyUse, AnyUse)
    BY <2>3 DEF Maps, UseTag
  <2> QED
    BY <2>4, <2>5, <2>6
<1> QED
  BY <1>1, <1>2, <1>3, <1>4

(***************************************************************************)
(* What is computed from the records of one session                        *)
(***************************************************************************)
LEMMA ComputedList == ASSUME NEW X, NEW s \in Seq(X) PROVE Computed(s) = s
BY SubSeqFull DEF Computed

LEMMA UsagesAre ==
  ASSUME NEW meta \in Seq(AnyMeta)
  PROVE  /\ Usages(meta, NoTime) = Mapped(Sieve(meta, Status), UseOf)
         /\ Usages(meta, NoTime) \in Seq(AnyUse) /\ Sieve(meta, Status) \in Seq(AnyMeta)
<1>1. \A i \in DOMAIN meta : meta[i] \in AnyMeta
  OBVIOUS
<1>2. {i \in DOMAIN meta : meta[i] \in Status} = {i \in DOMAIN meta : meta[i].type = "status_update"}
  BY <1>1 DEF Status
<1>3. PICK w : w = Sieve(meta, Status)
  OBVIOUS
<1>4. w = Where(meta, LAMBDA m : m.type = "status_update")
  BY <1>2, <1>3 DEF Sieve, Where
<1>5. w \in Seq(AnyMeta)
  BY <1>3, SieveIs
<1>6. \A i \in DOMAIN w : w[i] \in AnyMeta
  BY <1>5
<1>7. [i \in DOMAIN w |-> asUsageRecord(w[i], NoTime)] = Mapped(w, UseOf)
  BY <1>6, UseRowIs DEF Mapped
<1>8. Maps(UseOf, AnyMeta, AnyUse)
  BY RecordMaps
<1>9. /\ Mapped(w, UseOf) \in Seq(AnyUse) /\ Len(Mapped(w, UseOf)) = Len(w) /\ DOMAIN Mapped(w, UseOf) = DOMAIN w
      /\ \A i \in DOMAIN w : w[i] \in AnyMeta /\ Mapped(w, UseOf)[i] = UseOf[w[i]]
  BY <1>5, <1>8, MappedIs
<1>10. Computed(Mapped(w, UseOf)) = Mapped(w, UseOf)
  BY <1>9, ComputedList
<1>11. Apply(w, LAMBDA m : asUsageRecord(m, NoTime)) = Mapped(w, UseOf)
  BY <1>7, <1>10 DEF Apply
<1>12. Usages(meta, NoTime) = Apply(w, LAMBDA m : asUsageRecord(m, NoTime))
  BY <1>4 DEF Usages
<1> QED
  BY <1>3, <1>5, <1>9, <1>11, <1>12

LEMMA SidsAre ==
  ASSUME NEW us \in Seq(AnyUse)
  PROVE  /\ Apply(us, SidOf) = Mapped(us, SidAt) /\ Apply(us, SidOf) \in Seq(Sid)
         /\ DOMAIN Apply(us, SidOf) = DOMAIN us /\ \A i \in DOMAIN us : Apply(us, SidOf)[i] = SidOf(us[i])
<1>1. \A i \in DOMAIN us : us[i] \in AnyUse /\ SidAt[us[i]] = SidOf(us[i])
  BY DEF SidAt
<1>2. Maps(SidAt, AnyUse, Sid)
  BY RecordMaps
<1>3. /\ Mapped(us, SidAt) \in Seq(Sid) /\ Len(Mapped(us, SidAt)) = Len(us) /\ DOMAIN Mapped(us, SidAt) = DOMAIN us
      /\ \A i \in DOMAIN us : us[i] \in AnyUse /\ Mapped(us, SidAt)[i] = SidAt[us[i]]
  BY <1>2, MappedIs
<1>4. [i \in DOMAIN us |-> SidOf(us[i])] = Mapped(us, SidAt)
  BY <1>1 DEF Mapped
<1>5. Computed(Mapped(us, SidAt)) = Mapped(us, SidAt)
  BY <1>3, ComputedList
<1>6. Apply(us, SidOf) = Mapped(us, SidAt)
  BY <1>4, <1>5 DEF Apply
<1> QED
  BY <1>1, <1>3, <1>6

LEMMA UsesOf ==
  ASSUME NEW us \in Seq(AnyUse), NEW n
  PROVE  Where(us, LAMBDA u : SidOf(u) = n) = Sieve(us, Of(n))
<1>1. \A i \in DOMAIN us : us[i] \in AnyUse
  OBVIOUS
<1>2. {i \in DOMAIN us : us[i] \in Of(n)} = {i \in DOMAIN us : SidOf(us[i]) = n}
  BY <1>1 DEF Of
<1> QED
  BY <1>2 DEF Sieve, Where

LEMMA TextsAre ==
  ASSUME NEW ev \in Seq(AnyEvent)
  PROVE  UserTexts(ev) = Sieve(ev, Texts) /\ Sieve(ev, Texts) \in Seq(AnyEvent)
<1>1. \A i \in DOMAIN ev : ev[i] \in AnyEvent
  OBVIOUS
<1>2. {i \in DOMAIN ev : ev[i] \in Texts} = {i \in DOMAIN ev : ev[i].type = "user_message" /\ ev[i].text}
  BY <1>1 DEF Texts
<1>3. Sieve(ev, Texts) \in Seq(AnyEvent)
  BY SieveIs
<1> QED
  BY <1>2, <1>3 DEF Sieve, Where, UserTexts

(* A name on the events changes no boundary.                               *)
Bounds(ev) == Ascending(ToSet(Lines(UserTexts(ev))))
LEMMA BoundsTagged ==
  ASSUME NEW ev \in Seq(AnyEvent), NEW n \in Sid
  PROVE  Bounds(Mapped(ev, EventTag(n))) = Bounds(ev) /\ Mapped(ev, EventTag(n)) \in Seq(AnyEvent)
<1>1. Maps(EventTag(n), AnyEvent, AnyEvent)
  BY RecordMaps
<1>2. PICK t \in Seq(AnyEvent) : t = Mapped(ev, EventTag(n))
  <2>1. /\ Mapped(ev, EventTag(n)) \in Seq(AnyEvent) /\ Len(Mapped(ev, EventTag(n))) = Len(ev)
        /\ DOMAIN Mapped(ev, EventTag(n)) = DOMAIN ev
        /\ \A i \in DOMAIN ev : ev[i] \in AnyEvent /\ Mapped(ev, EventTag(n))[i] = EventTag(n)[ev[i]]
    BY <1>1, MappedIs
  <2> QED
    BY <2>1
<1>3. Pulls(EventTag(n), AnyEvent, Texts, Texts)
  BY TaggedEvent DEF Pulls, Texts
<1>4. Sieve(Mapped(ev, EventTag(n)), Texts) = Mapped(Sieve(ev, Texts), EventTag(n))
  BY <1>1, <1>3, SieveMapped
<1>5. PICK w \in Seq(AnyEvent) : w = Sieve(ev, Texts) /\ w = UserTexts(ev)
  BY TextsAre
<1>6. UserTexts(t) = Mapped(w, EventTag(n))
  BY <1>2, <1>4, <1>5, TextsAre
<1>7. PICK v : v = Mapped(w, EventTag(n))
  OBVIOUS
<1>8. DOMAIN v = DOMAIN w /\ \A i \in DOMAIN w : v[i].line = w[i].line
  <2>1. \A i \in DOMAIN w : w[i] \in AnyEvent
    OBVIOUS
  <2>2. DOMAIN v = DOMAIN w /\ \A i \in DOMAIN w : v[i] = EventTag(n)[w[i]]
    BY <1>7 DEF Mapped
  <2>3. \A e \in AnyEvent : EventTag(n)[e].line = e.line
    BY TaggedEvent
  <2> QED
    BY <2>1, <2>2, <2>3
<1>9. [i \in DOMAIN v |-> v[i].line] = [i \in DOMAIN w |-> w[i].line]
  BY <1>8
<1>10. Lines(v) = Lines(w)
  BY <1>9 DEF Lines, Apply
<1> QED
  BY <1>2, <1>5, <1>6, <1>7, <1>10 DEF Bounds

(* Nor does one on the records change which of them ends a turn.           *)
LEMMA TurnsType ==
  ASSUME NEW us \in Seq(AnyUse), NEW b
  PROVE  TurnUsages(us, b) \in Seq(AnyUse)
<1> DEFINE passed(u) == Cardinality({i \in DOMAIN b : b[i] <= u.line})
           S == {i \in DOMAIN us : i < Len(us) => passed(us[i]) < passed(us[i + 1])}
<1>1. S \in SUBSET DOMAIN us
  OBVIOUS
<1>2. TurnUsages(us, b) = IF b = <<>> THEN us ELSE At(us, S)
  BY DEF TurnUsages
<1> HIDE DEF S
<1>3. PICK k \in Nat : \E a : Rising(a, k, S)
  BY <1>1, SomeRising
<1>4. PICK a : Rising(a, k, S)
  BY <1>3
<1>5. At(us, S) = [j \in 1 .. k |-> us[a[j]]] /\ At(us, S) \in Seq(AnyUse) /\ Len(At(us, S)) = k
  BY <1>1, <1>4, AtRising
<1> QED
  BY <1>2, <1>5

LEMMA TurnsTagged ==
  ASSUME NEW us \in Seq(AnyUse), NEW b, NEW n \in Sid
  PROVE  TurnUsages(Mapped(us, UseTag(n)), b) = Mapped(TurnUsages(us, b), UseTag(n))
<1> DEFINE passed(l) == Cardinality({i \in DOMAIN b : b[i] <= l})
           Ends(t) == {i \in DOMAIN t : i < Len(t) => passed(t[i].line) < passed(t[i + 1].line)}
<1>1. ASSUME NEW t PROVE TurnUsages(t, b) = IF b = <<>> THEN t ELSE At(t, Ends(t))
  BY DEF TurnUsages
<1>2. Maps(UseTag(n), AnyUse, AnyUse)
  BY RecordMaps
<1>3. PICK t \in Seq(AnyUse) : /\ t = Mapped(us, UseTag(n)) /\ Len(t) = Len(us) /\ DOMAIN t = DOMAIN us
                               /\ \A i \in DOMAIN us : us[i] \in AnyUse /\ t[i] = UseTag(n)[us[i]]
  <2>1. /\ Mapped(us, UseTag(n)) \in Seq(AnyUse) /\ Len(Mapped(us, UseTag(n))) = Len(us)
        /\ DOMAIN Mapped(us, UseTag(n)) = DOMAIN us
        /\ \A i \in DOMAIN us : us[i] \in AnyUse /\ Mapped(us, UseTag(n))[i] = UseTag(n)[us[i]]
    BY <1>2, MappedIs
  <2> QED
    BY <2>1
<1> HIDE DEF passed
<1>4. \A i \in DOMAIN us : t[i].line = us[i].line
  <2>1. \A u \in AnyUse : UseTag(n)[u].line = u.line
    BY TaggedUse
  <2> QED
    BY <1>3, <2>1
<1>5. \A i \in DOMAIN us : i < Len(us) => i + 1 \in DOMAIN us
  OBVIOUS
<1>6. Ends(t) = Ends(us)
  BY <1>3, <1>4, <1>5
<1>7. Ends(us) \in SUBSET DOMAIN us
  OBVIOUS
<1> HIDE DEF Ends
<1>8. PICK S \in SUBSET DOMAIN us : S = Ends(us)
  BY <1>7
<1>9. At(Mapped(us, UseTag(n)), S) = Mapped(At(us, S), UseTag(n)) /\ At(us, S) \in Seq(AnyUse)
  BY <1>2, AtMapped
<1>10. At(t, Ends(t)) = Mapped(At(us, Ends(us)), UseTag(n))
  BY <1>3, <1>6, <1>8, <1>9
<1>11. TurnUsages(t, b) = IF b = <<>> THEN t ELSE At(t, Ends(t))
  BY <1>1
<1>12. TurnUsages(us, b) = IF b = <<>> THEN us ELSE At(us, Ends(us))
  BY <1>1
<1> QED
  BY <1>3, <1>10, <1>11, <1>12

KeptOf(us, b) == Sieve(TurnUsages(Sorted(us, LineOf), b), Kept)
LEMMA KeptTagged ==
  ASSUME NEW us \in Seq(AnyUse), NEW b, NEW n \in Sid
  PROVE  KeptOf(Mapped(us, UseTag(n)), b) = Mapped(KeptOf(us, b), UseTag(n)) /\ KeptOf(us, b) \in Seq(AnyUse)
<1>1. Maps(UseTag(n), AnyUse, AnyUse) /\ Maps(LineOf, AnyUse, Int)
  BY RecordMaps
<1>2. Through(LineOf, LineOf, UseTag(n), AnyUse)
  BY TaggedUse DEF Through, LineOf
<1>3. Sorted(Mapped(us, UseTag(n)), LineOf) = Mapped(Sorted(us, LineOf), UseTag(n)) /\ Sorted(us, LineOf) \in Seq(AnyUse)
  BY <1>1, <1>2, SortMapped
<1>4. PICK s \in Seq(AnyUse) : s = Sorted(us, LineOf)
  BY <1>3
<1>5. TurnUsages(Mapped(s, UseTag(n)), b) = Mapped(TurnUsages(s, b), UseTag(n))
  BY TurnsTagged
<1>6. PICK t \in Seq(AnyUse) : t = TurnUsages(s, b)
  BY TurnsType
<1>7. Pulls(UseTag(n), AnyUse, Kept, Kept)
  BY TaggedUse DEF Pulls, Kept
<1>8. Sieve(Mapped(t, UseTag(n)), Kept) = Mapped(Sieve(t, Kept), UseTag(n))
  BY <1>1, <1>7, SieveMapped
<1>9. Sieve(t, Kept) \in Seq(AnyUse)
  BY SieveIs
<1> QED
  BY <1>3, <1>4, <1>5, <1>6, <1>8, <1>9 DEF KeptOf

(* The event a record gives a session, and those of a session.             *)
RowOf(u, n, i) ==
  [ts |-> u.ts, session |-> n, turn |-> i - 1, model |-> u.model,
   tokens |-> [k \in Token |-> u.tokens[k]], cost |-> CostOf(u), ctx |-> u.ctx]
DashRows(us, b, n) == [i \in DOMAIN KeptOf(us, b) |-> RowOf(KeptOf(us, b)[i], n, i)]
AnyRow == {RowOf(u, n, i) : u \in AnyUse, n \in Sid, i \in Int}
TimeOf == [r \in AnyRow |-> r.ts]
Renamed(n) == [r \in AnyRow |-> [r EXCEPT !.session = n]]

CostBy(t, m) == SumEach(Bucket, LAMBDA k : t[k] * Rate[m][k])
TokensBy(t)  == [k \in Token |-> t[k]]

LEMMA RowIs ==
  ASSUME NEW u, NEW n, NEW i
  PROVE  RowOf(u, n, i) = [ts |-> u.ts, session |-> n, turn |-> i - 1, model |-> u.model,
                           tokens |-> TokensBy(u.tokens), cost |-> CostBy(u.tokens, u.model), ctx |-> u.ctx]
<1>1. CostOf(u) = CostBy(u.tokens, u.model)
  BY Zenon DEF CostOf, CostBy
<1>2. [k \in Token |-> u.tokens[k]] = TokensBy(u.tokens)
  BY DEF TokensBy
<1> QED
  BY <1>1, <1>2 DEF RowOf

LEMMA RowTagged ==
  ASSUME NEW u \in AnyUse, NEW n \in Sid, NEW m, NEW i
  PROVE  RowOf(UseTag(n)[u], m, i) = RowOf(u, m, i)
<1>1. PICK v : v = UseTag(n)[u]
  OBVIOUS
<1>2. v.ts = u.ts /\ v.model = u.model /\ v.tokens = u.tokens /\ v.ctx = u.ctx
  BY <1>1, TaggedUse
<1>3. /\ TokensBy(v.tokens) = TokensBy(u.tokens)
      /\ CostBy(v.tokens, v.model) = CostBy(u.tokens, u.model)
  BY <1>2
<1>4. RowOf(v, m, i) = RowOf(u, m, i)
  BY <1>2, <1>3, RowIs
<1> QED
  BY <1>1, <1>4

LEMMA RowRenamed ==
  ASSUME NEW u \in AnyUse, NEW m \in Sid, NEW n \in Sid, NEW i \in Int
  PROVE  /\ RowOf(u, m, i) \in AnyRow /\ RowOf(u, n, i) \in AnyRow
         /\ Renamed(n)[RowOf(u, m, i)] = RowOf(u, n, i)
         /\ [RowOf(u, m, i) EXCEPT !.session = n] = RowOf(u, n, i)
<1>1. RowOf(u, m, i) \in AnyRow /\ RowOf(u, n, i) \in AnyRow
  BY DEF AnyRow
<1>2. [RowOf(u, m, i) EXCEPT !.session = n] = RowOf(u, n, i)
  BY RowIs
<1> QED
  BY <1>1, <1>2 DEF Renamed

LEMMA RowMaps ==
  ASSUME NEW n \in Sid
  PROVE  /\ Maps(TimeOf, AnyRow, Int) /\ Maps(Renamed(n), AnyRow, AnyRow)
         /\ Through(TimeOf, TimeOf, Renamed(n), AnyRow)
         /\ \A r \in AnyRow : Renamed(n)[r] = [r EXCEPT !.session = n]
<1>1. ASSUME NEW r \in AnyRow
      PROVE  /\ r.ts \in Int /\ [r EXCEPT !.session = n] \in AnyRow
             /\ [r EXCEPT !.session = n].ts = r.ts
  <2>1. PICK u \in AnyUse, m \in Sid, i \in Int : r = RowOf(u, m, i)
    BY DEF AnyRow
  <2>2. [r EXCEPT !.session = n] = RowOf(u, n, i) /\ RowOf(u, n, i) \in AnyRow
    BY <2>1, RowRenamed
  <2>3. r.ts = u.ts /\ RowOf(u, n, i).ts = u.ts
    BY <2>1, RowIs
  <2>4. u.ts \in Int
    BY UseRowFields
  <2> QED
    BY <2>2, <2>3, <2>4
<1>2. Maps(TimeOf, AnyRow, Int)
  BY <1>1 DEF Maps, TimeOf
<1>3. Maps(Renamed(n), AnyRow, AnyRow)
  BY <1>1 DEF Maps, Renamed
<1>4. ASSUME NEW r \in AnyRow PROVE Renamed(n)[r] = [r EXCEPT !.session = n]
  BY DEF Renamed
<1>5. Through(TimeOf, TimeOf, Renamed(n), AnyRow)
  BY <1>1, <1>4 DEF Through, TimeOf
<1> QED
  BY <1>2, <1>3, <1>4, <1>5

LEMMA EventsType ==
  ASSUME NEW us \in Seq(AnyUse), NEW b, NEW n \in Sid
  PROVE  DashRows(us, b, n) \in Seq(AnyRow) /\ (us = <<>> => DashRows(us, b, n) = <<>>)
<1>1. PICK k \in Seq(AnyUse) : k = KeptOf(us, b)
  BY KeptTagged
<1>2. PICK l \in Nat : l = Len(k) /\ DOMAIN k = 1 .. l
  OBVIOUS
<1>3. \A i \in 1 .. l : k[i] \in AnyUse /\ i \in Int
  BY <1>2
<1>4. \A i \in 1 .. l : RowOf(k[i], n, i) \in AnyRow
  BY <1>3, RowRenamed
<1>5. PICK e : e = DashRows(us, b, n)
  OBVIOUS
<1>6. e = [i \in 1 .. l |-> RowOf(k[i], n, i)]
  BY <1>1, <1>2, <1>5 DEF DashRows
<1>7. e \in [1 .. l -> AnyRow]
  BY <1>4, <1>6
<1>8. e \in Seq(AnyRow) /\ Len(e) = l
  BY <1>7
<1>9. us = <<>> => l = 0
  <2> SUFFICES ASSUME us = <<>> PROVE l = 0
    OBVIOUS
  <2>1. Maps(LineOf, AnyUse, Int)
    BY RecordMaps
  <2>2. Sorted(us, LineOf) \in Seq(AnyUse) /\ \E p : Steady(p, Sorted(us, LineOf), us, LineOf)
    BY <2>1, SortedIsSteady
  <2>3. PICK s \in Seq(AnyUse) : s = Sorted(us, LineOf) /\ Len(s) = 0
    BY <2>2 DEF Steady
  <2>4. DOMAIN s = {}
    BY <2>3
  <2>5. PICK t \in Seq(AnyUse) : t = TurnUsages(s, b)
    BY TurnsType
  <2>6. DOMAIN t = {}
    <3>1. s = <<>>
      BY <2>3
    <3>2. CASE b = <<>>
      BY <2>4, <2>5, <3>2 DEF TurnUsages
    <3>3. CASE b # <<>>
      <4> DEFINE S == {i \in DOMAIN s : i < Len(s) =>
                         Cardinality({j \in DOMAIN b : b[j] <= s[i].line})
                           < Cardinality({j \in DOMAIN b : b[j] <= s[i + 1].line})}
      <4>1. t = At(s, S)
        BY <2>5, <3>3 DEF TurnUsages
      <4>2. S = {} /\ S \in SUBSET DOMAIN s
        BY <2>4
      <4> HIDE DEF S
      <4>3. At(s, S) \in Seq({s[i] : i \in S})
        BY <4>2, AtIs
      <4>4. {s[i] : i \in S} = {}
        BY <4>2
      <4>5. t \in Seq({})
        BY <4>1, <4>3, <4>4
      <4> QED
        BY <4>5
    <3> QED
      BY <3>2, <3>3
  <2>7. k = Sieve(t, Kept)
    BY <1>1, <2>3, <2>5 DEF KeptOf
  <2>8. (\A i \in DOMAIN t : t[i] \notin Kept) => Sieve(t, Kept) = <<>>
    BY SieveIs
  <2>9. k = <<>>
    BY <2>6, <2>7, <2>8
  <2> QED
    BY <1>2, <2>9
<1> QED
  BY <1>5, <1>8, <1>9

LEMMA EventsTagged ==
  ASSUME NEW us \in Seq(AnyUse), NEW b, NEW n \in Sid, NEW m
  PROVE  DashRows(Mapped(us, UseTag(n)), b, m) = DashRows(us, b, m)
<1>1. PICK k \in Seq(AnyUse) : k = KeptOf(us, b) /\ KeptOf(Mapped(us, UseTag(n)), b) = Mapped(k, UseTag(n))
  BY KeptTagged
<1>2. PICK l : l = Mapped(k, UseTag(n))
  OBVIOUS
<1>3. DOMAIN l = DOMAIN k /\ \A i \in DOMAIN k : l[i] = UseTag(n)[k[i]]
  BY <1>2 DEF Mapped
<1>4. \A i \in DOMAIN k : k[i] \in AnyUse
  OBVIOUS
<1>5. \A i \in DOMAIN k : RowOf(UseTag(n)[k[i]], m, i) = RowOf(k[i], m, i)
  BY <1>4, RowTagged
<1>6. \A i \in DOMAIN k : RowOf(l[i], m, i) = RowOf(k[i], m, i)
  BY <1>3, <1>5
<1>7. [i \in DOMAIN l |-> RowOf(l[i], m, i)] = [i \in DOMAIN k |-> RowOf(k[i], m, i)]
  BY <1>3, <1>6
<1> QED
  BY <1>1, <1>2, <1>7 DEF DashRows

LEMMA EventsRenamed ==
  ASSUME NEW us \in Seq(AnyUse), NEW b, NEW m \in Sid, NEW n \in Sid
  PROVE  Mapped(DashRows(us, b, m), Renamed(n)) = DashRows(us, b, n)
<1>1. PICK k \in Seq(AnyUse) : k = KeptOf(us, b)
  BY KeptTagged
<1>2. \A i \in DOMAIN k : k[i] \in AnyUse /\ i \in Int
  OBVIOUS
<1>3. \A i \in DOMAIN k : Renamed(n)[RowOf(k[i], m, i)] = RowOf(k[i], n, i)
  BY <1>2, RowRenamed
<1>4. PICK e : e = DashRows(us, b, m)
  OBVIOUS
<1>5. e = [i \in DOMAIN k |-> RowOf(k[i], m, i)]
  BY <1>1, <1>4 DEF DashRows
<1>6. DOMAIN e = DOMAIN k /\ \A i \in DOMAIN k : e[i] = RowOf(k[i], m, i)
  BY <1>5
<1>7. [i \in DOMAIN e |-> Renamed(n)[e[i]]] = [i \in DOMAIN k |-> RowOf(k[i], n, i)]
  BY <1>3, <1>6
<1> QED
  BY <1>1, <1>4, <1>7 DEF DashRows, Mapped

(***************************************************************************)
(* The dashboard of a transcript                                           *)
(***************************************************************************)
LEMMA LineSorted ==
  ASSUME NEW us \in Seq(AnyUse)
  PROVE  SortedBy(us, LAMBDA u : u.line) = Sorted(us, LineOf)
<1>1. \A i \in DOMAIN us : us[i] \in AnyUse /\ LineOf[us[i]] = us[i].line
  BY DEF LineOf
<1>2. [i \in DOMAIN us |-> us[i].line] = Mapped(us, LineOf)
  BY <1>1 DEF Mapped
<1>3. Maps(LineOf, AnyUse, Int)
  BY RecordMaps
<1>4. /\ Mapped(us, LineOf) \in Seq(Int) /\ Len(Mapped(us, LineOf)) = Len(us)
      /\ DOMAIN Mapped(us, LineOf) = DOMAIN us
      /\ \A i \in DOMAIN us : us[i] \in AnyUse /\ Mapped(us, LineOf)[i] = LineOf[us[i]]
  BY <1>3, MappedIs
<1>5. Computed(Mapped(us, LineOf)) = Mapped(us, LineOf)
  BY <1>4, ComputedList
<1> QED
  BY <1>2, <1>5 DEF SortedBy, Sorted

LEMMA TimeSorted ==
  ASSUME NEW rows \in Seq(AnyRow)
  PROVE  SortedBy(rows, LAMBDA e : e.ts) = Sorted(rows, TimeOf)
<1>1. \A i \in DOMAIN rows : rows[i] \in AnyRow /\ TimeOf[rows[i]] = rows[i].ts
  BY DEF TimeOf
<1>2. [i \in DOMAIN rows |-> rows[i].ts] = Mapped(rows, TimeOf)
  BY <1>1 DEF Mapped
<1>3. Maps(TimeOf, AnyRow, Int)
  <2>1. Live \in Sid
    BY DEF Sid
  <2> QED
    BY <2>1, RowMaps
<1>4. /\ Mapped(rows, TimeOf) \in Seq(Int) /\ Len(Mapped(rows, TimeOf)) = Len(rows)
      /\ DOMAIN Mapped(rows, TimeOf) = DOMAIN rows
      /\ \A i \in DOMAIN rows : rows[i] \in AnyRow /\ Mapped(rows, TimeOf)[i] = TimeOf[rows[i]]
  BY <1>3, MappedIs
<1>5. Computed(Mapped(rows, TimeOf)) = Mapped(rows, TimeOf)
  BY <1>4, ComputedList
<1> QED
  BY <1>2, <1>5 DEF SortedBy, Sorted

(* What each session gives.                                                *)
DashEach(tx) ==
  [n \in Sid |-> DashRows(Sieve(Usages(tx.meta, NoTime), Of(n)), BoundaryLines(tx, n), n)]

LEMMA DashEachIs ==
  ASSUME NEW tx, tx.meta \in Seq(AnyMeta)
  PROVE  /\ Maps(DashEach(tx), Sid, Seq(AnyRow))
         /\ \A n \in Sid : DashEach(tx)[n] =
              DashRows(Sieve(Usages(tx.meta, NoTime), Of(n)), BoundaryLines(tx, n), n)
<1>1. PICK us \in Seq(AnyUse) : us = Usages(tx.meta, NoTime)
  BY UsagesAre
<1>2. ASSUME NEW n \in Sid PROVE DashRows(Sieve(us, Of(n)), BoundaryLines(tx, n), n) \in Seq(AnyRow)
  <2>1. Sieve(us, Of(n)) \in Seq(AnyUse)
    BY SieveIs
  <2> QED
    BY <2>1, EventsType
<1> QED
  BY <1>1, <1>2 DEF Maps, DashEach

LEMMA KeptWhere ==
  ASSUME NEW us \in Seq(AnyUse)
  PROVE  Where(us, LAMBDA u : u.ts # NoTime /\ u.ctx # 0) = Sieve(us, Kept)
<1>1. \A i \in DOMAIN us : us[i] \in AnyUse
  OBVIOUS
<1>2. {i \in DOMAIN us : us[i] \in Kept} = {i \in DOMAIN us : us[i].ts # NoTime /\ us[i].ctx # 0}
  BY <1>1 DEF Kept
<1> QED
  BY <1>2 DEF Sieve, Where

LEMMA DashIs ==
  ASSUME NEW tx, tx.meta \in Seq(AnyMeta)
  PROVE  txToDashData(tx) =
           Sorted(FlattenSeq(Mapped(Distinct(Apply(Usages(tx.meta, NoTime), SidOf)), DashEach(tx))), TimeOf)
<1> DEFINE all     == Usages(tx.meta, NoTime)
           of(sid) == SortedBy(Where(all, LAMBDA u : SidOf(u) = sid), LAMBDA u : u.line)
           kept(sid) == Where(TurnUsages(of(sid), BoundaryLines(tx, sid)),
                              LAMBDA u : u.ts # NoTime /\ u.ctx # 0)
           events(sid) == [i \in DOMAIN kept(sid) |->
              [ts |-> kept(sid)[i].ts, session |-> sid, turn |-> i - 1, model |-> kept(sid)[i].model,
               tokens |-> [k \in Token |-> kept(sid)[i].tokens[k]], cost |-> CostOf(kept(sid)[i]),
               ctx |-> kept(sid)[i].ctx]]
<1>1. txToDashData(tx) = SortedBy(FlattenSeq(Apply(Distinct(Apply(all, SidOf)), events)), LAMBDA e : e.ts)
  BY Zenon DEF txToDashData
<1>2. all \in Seq(AnyUse)
  BY UsagesAre
<1>3. ASSUME NEW n \in Sid PROVE events(n) = DashEach(tx)[n]
  <2>1. Where(all, LAMBDA u : SidOf(u) = n) = Sieve(all, Of(n))
    BY <1>2, UsesOf
  <2> HIDE DEF all
  <2>2. PICK us \in Seq(AnyUse) : us = Sieve(all, Of(n))
    BY <1>2, SieveIs
  <2>3. of(n) = Sorted(us, LineOf)
    BY <2>1, <2>2, LineSorted
  <2> HIDE DEF of
  <2>4. Maps(LineOf, AnyUse, Int)
    BY RecordMaps
  <2>5. Sorted(us, LineOf) \in Seq(AnyUse) /\ \E p : Steady(p, Sorted(us, LineOf), us, LineOf)
    BY <2>4, SortedIsSteady
  <2>6. PICK ss \in Seq(AnyUse) : ss = Sorted(us, LineOf)
    BY <2>5
  <2>7. PICK b : b = BoundaryLines(tx, n)
    OBVIOUS
  <2>8. PICK t \in Seq(AnyUse) : t = TurnUsages(ss, b)
    BY TurnsType
  <2>9. Where(t, LAMBDA u : u.ts # NoTime /\ u.ctx # 0) = Sieve(t, Kept)
    BY KeptWhere
  <2>10. kept(n) = KeptOf(us, b)
    BY <2>3, <2>6, <2>7, <2>8, <2>9 DEF KeptOf
  <2> HIDE DEF kept
  <2>11. events(n) = DashRows(us, b, n)
    BY <2>10 DEF DashRows, RowOf
  <2>12. DashEach(tx)[n] = DashRows(us, b, n)
    BY <2>2, <2>7, DashEachIs DEF all
  <2> QED
    BY <2>11, <2>12
<1>4. PICK d \in Seq(Sid) : d = Distinct(Apply(all, SidOf))
  <2>1. PICK c \in Seq(Sid) : c = Apply(all, SidOf)
    BY <1>2, SidsAre
  <2>2. PICK S : S = {i \in DOMAIN c : \A j \in 1 .. i - 1 : c[j] # c[i]}
    OBVIOUS
  <2>3. S \in SUBSET DOMAIN c
    BY <2>2
  <2>4. PICK k \in Nat : \E a : Rising(a, k, S)
    BY <2>3, SomeRising
  <2>5. PICK a : Rising(a, k, S)
    BY <2>4
  <2>6. At(c, S) = [j \in 1 .. k |-> c[a[j]]] /\ At(c, S) \in Seq(Sid) /\ Len(At(c, S)) = k
    BY <2>3, <2>5, AtRising
  <2> QED
    BY <2>1, <2>2, <2>6, ZenonT(30) DEF Distinct
<1> HIDE DEF events, all, of, kept
<1>5. \A i \in DOMAIN d : d[i] \in Sid
  OBVIOUS
<1>6. [i \in DOMAIN d |-> events(d[i])] = Mapped(d, DashEach(tx))
  BY <1>3, <1>5 DEF Mapped
<1>7. PICK Z : Z = Seq(AnyRow)
  OBVIOUS
<1>8. Maps(DashEach(tx), Sid, Z)
  BY <1>7, DashEachIs
<1>9. /\ Mapped(d, DashEach(tx)) \in Seq(Z) /\ Len(Mapped(d, DashEach(tx))) = Len(d)
      /\ DOMAIN Mapped(d, DashEach(tx)) = DOMAIN d
      /\ \A i \in DOMAIN d : d[i] \in Sid /\ Mapped(d, DashEach(tx))[i] = DashEach(tx)[d[i]]
  BY <1>8, MappedIs
<1>10. PICK m : m = Mapped(d, DashEach(tx))
  OBVIOUS
<1>11. m \in Seq(Z) /\ Computed(m) = m
  BY <1>9, <1>10, ComputedList
<1>12. Apply(d, events) = m
  BY <1>6, <1>10, <1>11 DEF Apply
<1>13. m \in Seq(Seq(AnyRow))
  BY <1>7, <1>11
<1>14. PICK off : Offsets(off, m)
  BY <1>13, OffsetsExist
<1>15. FlattenSeq(m) \in Seq(AnyRow)
  BY <1>13, <1>14, FlattenPlaces
<1>16. SortedBy(FlattenSeq(m), LAMBDA e : e.ts) = Sorted(FlattenSeq(m), TimeOf)
  BY <1>15, TimeSorted
<1>17. txToDashData(tx) = SortedBy(FlattenSeq(Apply(d, events)), LAMBDA e : e.ts)
  BY <1>1, <1>4
<1> QED
  BY <1>4, <1>10, <1>12, <1>16, <1>17 DEF all

(***************************************************************************)
(* One file                                                                *)
(***************************************************************************)
Parsed(f) == f.events \in Seq(ParsedEvent) /\ f.meta \in Seq(ParsedMeta)

LEMMA ParsedIs ==
  ASSUME NEW f, Parsed(f)
  PROVE  /\ f.meta \in Seq(ParsedMeta) /\ f.meta \in Seq(AnyMeta)
         /\ f.events \in Seq(ParsedEvent) /\ f.events \in Seq(AnyEvent)
<1>1. PICK m \in Seq(ParsedMeta) : m = f.meta
  BY DEF Parsed
<1>2. \A i \in 1 .. Len(m) : m[i] \in AnyMeta
  <2>1. \A i \in 1 .. Len(m) : m[i] \in ParsedMeta
    OBVIOUS
  <2> QED
    BY <2>1, RecordsAre, Zenon
<1>3. m \in Seq(AnyMeta)
  BY <1>2
<1>4. PICK e \in Seq(ParsedEvent) : e = f.events
  BY DEF Parsed
<1>5. \A i \in 1 .. Len(e) : e[i] \in AnyEvent
  <2>1. \A i \in 1 .. Len(e) : e[i] \in ParsedEvent
    OBVIOUS
  <2> QED
    BY <2>1, RecordsAre, Zenon
<1>6. e \in Seq(AnyEvent)
  BY <1>5
<1> QED
  BY <1>1, <1>3, <1>4, <1>6

LEMMA FileIs ==
  ASSUME NEW f \in ParsedFile
  PROVE  /\ Parsed(f) /\ f.meta \in Seq(AnyMeta) /\ f.events \in Seq(AnyEvent) /\ f.name \in Sid
<1>1. Parsed(f) /\ f.name \in STRING
  BY DEF ParsedFile, Parsed
<1>2. f.name \in Sid
  BY <1>1, Zenon DEF Sid
<1> QED
  BY <1>1, <1>2, ParsedIs

LEMMA FileUses ==
  ASSUME NEW f, Parsed(f), NEW us, us = Usages(f.meta, NoTime)
  PROVE  /\ us \in Seq(AnyUse)
         /\ \A i \in DOMAIN us : us[i] \in AnyUse /\ us[i].sid = "" /\ SidOf(us[i]) = Live
<1>1. f.meta \in Seq(AnyMeta) /\ f.meta \in Seq(ParsedMeta)
  BY ParsedIs
<1>2. PICK meta \in Seq(AnyMeta) : meta = f.meta
  BY <1>1
<1>3. us = Mapped(Sieve(meta, Status), UseOf) /\ us \in Seq(AnyUse) /\ Sieve(meta, Status) \in Seq(AnyMeta)
  BY <1>2, UsagesAre
<1>4. PICK w : w = Sieve(meta, Status)
  OBVIOUS
<1>5. w \in Seq(ParsedMeta)
  <2>1. meta \in Seq(ParsedMeta)
    BY <1>1, <1>2
  <2> QED
    BY <1>4, <2>1, SieveIs
<1>6. \A i \in DOMAIN w : w[i] \in AnyMeta /\ w[i].sid = ""
  <2>1. \A i \in DOMAIN w : w[i] \in ParsedMeta
    BY <1>5
  <2> QED
    BY <2>1, RecordsAre, Zenon
<1>7. DOMAIN us = DOMAIN w /\ \A i \in DOMAIN w : us[i] = UseOf[w[i]]
  BY <1>3, <1>4 DEF Mapped
<1>8. \A m \in AnyMeta : UseOf[m].sid = m.sid
  BY UseRowIs
<1>9. \A i \in DOMAIN us : us[i].sid = ""
  BY <1>6, <1>7, <1>8, Zenon
<1>10. \A i \in DOMAIN us : SidOf(us[i]) = Live
  BY <1>9, Zenon DEF SidOf
<1>11. \A i \in DOMAIN us : us[i] \in AnyUse
  BY <1>3
<1> QED
  BY <1>3, <1>9, <1>10, <1>11, Zenon

LEMMA OneFileIs ==
  ASSUME NEW f, Parsed(f), NEW us, us = Usages(f.meta, NoTime)
  PROVE  /\ us \in Seq(AnyUse)
         /\ txToDashData(OneFile(f)) = Sorted(DashRows(us, Bounds(f.events), Live), TimeOf)
<1>1. PICK tx : tx = OneFile(f)
  OBVIOUS
<1>2. tx.meta = f.meta /\ BoundaryLines(tx, Live) = Bounds(f.events)
  BY <1>1 DEF OneFile, BoundaryLines, Session, Bounds
<1>3. tx.meta \in Seq(AnyMeta)
  BY <1>2, ParsedIs
<1>4. us = Usages(tx.meta, NoTime)
  BY <1>2
<1>5. /\ us \in Seq(AnyUse)
      /\ \A i \in DOMAIN us : us[i] \in AnyUse /\ us[i].sid = "" /\ SidOf(us[i]) = Live
  BY FileUses, Zenon
<1>6. Sieve(us, Of(Live)) = us
  <2>1. \A i \in DOMAIN us : us[i] \in Of(Live)
    BY <1>5, Zenon DEF Of
  <2>2. (\A i \in DOMAIN us : us[i] \in Of(Live)) => Sieve(us, Of(Live)) = us
    BY <1>5, SieveIs, Zenon
  <2> QED
    BY <2>1, <2>2
<1>7. Live \in Sid
  BY DEF Sid
<1>8. PICK E : E = DashEach(tx)
  OBVIOUS
<1>9. Maps(E, Sid, Seq(AnyRow)) /\ E[Live] = DashRows(us, Bounds(f.events), Live)
  <2>1. DashEach(tx)[Live] = DashRows(Sieve(Usages(tx.meta, NoTime), Of(Live)), BoundaryLines(tx, Live), Live)
    BY <1>3, <1>7, DashEachIs
  <2> QED
    BY <1>2, <1>3, <1>4, <1>6, <1>8, <2>1, DashEachIs
<1>10. PICK c \in Seq(Sid) : /\ c = Apply(us, SidOf) /\ DOMAIN c = DOMAIN us
                             /\ \A i \in DOMAIN us : c[i] = SidOf(us[i])
  BY <1>5, SidsAre, Zenon
<1>11. txToDashData(tx) = Sorted(FlattenSeq(Mapped(Distinct(c), E)), TimeOf)
  BY <1>3, <1>4, <1>8, <1>10, DashIs
<1>12. FlattenSeq(Mapped(Distinct(c), E)) = E[Live]
  <2>1. CASE us = <<>>
    <3>1. c = <<>>
      BY <1>10, <2>1
    <3>2. Distinct(c) = <<>>
      BY <3>1, DistinctNone
    <3>3. FlattenSeq(Mapped(<<>>, E)) = <<>>
      BY JoinedNone
    <3>4. E[Live] = <<>>
      BY <1>5, <1>7, <1>9, <2>1, EventsType
    <3> QED
      BY <3>2, <3>3, <3>4
  <2>2. CASE us # <<>>
    <3>1. AllAre(c, Live)
      <4>0. us \in Seq(AnyUse)
        BY <1>5, Zenon
      <4>1. Len(us) # 0 /\ Len(us) \in Nat /\ DOMAIN us = 1 .. Len(us)
        BY <4>0, <2>2
      <4>2. 1 \in DOMAIN us
        BY <4>1
      <4>3. c # <<>>
        BY <1>10, <4>2
      <4> QED
        BY <1>5, <1>10, <4>3, Zenon DEF AllAre
    <3>2. <<>> \in Seq(Sid)
      OBVIOUS
    <3>3. PICK o \in Seq(Sid) : o = <<>>
      BY <3>2
    <3>4. NoneIs(o, Live)
      BY <3>3 DEF NoneIs
    <3>5. Distinct(o \o c) = Distinct(o) \o <<Live>> /\ Distinct(o) \in Seq(Sid)
      BY <1>7, <3>1, <3>4, DistinctLast
    <3>6. o \o c = c
      BY <3>3
    <3>7. Distinct(c) = o \o <<Live>>
      BY <3>3, <3>5, <3>6, DistinctNone
    <3>8. /\ FlattenSeq(Mapped(o \o <<Live>>, E)) = FlattenSeq(Mapped(o, E)) \o E[Live]
          /\ FlattenSeq(Mapped(o, E)) \in Seq(AnyRow) /\ E[Live] \in Seq(AnyRow) /\ o \o <<Live>> \in Seq(Sid)
      BY <1>7, <1>9, JoinedLast
    <3>9. FlattenSeq(Mapped(o, E)) = <<>>
      BY <3>3, JoinedNone
    <3>10. \A r \in Seq(AnyRow) : <<>> \o r = r
      OBVIOUS
    <3> QED
      BY <3>7, <3>8, <3>9, <3>10
  <2> QED
    BY <2>1, <2>2
<1> QED
  BY <1>1, <1>5, <1>9, <1>11, <1>12, Zenon

(* What it gives under its name.                                           *)
LEMMA AloneIs ==
  ASSUME NEW f \in ParsedFile, NEW us, us = Usages(f.meta, NoTime)
  PROVE  /\ Apply(txToDashData(OneFile(f)), LAMBDA e : [e EXCEPT !.session = f.name])
              = Sorted(DashRows(us, Bounds(f.events), f.name), TimeOf)
         /\ DashRows(us, Bounds(f.events), f.name) \in Seq(AnyRow)
         /\ Sorted(DashRows(us, Bounds(f.events), f.name), TimeOf) \in Seq(AnyRow)
<1>1. PICK n \in Sid : n = f.name
  BY FileIs
<1>2. PICK b : b = Bounds(f.events)
  OBVIOUS
<1>3. us \in Seq(AnyUse) /\ txToDashData(OneFile(f)) = Sorted(DashRows(us, b, Live), TimeOf)
  BY <1>2, FileIs, OneFileIs
<1>4. Live \in Sid
  BY Zenon DEF Sid
<1>5. PICK r \in Seq(AnyRow) : r = DashRows(us, b, Live)
  BY <1>3, <1>4, EventsType
<1>6. Mapped(r, Renamed(n)) = DashRows(us, b, n)
  BY <1>3, <1>4, <1>5, EventsRenamed
<1>7. /\ Maps(TimeOf, AnyRow, Int) /\ Maps(Renamed(n), AnyRow, AnyRow)
      /\ Through(TimeOf, TimeOf, Renamed(n), AnyRow)
      /\ \A e \in AnyRow : Renamed(n)[e] = [e EXCEPT !.session = n]
  BY RowMaps
<1>8. Sorted(Mapped(r, Renamed(n)), TimeOf) = Mapped(Sorted(r, TimeOf), Renamed(n)) /\ Sorted(r, TimeOf) \in Seq(AnyRow)
  BY <1>7, SortMapped
<1>9. PICK s \in Seq(AnyRow) : s = Sorted(r, TimeOf)
  BY <1>8
<1>10. \A i \in DOMAIN s : s[i] \in AnyRow
  OBVIOUS
<1>11. [i \in DOMAIN s |-> [s[i] EXCEPT !.session = n]] = Mapped(s, Renamed(n))
  BY <1>7, <1>10 DEF Mapped
<1>12. /\ Mapped(s, Renamed(n)) \in Seq(AnyRow) /\ Len(Mapped(s, Renamed(n))) = Len(s)
       /\ DOMAIN Mapped(s, Renamed(n)) = DOMAIN s
       /\ \A i \in DOMAIN s : s[i] \in AnyRow /\ Mapped(s, Renamed(n))[i] = Renamed(n)[s[i]]
  BY <1>7, MappedIs
<1>13. Computed(Mapped(s, Renamed(n))) = Mapped(s, Renamed(n))
  BY <1>12, ComputedList
<1>14. Apply(s, LAMBDA e : [e EXCEPT !.session = n]) = Mapped(s, Renamed(n))
  BY <1>11, <1>13 DEF Apply
<1>15. DashRows(us, b, n) \in Seq(AnyRow)
  BY <1>3, EventsType
<1>16. txToDashData(OneFile(f)) = s
  BY <1>3, <1>5, <1>9
<1>17. Apply(txToDashData(OneFile(f)), LAMBDA e : [e EXCEPT !.session = n]) = Sorted(DashRows(us, b, n), TimeOf)
  BY <1>6, <1>8, <1>9, <1>14, <1>16
<1>18. Sorted(DashRows(us, b, n), TimeOf) \in Seq(AnyRow)
  BY <1>6, <1>8, <1>9, <1>12
<1> QED
  BY <1>1, <1>2, <1>15, <1>17, <1>18

(***************************************************************************)
(* The files together: their records, each named for its file, end to end  *)
(***************************************************************************)
LEMMA MappedTwice ==
  ASSUME NEW X, NEW Y, NEW Z, NEW s \in Seq(X), NEW F, Maps(F, X, Y), NEW G, Maps(G, Y, Z),
         NEW H, Through(H, G, F, X)
  PROVE  Mapped(Mapped(s, F), G) = Mapped(s, H)
<1>1. DOMAIN Mapped(s, F) = DOMAIN s /\ \A i \in DOMAIN s : s[i] \in X /\ Mapped(s, F)[i] = F[s[i]]
  <2>1. /\ Mapped(s, F) \in Seq(Y) /\ Len(Mapped(s, F)) = Len(s) /\ DOMAIN Mapped(s, F) = DOMAIN s
        /\ \A i \in DOMAIN s : s[i] \in X /\ Mapped(s, F)[i] = F[s[i]]
    BY MappedIs
  <2> QED
    BY <2>1
<1>2. PICK t : t = Mapped(s, F)
  OBVIOUS
<1>3. \A i \in DOMAIN s : G[t[i]] = H[s[i]]
  BY <1>1, <1>2 DEF Through
<1>4. DOMAIN t = DOMAIN s
  BY <1>1, <1>2
<1>5. [i \in DOMAIN t |-> G[t[i]]] = [i \in DOMAIN s |-> H[s[i]]]
  BY <1>3, <1>4
<1> QED
  BY <1>2, <1>5 DEF Mapped

LEMMA TaggedIs ==
  ASSUME NEW n \in Sid
  PROVE  /\ \A m \in Seq(AnyMeta) : Tagged(m, n) = Mapped(m, MetaTag(n)) /\ Tagged(m, n) \in Seq(AnyMeta)
         /\ \A e \in Seq(AnyEvent) : Tagged(e, n) = Mapped(e, EventTag(n)) /\ Tagged(e, n) \in Seq(AnyEvent)
<1>1. ASSUME NEW X, NEW s \in Seq(X), NEW F, Maps(F, X, X), \A x \in X : F[x] = [x EXCEPT !.sid = n]
      PROVE  Tagged(s, n) = Mapped(s, F) /\ Tagged(s, n) \in Seq(X)
  <2>1. /\ Mapped(s, F) \in Seq(X) /\ Len(Mapped(s, F)) = Len(s) /\ DOMAIN Mapped(s, F) = DOMAIN s
        /\ \A i \in DOMAIN s : s[i] \in X /\ Mapped(s, F)[i] = F[s[i]]
    BY <1>1, MappedIs
  <2>2. [i \in DOMAIN s |-> [s[i] EXCEPT !.sid = n]] = Mapped(s, F)
    BY <1>1, <2>1 DEF Mapped
  <2>3. Computed(Mapped(s, F)) = Mapped(s, F)
    BY <2>1, ComputedList
  <2>4. Apply(s, LAMBDA r : [r EXCEPT !.sid = n]) = Mapped(s, F)
    BY <2>2, <2>3 DEF Apply
  <2> QED
    BY <2>1, <2>4 DEF Tagged
<1>2. Maps(MetaTag(n), AnyMeta, AnyMeta) /\ Maps(EventTag(n), AnyEvent, AnyEvent)
  BY RecordMaps
<1>3. \A m \in AnyMeta : MetaTag(n)[m] = [m EXCEPT !.sid = n]
  BY TaggedMeta
<1>4. \A e \in AnyEvent : EventTag(n)[e] = [e EXCEPT !.sid = n]
  BY TaggedEvent
<1>5. ASSUME NEW m \in Seq(AnyMeta) PROVE Tagged(m, n) = Mapped(m, MetaTag(n)) /\ Tagged(m, n) \in Seq(AnyMeta)
  BY <1>1, <1>2, <1>3
<1>6. ASSUME NEW e \in Seq(AnyEvent) PROVE Tagged(e, n) = Mapped(e, EventTag(n)) /\ Tagged(e, n) \in Seq(AnyEvent)
  BY <1>1, <1>2, <1>4
<1> QED
  BY <1>5, <1>6

LEMMA UsagesTagged ==
  ASSUME NEW meta \in Seq(AnyMeta), NEW n \in Sid
  PROVE  /\ Usages(Tagged(meta, n), NoTime) = Mapped(Usages(meta, NoTime), UseTag(n))
         /\ Usages(meta, NoTime) \in Seq(AnyUse) /\ Usages(Tagged(meta, n), NoTime) \in Seq(AnyUse)
<1>1. /\ Maps(MetaTag(n), AnyMeta, AnyMeta) /\ Maps(UseOf, AnyMeta, AnyUse) /\ Maps(UseTag(n), AnyUse, AnyUse)
  BY RecordMaps
<1>2. PICK t \in Seq(AnyMeta) : t = Tagged(meta, n) /\ t = Mapped(meta, MetaTag(n))
  BY TaggedIs
<1>3. Pulls(MetaTag(n), AnyMeta, Status, Status)
  BY TaggedMeta DEF Pulls, Status
<1>4. Sieve(t, Status) = Mapped(Sieve(meta, Status), MetaTag(n))
  <2>1. Sieve(Mapped(meta, MetaTag(n)), Status) = Mapped(Sieve(meta, Status), MetaTag(n))
    BY <1>1, <1>3, SieveMapped
  <2> QED
    BY <1>2, <2>1
<1>5. PICK w \in Seq(AnyMeta) : w = Sieve(meta, Status)
  BY SieveIs
<1>6. PICK H : H = [m \in AnyMeta |-> UseOf[MetaTag(n)[m]]]
  OBVIOUS
<1>7. Through(H, UseOf, MetaTag(n), AnyMeta)
  BY <1>6 DEF Through
<1>8. Through(H, UseTag(n), UseOf, AnyMeta)
  <2>1. ASSUME NEW m \in AnyMeta PROVE UseOf[MetaTag(n)[m]] = UseTag(n)[UseOf[m]]
    <3>0. /\ MetaTag(n)[m] \in AnyMeta
          /\ asUsageRecord(MetaTag(n)[m], NoTime) = [asUsageRecord(m, NoTime) EXCEPT !.sid = n]
      BY TaggedMeta
    <3>4. UseOf[MetaTag(n)[m]] = asUsageRecord(MetaTag(n)[m], NoTime)
      BY <3>0, UseRowIs
    <3>1. UseOf[MetaTag(n)[m]] = [asUsageRecord(m, NoTime) EXCEPT !.sid = n]
      BY <3>0, <3>4
    <3>2. UseOf[m] \in AnyUse /\ UseOf[m] = asUsageRecord(m, NoTime)
      BY UseRowIs
    <3>3. UseTag(n)[UseOf[m]] = [UseOf[m] EXCEPT !.sid = n]
      BY <3>2, TaggedUse
    <3> QED
      BY <3>1, <3>2, <3>3
  <2> QED
    BY <1>6, <2>1 DEF Through
<1>9. Mapped(Mapped(w, MetaTag(n)), UseOf) = Mapped(w, H)
  BY <1>1, <1>7, MappedTwice
<1>10. Mapped(Mapped(w, UseOf), UseTag(n)) = Mapped(w, H)
  BY <1>1, <1>8, MappedTwice
<1>11. Usages(t, NoTime) = Mapped(Mapped(w, MetaTag(n)), UseOf) /\ Usages(t, NoTime) \in Seq(AnyUse)
  BY <1>4, <1>5, UsagesAre
<1>12. Usages(meta, NoTime) = Mapped(w, UseOf) /\ Usages(meta, NoTime) \in Seq(AnyUse)
  BY <1>5, UsagesAre
<1> QED
  BY <1>2, <1>9, <1>10, <1>11, <1>12

(* What a joined list gives, its parts give one after the other: the usage *)
(* records of one session, the session ids of all, events of a session.    *)
UsesIn(n)   == [s \in Seq(AnyMeta) |-> Sieve(Usages(s, NoTime), Of(n))]
SidsIn      == [s \in Seq(AnyMeta) |-> Apply(Usages(s, NoTime), SidOf)]
EventsIn(n) == [s \in Seq(AnyEvent) |-> Sieve(s, From(n))]
LEMMA UsesJoin ==
  ASSUME NEW a \in Seq(AnyMeta), NEW b \in Seq(AnyMeta)
  PROVE  /\ Usages(a \o b, NoTime) = Usages(a, NoTime) \o Usages(b, NoTime)
         /\ Usages(a, NoTime) \in Seq(AnyUse) /\ Usages(b, NoTime) \in Seq(AnyUse) /\ a \o b \in Seq(AnyMeta)
<1>1. Maps(UseOf, AnyMeta, AnyUse)
  BY RecordMaps
<1>2. PICK v \in Seq(AnyMeta) : v = Sieve(a, Status)
  BY SieveIs
<1>3. PICK w \in Seq(AnyMeta) : w = Sieve(b, Status)
  BY SieveIs
<1>4. a \o b \in Seq(AnyMeta)
  OBVIOUS
<1>5. Sieve(a \o b, Status) = v \o w
  <2>1. Sieve(a \o b, Status) = Sieve(a, Status) \o Sieve(b, Status)
    BY SieveJoin, SMTT(30)
  <2> QED
    BY <1>2, <1>3, <2>1
<1>6. /\ Mapped(v \o w, UseOf) = Mapped(v, UseOf) \o Mapped(w, UseOf)
      /\ Mapped(v, UseOf) \in Seq(AnyUse) /\ Mapped(w, UseOf) \in Seq(AnyUse) /\ v \o w \in Seq(AnyMeta)
  BY <1>1, MappedJoin
<1>7. Usages(a, NoTime) = Mapped(v, UseOf) /\ Usages(b, NoTime) = Mapped(w, UseOf)
  BY <1>2, <1>3, UsagesAre
<1>8. Usages(a \o b, NoTime) = Mapped(v \o w, UseOf)
  BY <1>4, <1>5, UsagesAre
<1> QED
  BY <1>4, <1>6, <1>7, <1>8

LEMMA UsesNone ==
  /\ <<>> \in Seq(AnyMeta) /\ Usages(<<>>, NoTime) = <<>>
<1>1. <<>> \in Seq(AnyMeta)
  OBVIOUS
<1>2. PICK o \in Seq(AnyMeta) : o = <<>>
  BY <1>1
<1>3. Usages(o, NoTime) = Mapped(Sieve(o, Status), UseOf)
  BY UsagesAre
<1>4. (\A i \in DOMAIN o : o[i] \in Status) => Sieve(o, Status) = o
  BY SieveIs
<1>5. Sieve(o, Status) = o
  BY <1>2, <1>4
<1>6. Mapped(o, UseOf) = <<>>
  BY <1>2 DEF Mapped
<1> QED
  BY <1>1, <1>2, <1>3, <1>5, <1>6

LEMMA SieveNone == ASSUME NEW P PROVE Sieve(<<>>, P) = <<>>
<1>1. <<>> \in Seq({})
  OBVIOUS
<1>2. PICK o \in Seq({}) : o = <<>>
  BY <1>1
<1>3. (\A i \in DOMAIN o : o[i] \in P) => Sieve(o, P) = o
  BY SieveIs
<1> QED
  BY <1>2, <1>3

LEMMA UsesInJoin == ASSUME NEW n PROVE Joining(UsesIn(n), AnyMeta, AnyUse)
<1>1. ASSUME NEW a \in Seq(AnyMeta)
      PROVE  UsesIn(n)[a] = Sieve(Usages(a, NoTime), Of(n)) /\ UsesIn(n)[a] \in Seq(AnyUse)
  <2>1. PICK us \in Seq(AnyUse) : us = Usages(a, NoTime)
    BY UsagesAre
  <2>2. Sieve(us, Of(n)) \in Seq(AnyUse)
    BY SieveIs
  <2> QED
    BY <2>1, <2>2 DEF UsesIn
<1>2. UsesIn(n)[<<>>] = <<>>
  BY <1>1, UsesNone, SieveNone
<1>3. ASSUME NEW a \in Seq(AnyMeta), NEW b \in Seq(AnyMeta)
      PROVE  UsesIn(n)[a \o b] = UsesIn(n)[a] \o UsesIn(n)[b]
  <2>1. /\ Usages(a \o b, NoTime) = Usages(a, NoTime) \o Usages(b, NoTime)
        /\ Usages(a, NoTime) \in Seq(AnyUse) /\ Usages(b, NoTime) \in Seq(AnyUse) /\ a \o b \in Seq(AnyMeta)
    BY UsesJoin
  <2>2. Sieve(Usages(a, NoTime) \o Usages(b, NoTime), Of(n))
          = Sieve(Usages(a, NoTime), Of(n)) \o Sieve(Usages(b, NoTime), Of(n))
    BY <2>1, SieveJoin
  <2> QED
    BY <1>1, <2>1, <2>2
<1> QED
  BY <1>1, <1>2, <1>3 DEF Joining

LEMMA SidsInJoin == Joining(SidsIn, AnyMeta, Sid)
<1>1. ASSUME NEW a \in Seq(AnyMeta)
      PROVE  /\ SidsIn[a] = Mapped(Usages(a, NoTime), SidAt) /\ SidsIn[a] \in Seq(Sid)
  <2>1. PICK us \in Seq(AnyUse) : us = Usages(a, NoTime)
    BY UsagesAre
  <2>2. Apply(us, SidOf) = Mapped(us, SidAt) /\ Apply(us, SidOf) \in Seq(Sid)
    BY SidsAre
  <2> QED
    BY <2>1, <2>2 DEF SidsIn
<1>2. SidsIn[<<>>] = <<>>
  <2>1. Mapped(<<>>, SidAt) = <<>>
    BY DEF Mapped
  <2> QED
    BY <1>1, <2>1, UsesNone
<1>3. ASSUME NEW a \in Seq(AnyMeta), NEW b \in Seq(AnyMeta)
      PROVE  SidsIn[a \o b] = SidsIn[a] \o SidsIn[b]
  <2>1. /\ Usages(a \o b, NoTime) = Usages(a, NoTime) \o Usages(b, NoTime)
        /\ Usages(a, NoTime) \in Seq(AnyUse) /\ Usages(b, NoTime) \in Seq(AnyUse) /\ a \o b \in Seq(AnyMeta)
    BY UsesJoin
  <2>2. Maps(SidAt, AnyUse, Sid)
    BY RecordMaps
  <2>3. PICK v \in Seq(AnyUse) : v = Usages(a, NoTime)
    BY <2>1
  <2>4. PICK w \in Seq(AnyUse) : w = Usages(b, NoTime)
    BY <2>1
  <2>5. /\ Mapped(v \o w, SidAt) = Mapped(v, SidAt) \o Mapped(w, SidAt)
        /\ Mapped(v, SidAt) \in Seq(Sid) /\ Mapped(w, SidAt) \in Seq(Sid) /\ v \o w \in Seq(AnyUse)
    BY <2>2, MappedJoin
  <2> QED
    BY <1>1, <2>1, <2>3, <2>4, <2>5
<1> QED
  BY <1>1, <1>2, <1>3 DEF Joining

LEMMA EventsInJoin == ASSUME NEW n PROVE Joining(EventsIn(n), AnyEvent, AnyEvent)
<1>1. \A a \in Seq(AnyEvent) : EventsIn(n)[a] = Sieve(a, From(n)) /\ EventsIn(n)[a] \in Seq(AnyEvent)
  <2>1. \A a \in Seq(AnyEvent) : Sieve(a, From(n)) \in Seq(AnyEvent)
    BY SieveIs
  <2> QED
    BY <2>1 DEF EventsIn
<1>2. EventsIn(n)[<<>>] = <<>>
  <2>1. <<>> \in Seq(AnyEvent)
    OBVIOUS
  <2> QED
    BY <1>1, <2>1, SieveNone
<1>3. ASSUME NEW a \in Seq(AnyEvent), NEW b \in Seq(AnyEvent)
      PROVE  EventsIn(n)[a \o b] = EventsIn(n)[a] \o EventsIn(n)[b]
  <2>1. a \o b \in Seq(AnyEvent)
    OBVIOUS
  <2>2. Sieve(a \o b, From(n)) = Sieve(a, From(n)) \o Sieve(b, From(n))
    BY SieveJoin
  <2> QED
    BY <1>1, <2>1, <2>2
<1> QED
  BY <1>1, <1>2, <1>3 DEF Joining

(***************************************************************************)
(* Files with names of their own                                           *)
(***************************************************************************)
Filed == {f \in ParsedFile : f.name # ""}
NameOf     == [f \in Filed |-> f.name]
MetaOf     == [f \in Filed |-> Tagged(f.meta, f.name)]
NamedEvents   == [f \in Filed |-> Tagged(f.events, f.name)]
UsesOfFile == [f \in Filed |-> Mapped(Usages(f.meta, NoTime), UseTag(f.name))]
SidsOfFile == [f \in Filed |-> Apply(UsesOfFile[f], SidOf)]
RowsOfFile == [f \in Filed |-> DashRows(Usages(f.meta, NoTime), Bounds(f.events), f.name)]
SortedRows == [f \in Filed |-> Sorted(RowsOfFile[f], TimeOf)]
UsesUnder(n)   == [f \in Filed |-> Sieve(UsesOfFile[f], Of(n))]
EventsUnder(n) == [f \in Filed |-> Sieve(NamedEvents[f], From(n))]

LEMMA FiledIs ==
  ASSUME NEW f \in Filed
  PROVE  /\ f \in ParsedFile /\ f.name # "" /\ f.name \in Sid
         /\ f.meta \in Seq(AnyMeta) /\ f.events \in Seq(AnyEvent)
         /\ Usages(f.meta, NoTime) \in Seq(AnyUse)
<1>1. f \in ParsedFile /\ f.name # ""
  BY Zenon DEF Filed
<1>2. f.name \in Sid /\ f.meta \in Seq(AnyMeta) /\ f.events \in Seq(AnyEvent)
  BY <1>1, FileIs, Zenon
<1>3. Usages(f.meta, NoTime) \in Seq(AnyUse)
  BY <1>2, UsagesAre
<1> QED
  BY <1>1, <1>2, <1>3, Zenon

LEMMA UsesOfFileIs ==
  ASSUME NEW f \in Filed
  PROVE  /\ UsesOfFile[f] = Mapped(Usages(f.meta, NoTime), UseTag(f.name)) /\ UsesOfFile[f] \in Seq(AnyUse)
         /\ UsesOfFile[f] = Usages(MetaOf[f], NoTime) /\ MetaOf[f] \in Seq(AnyMeta)
         /\ DOMAIN UsesOfFile[f] = DOMAIN Usages(f.meta, NoTime)
         /\ \A i \in DOMAIN UsesOfFile[f] : UsesOfFile[f][i] \in AnyUse /\ SidOf(UsesOfFile[f][i]) = f.name
<1>1. PICK n \in Sid : n = f.name /\ n # ""
  BY FiledIs, Zenon
<1>2. PICK meta \in Seq(AnyMeta) : meta = f.meta
  BY FiledIs, Zenon
<1>3. PICK us \in Seq(AnyUse) : us = Usages(meta, NoTime)
  BY UsagesAre
<1>4. Maps(UseTag(n), AnyUse, AnyUse)
  BY RecordMaps
<1>5. /\ Mapped(us, UseTag(n)) \in Seq(AnyUse) /\ Len(Mapped(us, UseTag(n))) = Len(us)
      /\ DOMAIN Mapped(us, UseTag(n)) = DOMAIN us
      /\ \A i \in DOMAIN us : us[i] \in AnyUse /\ Mapped(us, UseTag(n))[i] = UseTag(n)[us[i]]
  BY <1>4, MappedIs
<1>6. PICK t : t = Mapped(us, UseTag(n))
  OBVIOUS
<1>7. UsesOfFile[f] = t
  BY <1>1, <1>2, <1>3, <1>6, Zenon DEF UsesOfFile
<1>8. Tagged(meta, n) \in Seq(AnyMeta) /\ Usages(Tagged(meta, n), NoTime) = Mapped(Usages(meta, NoTime), UseTag(n))
  BY TaggedIs, UsagesTagged
<1>9. MetaOf[f] = Tagged(meta, n)
  BY <1>1, <1>2, Zenon DEF MetaOf
<1>10. \A u \in AnyUse : UseTag(n)[u].sid = n
  BY TaggedUse
<1>11. \A i \in DOMAIN us : t[i].sid = n
  BY <1>5, <1>6, <1>10
<1>12. \A i \in DOMAIN t : t[i] \in AnyUse /\ SidOf(t[i]) = n
  <2>1. \A i \in DOMAIN t : t[i] \in AnyUse /\ t[i].sid = n
    <3>1. t \in Seq(AnyUse) /\ DOMAIN t = DOMAIN us
      BY <1>5, <1>6
    <3> QED
      BY <1>11, <3>1
  <2>2. \A u : u.sid = n => SidOf(u) = n
    BY <1>1, Zenon DEF SidOf
  <2> QED
    BY <2>1, <2>2
<1> QED
  BY <1>1, <1>2, <1>3, <1>5, <1>6, <1>7, <1>8, <1>9, <1>12, Zenon

LEMMA EventsOfIs ==
  ASSUME NEW f \in Filed
  PROVE  /\ NamedEvents[f] = Mapped(f.events, EventTag(f.name)) /\ NamedEvents[f] \in Seq(AnyEvent)
         /\ Bounds(NamedEvents[f]) = Bounds(f.events)
         /\ \A i \in DOMAIN NamedEvents[f] : NamedEvents[f][i] \in AnyEvent /\ NamedEvents[f][i].sid = f.name
<1>1. PICK n \in Sid : n = f.name
  BY FiledIs, Zenon
<1>2. PICK ev \in Seq(AnyEvent) : ev = f.events
  BY FiledIs, Zenon
<1>3. Maps(EventTag(n), AnyEvent, AnyEvent)
  BY RecordMaps
<1>4. /\ Mapped(ev, EventTag(n)) \in Seq(AnyEvent) /\ Len(Mapped(ev, EventTag(n))) = Len(ev)
      /\ DOMAIN Mapped(ev, EventTag(n)) = DOMAIN ev
      /\ \A i \in DOMAIN ev : ev[i] \in AnyEvent /\ Mapped(ev, EventTag(n))[i] = EventTag(n)[ev[i]]
  BY <1>3, MappedIs
<1>5. PICK t : t = Mapped(ev, EventTag(n))
  OBVIOUS
<1>6. Tagged(ev, n) = t
  BY <1>5, TaggedIs
<1>7. NamedEvents[f] = t
  BY <1>1, <1>2, <1>6 DEF NamedEvents
<1>8. Bounds(Mapped(ev, EventTag(n))) = Bounds(ev) /\ Mapped(ev, EventTag(n)) \in Seq(AnyEvent)
  BY BoundsTagged
<1>9. \A e \in AnyEvent : EventTag(n)[e] \in AnyEvent /\ EventTag(n)[e].sid = n
  BY TaggedEvent
<1>10. \A i \in DOMAIN t : t[i] \in AnyEvent /\ t[i].sid = n
  BY <1>4, <1>5, <1>9
<1> QED
  BY <1>1, <1>2, <1>4, <1>5, <1>7, <1>8, <1>10

(* What one file gives under its own name is all it has, and under any     *)
(* other nothing.                                                          *)
LEMMA UnderIs ==
  ASSUME NEW f \in Filed, NEW n
  PROVE  /\ UsesUnder(n)[f] \in Seq(AnyUse) /\ EventsUnder(n)[f] \in Seq(AnyEvent)
         /\ n = f.name => UsesUnder(n)[f] = UsesOfFile[f] /\ EventsUnder(n)[f] = NamedEvents[f]
         /\ n # f.name => UsesUnder(n)[f] = <<>> /\ EventsUnder(n)[f] = <<>>
<1>1. PICK us \in Seq(AnyUse) : us = UsesOfFile[f]
  BY UsesOfFileIs
<1>2. PICK ev \in Seq(AnyEvent) : ev = NamedEvents[f]
  BY EventsOfIs
<1>3. \A i \in DOMAIN us : us[i] \in Of(n) <=> n = f.name
  <2>1. \A i \in DOMAIN us : us[i] \in AnyUse /\ SidOf(us[i]) = f.name
    BY <1>1, UsesOfFileIs
  <2> QED
    BY <2>1 DEF Of
<1>4. \A i \in DOMAIN ev : ev[i] \in From(n) <=> n = f.name
  <2>1. \A i \in DOMAIN ev : ev[i] \in AnyEvent /\ ev[i].sid = f.name
    BY <1>2, EventsOfIs
  <2> QED
    BY <2>1 DEF From
<1>5. /\ Sieve(us, Of(n)) \in Seq(AnyUse)
      /\ (\A i \in DOMAIN us : us[i] \in Of(n)) => Sieve(us, Of(n)) = us
      /\ (\A i \in DOMAIN us : us[i] \notin Of(n)) => Sieve(us, Of(n)) = <<>>
  BY SieveIs
<1>6. /\ Sieve(ev, From(n)) \in Seq(AnyEvent)
      /\ (\A i \in DOMAIN ev : ev[i] \in From(n)) => Sieve(ev, From(n)) = ev
      /\ (\A i \in DOMAIN ev : ev[i] \notin From(n)) => Sieve(ev, From(n)) = <<>>
  BY SieveIs
<1>7. UsesUnder(n)[f] = Sieve(us, Of(n))
  BY <1>1 DEF UsesUnder
<1>8. EventsUnder(n)[f] = Sieve(ev, From(n))
  BY <1>2 DEF EventsUnder
<1> QED
  BY <1>1, <1>2, <1>3, <1>4, <1>5, <1>6, <1>7, <1>8

LEMMA FiledMaps ==
  /\ Maps(NameOf, Filed, Sid) /\ Maps(MetaOf, Filed, Seq(AnyMeta)) /\ Maps(NamedEvents, Filed, Seq(AnyEvent))
  /\ Maps(UsesOfFile, Filed, Seq(AnyUse)) /\ Maps(SidsOfFile, Filed, Seq(Sid))
  /\ Maps(RowsOfFile, Filed, Seq(AnyRow)) /\ Maps(SortedRows, Filed, Seq(AnyRow))
  /\ \A n : Maps(UsesUnder(n), Filed, Seq(AnyUse)) /\ Maps(EventsUnder(n), Filed, Seq(AnyEvent))
<1>1. Maps(NameOf, Filed, Sid)
  <2>1. \A f \in Filed : f.name \in Sid
    BY FiledIs, Zenon
  <2> QED
    BY <2>1 DEF NameOf, Maps
<1>2. Maps(MetaOf, Filed, Seq(AnyMeta))
  <2>1. \A f \in Filed : MetaOf[f] \in Seq(AnyMeta)
    BY UsesOfFileIs
  <2>2. MetaOf = [f \in Filed |-> MetaOf[f]]
    BY DEF MetaOf
  <2> QED
    BY <2>1, <2>2 DEF Maps
<1>3. Maps(NamedEvents, Filed, Seq(AnyEvent))
  <2>1. \A f \in Filed : NamedEvents[f] \in Seq(AnyEvent)
    BY EventsOfIs
  <2>2. NamedEvents = [f \in Filed |-> NamedEvents[f]]
    BY DEF NamedEvents
  <2> QED
    BY <2>1, <2>2 DEF Maps
<1>4. Maps(UsesOfFile, Filed, Seq(AnyUse))
  <2>1. \A f \in Filed : UsesOfFile[f] \in Seq(AnyUse)
    BY UsesOfFileIs
  <2>2. UsesOfFile = [f \in Filed |-> UsesOfFile[f]]
    BY DEF UsesOfFile
  <2> QED
    BY <2>1, <2>2 DEF Maps
<1>5. Maps(SidsOfFile, Filed, Seq(Sid))
  <2>1. ASSUME NEW f \in Filed PROVE Apply(UsesOfFile[f], SidOf) \in Seq(Sid)
    <3>1. PICK us \in Seq(AnyUse) : us = UsesOfFile[f]
      BY UsesOfFileIs
    <3>2. Apply(us, SidOf) \in Seq(Sid)
      BY SidsAre
    <3> QED
      BY <3>1, <3>2
  <2> QED
    BY <2>1 DEF SidsOfFile, Maps
<1>6. ASSUME NEW f \in Filed
      PROVE  /\ DashRows(Usages(f.meta, NoTime), Bounds(f.events), f.name) \in Seq(AnyRow)
             /\ Sorted(DashRows(Usages(f.meta, NoTime), Bounds(f.events), f.name), TimeOf) \in Seq(AnyRow)
  <2>1. f \in ParsedFile
    BY FiledIs, Zenon
  <2>2. PICK us : us = Usages(f.meta, NoTime)
    OBVIOUS
  <2>3. /\ DashRows(us, Bounds(f.events), f.name) \in Seq(AnyRow)
        /\ Sorted(DashRows(us, Bounds(f.events), f.name), TimeOf) \in Seq(AnyRow)
    BY <2>1, <2>2, AloneIs
  <2> QED
    BY <2>2, <2>3
<1>7. Maps(RowsOfFile, Filed, Seq(AnyRow))
  BY <1>6 DEF RowsOfFile, Maps
<1>8. Maps(SortedRows, Filed, Seq(AnyRow))
  <2>1. \A f \in Filed : Sorted(RowsOfFile[f], TimeOf) \in Seq(AnyRow)
    BY <1>6 DEF RowsOfFile
  <2> QED
    BY <2>1 DEF SortedRows, Maps
<1>9. ASSUME NEW n PROVE Maps(UsesUnder(n), Filed, Seq(AnyUse)) /\ Maps(EventsUnder(n), Filed, Seq(AnyEvent))
  <2>1. \A f \in Filed : UsesUnder(n)[f] \in Seq(AnyUse) /\ EventsUnder(n)[f] \in Seq(AnyEvent)
    BY UnderIs
  <2>2. UsesUnder(n) = [f \in Filed |-> UsesUnder(n)[f]] /\ EventsUnder(n) = [f \in Filed |-> EventsUnder(n)[f]]
    BY DEF UsesUnder, EventsUnder
  <2> QED
    BY <2>1, <2>2 DEF Maps
<1> QED
  BY <1>1, <1>2, <1>3, <1>4, <1>5, <1>7, <1>8, <1>9

LEMMA JoinedType ==
  ASSUME NEW P, NEW Y, NEW s \in Seq(P), NEW h, Maps(h, P, Seq(Y))
  PROVE  FlattenSeq(Mapped(s, h)) \in Seq(Y)
<1>1. PICK g : g = [a \in Seq(Y) |-> a]
  OBVIOUS
<1>2. Joining(g, Y, Y)
  <2>1. \A a \in Seq(Y) : g[a] = a
    BY <1>1
  <2>2. <<>> \in Seq(Y) /\ \A a, b \in Seq(Y) : a \o b \in Seq(Y)
    OBVIOUS
  <2> QED
    BY <2>1, <2>2 DEF Joining
<1>3. \A x \in P : h[x] \in Seq(Y)
  BY DEF Maps
<1>4. Through(h, g, h, P)
  BY <1>1, <1>3 DEF Through
<1>5. /\ g[FlattenSeq(Mapped(s, h))] = FlattenSeq(Mapped(s, h))
      /\ FlattenSeq(Mapped(s, h)) \in Seq(Y) /\ FlattenSeq(Mapped(s, h)) \in Seq(Y)
  BY <1>2, <1>4, JoinedThrough
<1> QED
  BY <1>5

LEMMA AppliedIs ==
  ASSUME NEW X, NEW Y, NEW s \in Seq(X), NEW F, Maps(F, X, Y)
  PROVE  Computed([i \in DOMAIN s |-> F[s[i]]]) = Mapped(s, F)
<1>1. /\ Mapped(s, F) \in Seq(Y) /\ Len(Mapped(s, F)) = Len(s) /\ DOMAIN Mapped(s, F) = DOMAIN s
      /\ \A i \in DOMAIN s : s[i] \in X /\ Mapped(s, F)[i] = F[s[i]]
  BY MappedIs
<1>2. Computed(Mapped(s, F)) = Mapped(s, F)
  BY <1>1, ComputedList
<1> QED
  BY <1>2 DEF Mapped

LEMMA PoolIs ==
  ASSUME NEW files \in Seq(Filed)
  PROVE  LET tx == loadFiles(files)
         IN  /\ tx.merged /\ tx.meta = FlattenSeq(Mapped(files, MetaOf)) /\ tx.meta \in Seq(AnyMeta)
             /\ tx.all = FlattenSeq(Mapped(files, NamedEvents)) /\ tx.all \in Seq(AnyEvent)
<1>1. Maps(MetaOf, Filed, Seq(AnyMeta)) /\ Maps(NamedEvents, Filed, Seq(AnyEvent))
  BY FiledMaps
<1>2. \A i \in DOMAIN files : files[i] \in Filed
  OBVIOUS
<1>3. [i \in DOMAIN files |-> MetaOf[files[i]]] = [i \in DOMAIN files |-> Tagged(files[i].meta, files[i].name)]
  BY <1>2 DEF MetaOf
<1>4. [i \in DOMAIN files |-> NamedEvents[files[i]]] = [i \in DOMAIN files |-> Tagged(files[i].events, files[i].name)]
  BY <1>2 DEF NamedEvents
<1>5. Computed([i \in DOMAIN files |-> MetaOf[files[i]]]) = Mapped(files, MetaOf)
  BY <1>1, AppliedIs
<1>6. Computed([i \in DOMAIN files |-> NamedEvents[files[i]]]) = Mapped(files, NamedEvents)
  BY <1>1, AppliedIs
<1>7. FlattenSeq(Mapped(files, MetaOf)) \in Seq(AnyMeta) /\ FlattenSeq(Mapped(files, NamedEvents)) \in Seq(AnyEvent)
  BY <1>1, JoinedType
<1>8. Apply(files, LAMBDA f : Tagged(f.meta, f.name)) = Mapped(files, MetaOf)
  BY <1>3, <1>5 DEF Apply
<1>9. Apply(files, LAMBDA f : Tagged(f.events, f.name)) = Mapped(files, NamedEvents)
  BY <1>4, <1>6 DEF Apply
<1>10. loadFiles(files) = [events |-> files[1].events, merged |-> TRUE,
                           meta |-> FlattenSeq(Apply(files, LAMBDA f : Tagged(f.meta, f.name))),
                           all |-> FlattenSeq(Apply(files, LAMBDA f : Tagged(f.events, f.name)))]
  BY DEF loadFiles, Pool
<1> QED
  BY <1>7, <1>8, <1>9, <1>10

(* The session ids are the files' names, as often as they have records; a  *)
(* session has the records and the boundaries of the file of its name.     *)
LEMMA PoolSids ==
  ASSUME NEW files \in Seq(Filed)
  PROVE  Apply(Usages(loadFiles(files).meta, NoTime), SidOf) = FlattenSeq(Mapped(files, SidsOfFile))
<1>1. Maps(MetaOf, Filed, Seq(AnyMeta)) /\ Maps(SidsOfFile, Filed, Seq(Sid))
  BY FiledMaps
<1>2. Through(SidsOfFile, SidsIn, MetaOf, Filed)
  <2>1. ASSUME NEW f \in Filed PROVE SidsOfFile[f] = SidsIn[MetaOf[f]]
    <3>1. UsesOfFile[f] = Usages(MetaOf[f], NoTime) /\ MetaOf[f] \in Seq(AnyMeta)
      BY UsesOfFileIs
    <3>2. SidsOfFile[f] = Apply(UsesOfFile[f], SidOf)
      BY DEF SidsOfFile
    <3>3. SidsIn[MetaOf[f]] = Apply(Usages(MetaOf[f], NoTime), SidOf)
      BY <3>1 DEF SidsIn
    <3> QED
      BY <3>1, <3>2, <3>3
  <2> QED
    BY <2>1 DEF Through
<1>3. /\ SidsIn[FlattenSeq(Mapped(files, MetaOf))] = FlattenSeq(Mapped(files, SidsOfFile))
      /\ FlattenSeq(Mapped(files, MetaOf)) \in Seq(AnyMeta) /\ FlattenSeq(Mapped(files, SidsOfFile)) \in Seq(Sid)
  BY <1>1, <1>2, SidsInJoin, JoinedThrough
<1>4. loadFiles(files).meta = FlattenSeq(Mapped(files, MetaOf))
  BY PoolIs
<1>5. SidsIn[loadFiles(files).meta] = Apply(Usages(loadFiles(files).meta, NoTime), SidOf)
  BY <1>3, <1>4 DEF SidsIn
<1> QED
  BY <1>3, <1>4, <1>5

LEMMA PoolUses ==
  ASSUME NEW files \in Seq(Filed), Apart(NameOf, files), NEW i \in DOMAIN files
  PROVE  Sieve(Usages(loadFiles(files).meta, NoTime), Of(files[i].name)) = UsesOfFile[files[i]]
<1>1. PICK n : n = files[i].name
  OBVIOUS
<1>2. Maps(MetaOf, Filed, Seq(AnyMeta)) /\ Maps(UsesUnder(n), Filed, Seq(AnyUse))
  BY FiledMaps
<1>3. Through(UsesUnder(n), UsesIn(n), MetaOf, Filed)
  <2>1. ASSUME NEW f \in Filed PROVE UsesUnder(n)[f] = UsesIn(n)[MetaOf[f]]
    <3>1. UsesOfFile[f] = Usages(MetaOf[f], NoTime) /\ MetaOf[f] \in Seq(AnyMeta)
      BY UsesOfFileIs
    <3>2. UsesUnder(n)[f] = Sieve(UsesOfFile[f], Of(n))
      BY DEF UsesUnder
    <3>3. UsesIn(n)[MetaOf[f]] = Sieve(Usages(MetaOf[f], NoTime), Of(n))
      BY <3>1 DEF UsesIn
    <3> QED
      BY <3>1, <3>2, <3>3
  <2> QED
    BY <2>1 DEF Through
<1>4. /\ UsesIn(n)[FlattenSeq(Mapped(files, MetaOf))] = FlattenSeq(Mapped(files, UsesUnder(n)))
      /\ FlattenSeq(Mapped(files, MetaOf)) \in Seq(AnyMeta) /\ FlattenSeq(Mapped(files, UsesUnder(n))) \in Seq(AnyUse)
  <2>1. Joining(UsesIn(n), AnyMeta, AnyUse)
    BY UsesInJoin
  <2> QED
    BY <1>2, <1>3, <2>1, JoinedThrough
<1>5. loadFiles(files).meta = FlattenSeq(Mapped(files, MetaOf))
  BY PoolIs
<1>6. UsesIn(n)[loadFiles(files).meta] = Sieve(Usages(loadFiles(files).meta, NoTime), Of(n))
  BY <1>4, <1>5 DEF UsesIn
<1>7. \A k \in DOMAIN files : files[k] \in Filed /\ NameOf[files[k]] = files[k].name
  <2>1. \A k \in DOMAIN files : files[k] \in Filed
    OBVIOUS
  <2> QED
    BY <2>1 DEF NameOf
<1>8. OnlyOne(UsesUnder(n), files, i)
  <2>1. ASSUME NEW k \in DOMAIN files, k # i PROVE UsesUnder(n)[files[k]] = <<>>
    <3>1. files[k].name # n
      BY <1>1, <1>7, <2>1 DEF Apart
    <3> QED
      BY <1>7, <3>1, UnderIs
  <2> QED
    BY <2>1 DEF OnlyOne
<1>9. /\ FlattenSeq(Mapped(files, UsesUnder(n))) = UsesUnder(n)[files[i]] /\ UsesUnder(n)[files[i]] \in Seq(AnyUse)
  BY <1>2, <1>8, JoinedOnly
<1>10. UsesUnder(n)[files[i]] = UsesOfFile[files[i]]
  BY <1>1, <1>7, UnderIs
<1> QED
  BY <1>1, <1>4, <1>5, <1>6, <1>9, <1>10

LEMMA EventsFrom ==
  ASSUME NEW ev \in Seq(AnyEvent), NEW n
  PROVE  Where(ev, LAMBDA e : e.sid = n) = Sieve(ev, From(n))
<1>1. \A i \in DOMAIN ev : ev[i] \in AnyEvent
  OBVIOUS
<1>2. {i \in DOMAIN ev : ev[i] \in From(n)} = {i \in DOMAIN ev : ev[i].sid = n}
  BY <1>1 DEF From
<1> QED
  BY <1>2 DEF Sieve, Where

LEMMA PoolBounds ==
  ASSUME NEW files \in Seq(Filed), Apart(NameOf, files), NEW i \in DOMAIN files
  PROVE  BoundaryLines(loadFiles(files), files[i].name) = Bounds(files[i].events)
<1>1. PICK n : n = files[i].name
  OBVIOUS
<1>2. Maps(NamedEvents, Filed, Seq(AnyEvent)) /\ Maps(EventsUnder(n), Filed, Seq(AnyEvent))
  BY FiledMaps
<1>3. Through(EventsUnder(n), EventsIn(n), NamedEvents, Filed)
  <2>1. ASSUME NEW f \in Filed PROVE EventsUnder(n)[f] = EventsIn(n)[NamedEvents[f]]
    <3>1. NamedEvents[f] \in Seq(AnyEvent)
      BY EventsOfIs
    <3> QED
      BY <3>1 DEF EventsUnder, EventsIn
  <2> QED
    BY <2>1 DEF Through
<1>4. /\ EventsIn(n)[FlattenSeq(Mapped(files, NamedEvents))] = FlattenSeq(Mapped(files, EventsUnder(n)))
      /\ FlattenSeq(Mapped(files, NamedEvents)) \in Seq(AnyEvent)
      /\ FlattenSeq(Mapped(files, EventsUnder(n))) \in Seq(AnyEvent)
  <2>1. Joining(EventsIn(n), AnyEvent, AnyEvent)
    BY EventsInJoin
  <2> QED
    BY <1>2, <1>3, <2>1, JoinedThrough
<1>5. PICK tx : tx = loadFiles(files)
  OBVIOUS
<1>6. tx.merged /\ tx.all = FlattenSeq(Mapped(files, NamedEvents)) /\ tx.all \in Seq(AnyEvent)
  BY <1>5, PoolIs
<1>7. Sieve(tx.all, From(n)) = FlattenSeq(Mapped(files, EventsUnder(n)))
  <2>1. EventsIn(n)[tx.all] = Sieve(tx.all, From(n))
    BY <1>6 DEF EventsIn
  <2> QED
    BY <1>4, <1>6, <2>1
<1>8. \A k \in DOMAIN files : files[k] \in Filed /\ NameOf[files[k]] = files[k].name
  <2>1. \A k \in DOMAIN files : files[k] \in Filed
    OBVIOUS
  <2> QED
    BY <2>1 DEF NameOf
<1>9. OnlyOne(EventsUnder(n), files, i)
  <2>1. ASSUME NEW k \in DOMAIN files, k # i PROVE EventsUnder(n)[files[k]] = <<>>
    <3>1. files[k].name # n
      BY <1>1, <1>8, <2>1 DEF Apart
    <3> QED
      BY <1>8, <3>1, UnderIs
  <2> QED
    BY <2>1 DEF OnlyOne
<1>10. FlattenSeq(Mapped(files, EventsUnder(n))) = EventsUnder(n)[files[i]] /\ EventsUnder(n)[files[i]] \in Seq(AnyEvent)
  BY <1>2, <1>9, JoinedOnly
<1>11. EventsUnder(n)[files[i]] = NamedEvents[files[i]]
  BY <1>1, <1>8, UnderIs
<1>12. Where(tx.all, LAMBDA e : e.sid = n) = NamedEvents[files[i]]
  <2>1. Where(tx.all, LAMBDA e : e.sid = n) = Sieve(tx.all, From(n))
    BY <1>6, EventsFrom
  <2> QED
    BY <1>7, <1>10, <1>11, <2>1
<1>13. Session(tx, n) = NamedEvents[files[i]]
  BY <1>6, <1>12 DEF Session
<1>14. BoundaryLines(tx, n) = Bounds(NamedEvents[files[i]])
  BY <1>13 DEF BoundaryLines, Bounds
<1>15. Bounds(NamedEvents[files[i]]) = Bounds(files[i].events)
  BY <1>8, EventsOfIs
<1> QED
  BY <1>1, <1>5, <1>14, <1>15

LEMMA PoolRows ==
  ASSUME NEW files \in Seq(Filed), Apart(NameOf, files)
  PROVE  txToDashData(loadFiles(files)) = Sorted(FlattenSeq(Mapped(files, RowsOfFile)), TimeOf)
<1>1. PICK tx : tx = loadFiles(files)
  OBVIOUS
<1>2. tx.meta \in Seq(AnyMeta)
  BY <1>1, PoolIs
<1>3. PICK E : E = DashEach(tx)
  OBVIOUS
<1>4. /\ Maps(E, Sid, Seq(AnyRow))
      /\ \A n \in Sid : E[n] = DashRows(Sieve(Usages(tx.meta, NoTime), Of(n)), BoundaryLines(tx, n), n)
  BY <1>2, <1>3, DashEachIs
<1>5. txToDashData(tx) = Sorted(FlattenSeq(Mapped(Distinct(FlattenSeq(Mapped(files, SidsOfFile))), E)), TimeOf)
  BY <1>1, <1>2, <1>3, DashIs, PoolSids
<1>6. PICK q : q = [f \in Filed |-> IF SidsOfFile[f] = <<>> THEN <<>> ELSE E[f.name]]
  OBVIOUS
<1>7. Maps(NameOf, Filed, Sid) /\ Maps(SidsOfFile, Filed, Seq(Sid)) /\ Maps(RowsOfFile, Filed, Seq(AnyRow))
  BY FiledMaps
<1>8. \A f \in Filed : f.name \in Sid /\ NameOf[f] = f.name
  BY FiledIs, Zenon DEF NameOf
<1>9. ASSUME NEW f \in Filed
      PROVE  /\ DOMAIN SidsOfFile[f] = DOMAIN Usages(f.meta, NoTime)
             /\ \A i \in DOMAIN SidsOfFile[f] : SidsOfFile[f][i] = f.name
  <2>1. PICK us \in Seq(AnyUse) : us = UsesOfFile[f]
    BY UsesOfFileIs
  <2>2. DOMAIN us = DOMAIN Usages(f.meta, NoTime) /\ \A i \in DOMAIN us : SidOf(us[i]) = f.name
    BY <2>1, UsesOfFileIs
  <2>3. /\ Apply(us, SidOf) = Mapped(us, SidAt) /\ Apply(us, SidOf) \in Seq(Sid)
        /\ DOMAIN Apply(us, SidOf) = DOMAIN us /\ \A i \in DOMAIN us : Apply(us, SidOf)[i] = SidOf(us[i])
    BY SidsAre
  <2>4. SidsOfFile[f] = Apply(us, SidOf)
    BY <2>1 DEF SidsOfFile
  <2> QED
    BY <2>2, <2>3, <2>4
<1>10. Blocks(SidsOfFile, NameOf, Filed)
  BY <1>8, <1>9 DEF Blocks
<1>11. Maps(q, Filed, Seq(AnyRow)) /\ ByName(q, SidsOfFile, NameOf, E, Filed)
  <2>1. \A n \in Sid : E[n] \in Seq(AnyRow)
    BY <1>4 DEF Maps
  <2>2. <<>> \in Seq(AnyRow)
    OBVIOUS
  <2>3. Maps(q, Filed, Seq(AnyRow))
    BY <1>6, <1>8, <2>1, <2>2 DEF Maps
  <2> QED
    BY <1>6, <1>8, <2>3 DEF ByName
<1>12. FlattenSeq(Mapped(Distinct(FlattenSeq(Mapped(files, SidsOfFile))), E)) = FlattenSeq(Mapped(files, q))
  BY <1>4, <1>7, <1>10, <1>11, JoinedDistinct
<1>13. ASSUME NEW i \in DOMAIN files PROVE q[files[i]] = RowsOfFile[files[i]]
  <2>1. PICK f \in Filed : f = files[i]
    OBVIOUS
  <2>2. PICK us \in Seq(AnyUse) : us = Usages(f.meta, NoTime)
    BY FiledIs, Zenon
  <2>3. PICK b : b = Bounds(f.events)
    OBVIOUS
  <2>4. PICK n \in Sid : n = f.name
    BY FiledIs, Zenon
  <2>5. RowsOfFile[f] = DashRows(us, b, n)
    BY <2>2, <2>3, <2>4 DEF RowsOfFile
  <2>6. CASE SidsOfFile[f] = <<>>
    <3>1. us = <<>>
      <4>1. DOMAIN us = {}
        BY <1>9, <2>2, <2>6
      <4> QED
        BY <4>1
    <3>2. DashRows(us, b, n) \in Seq(AnyRow) /\ (us = <<>> => DashRows(us, b, n) = <<>>)
      BY EventsType
    <3> QED
      BY <1>6, <2>1, <2>5, <2>6, <3>1, <3>2
  <2>7. CASE SidsOfFile[f] # <<>>
    <3>1. E[n] = DashRows(UsesOfFile[f], b, n)
      <4>1. Sieve(Usages(tx.meta, NoTime), Of(n)) = UsesOfFile[f]
        BY <1>1, <2>1, <2>4, PoolUses
      <4>2. BoundaryLines(tx, n) = b
        BY <1>1, <2>1, <2>3, <2>4, PoolBounds
      <4> QED
        BY <1>4, <4>1, <4>2
    <3>2. UsesOfFile[f] = Mapped(us, UseTag(n))
      BY <2>2, <2>4, UsesOfFileIs
    <3>3. DashRows(Mapped(us, UseTag(n)), b, n) = DashRows(us, b, n)
      BY EventsTagged
    <3> QED
      BY <1>6, <2>1, <2>4, <2>5, <2>7, <3>1, <3>2, <3>3
  <2> QED
    BY <2>6, <2>7
<1>14. Mapped(files, q) = Mapped(files, RowsOfFile)
  BY <1>13 DEF Mapped
<1> QED
  BY <1>1, <1>5, <1>12, <1>14

LEMMA AloneRows ==
  ASSUME NEW files \in Seq(Filed),
         NEW alone, alone = [i \in DOMAIN files |->
           Apply(txToDashData(OneFile(files[i])), LAMBDA e : [e EXCEPT !.session = files[i].name])]
  PROVE  SortedBy(FlattenSeq(Computed(alone)), LAMBDA e : e.ts)
           = Sorted(FlattenSeq(Mapped(files, RowsOfFile)), TimeOf)
<1>1. Maps(SortedRows, Filed, Seq(AnyRow)) /\ Maps(RowsOfFile, Filed, Seq(AnyRow))
  BY FiledMaps
<1>2. ASSUME NEW i \in DOMAIN files PROVE alone[i] = SortedRows[files[i]]
  <2>1. PICK f \in Filed : f = files[i]
    OBVIOUS
  <2>2. f \in ParsedFile
    BY FiledIs, Zenon
  <2>3. PICK us : us = Usages(f.meta, NoTime)
    OBVIOUS
  <2>4. Apply(txToDashData(OneFile(f)), LAMBDA e : [e EXCEPT !.session = f.name])
          = Sorted(DashRows(us, Bounds(f.events), f.name), TimeOf)
    BY <2>2, <2>3, AloneIs
  <2>5. SortedRows[f] = Sorted(DashRows(us, Bounds(f.events), f.name), TimeOf)
    BY <2>3 DEF SortedRows, RowsOfFile
  <2> QED
    BY <2>1, <2>4, <2>5
<1>3. alone = [i \in DOMAIN files |-> SortedRows[files[i]]]
  BY <1>2
<1>4. Computed(alone) = Mapped(files, SortedRows)
  <2>1. Computed([i \in DOMAIN files |-> SortedRows[files[i]]]) = Mapped(files, SortedRows)
    BY <1>1, AppliedIs
  <2> QED
    BY <1>3, <2>1
<1>5. PICK rows \in Seq(AnyRow) : rows = FlattenSeq(Mapped(files, SortedRows))
  BY <1>1, JoinedType
<1>6. SortedBy(rows, LAMBDA e : e.ts) = Sorted(rows, TimeOf)
  BY TimeSorted
<1>7. Maps(TimeOf, AnyRow, Int)
  <2>1. Live \in Sid
    BY DEF Sid
  <2> QED
    BY <2>1, RowMaps
<1>8. SortedEach(SortedRows, RowsOfFile, TimeOf, Filed)
  BY DEF SortedEach, SortedRows
<1>9. Sorted(FlattenSeq(Mapped(files, SortedRows)), TimeOf) = Sorted(FlattenSeq(Mapped(files, RowsOfFile)), TimeOf)
  BY <1>1, <1>7, <1>8, SortJoined
<1> QED
  BY <1>4, <1>5, <1>6, <1>9

(* Files dropped together whose names differ give the dashboard the calls  *)
(* each of them gives alone, under its own name, in the order of their     *)
(* times: a call is the last of a turn of its own file, whatever the lines *)
(* at which the other files' users speak.                                  *)
THEOREM MergedIsUnion == SpecPanels => []MergeIsUnion
<1>1. ASSUME TypeOKPanels, kind = "session", NEW files \in Files[kind], Named(files),
             NEW alone, alone = [i \in DOMAIN files |->
               Apply(txToDashData(OneFile(files[i])), LAMBDA e : [e EXCEPT !.session = files[i].name])]
      PROVE  txToDashData(loadFiles(files)) = SortedBy(FlattenSeq(Computed(alone)), LAMBDA e : e.ts)
  <2>1. kind \in Kind
    BY BodyIs, <1>1 DEF TypeOKPanels
  <2>7. \A i, j \in DOMAIN files : files[i].name # "" /\ (files[i].name = files[j].name => i = j)
    BY <1>1, Zenon DEF Named
  <2>2. files \in Seq(ParsedFile)
    BY <1>1, <2>1, PanelsAssumption
  <2>3. PICK fs \in Seq(Filed) : fs = files
    <3>1. \A i \in DOMAIN files : files[i] \in Filed
      <4>1. \A i \in DOMAIN files : files[i] \in ParsedFile
        BY <2>2
      <4>2. \A i \in DOMAIN files : files[i].name # ""
        BY <2>7, Zenon
      <4> QED
        BY <4>1, <4>2, Zenon DEF Filed
    <3>2. files \in Seq(Filed)
      <4>1. PICK n \in Nat : files \in [1 .. n -> ParsedFile]
        BY <2>2
      <4>2. files \in [1 .. n -> Filed]
        BY <3>1, <4>1
      <4> QED
        BY <4>2
    <3> QED
      BY <3>2
  <2>4. Apart(NameOf, fs)
    <3>1. \A i \in DOMAIN fs : fs[i] \in Filed
      OBVIOUS
    <3>2. \A i \in DOMAIN fs : NameOf[fs[i]] = fs[i].name
      BY <3>1 DEF NameOf
    <3>3. \A i, j \in DOMAIN fs : fs[i].name = fs[j].name => i = j
      BY <2>3, <2>7, Zenon
    <3> QED
      BY <3>2, <3>3 DEF Apart
  <2>5. txToDashData(loadFiles(fs)) = Sorted(FlattenSeq(Mapped(fs, RowsOfFile)), TimeOf)
    BY <2>4, PoolRows
  <2>6. SortedBy(FlattenSeq(Computed(alone)), LAMBDA e : e.ts) = Sorted(FlattenSeq(Mapped(fs, RowsOfFile)), TimeOf)
    BY <1>1, <2>3, AloneRows
  <2> QED
    BY <2>3, <2>5, <2>6
<1>2. TypeOKPanels => MergeIsUnion
  BY <1>1 DEF MergeIsUnion, Apply
<1> QED
  BY <1>2, PanelTypeCorrect, PTL

(***************************************************************************)
(* More about lists: places in two stretches, what is chosen twice or of a *)
(* sorted list, the folds of the walk                                      *)
(***************************************************************************)
LEMMA AtJoin ==
  ASSUME NEW X, NEW s \in Seq(X), NEW S \in SUBSET DOMAIN s, NEW T \in SUBSET DOMAIN s,
         \A i \in S : \A j \in T : i < j
  PROVE  At(s, S \cup T) = At(s, S) \o At(s, T)
<1>1. S \subseteq Nat /\ T \subseteq Nat
  <2>1. DOMAIN s \subseteq Nat
    OBVIOUS
  <2> QED
    BY <2>1
<1>2. PICK m \in Nat : \E b : Rising(b, m, S)
  BY SomeRising
<1>3. PICK a : Rising(a, m, S)
  BY <1>2
<1>4. PICK k \in Nat : \E b : Rising(b, k, T)
  BY SomeRising
<1>5. PICK b : Rising(b, k, T)
  BY <1>4
<1> DEFINE c == [j \in 1 .. m + k |-> IF j <= m THEN a[j] ELSE b[j - m]]
<1>6. (\A j \in 1 .. m : a[j] \in S) /\ (\A j \in 1 .. k : b[j] \in T)
  BY <1>3, <1>5 DEF Rising
<1>7. \A j \in 1 .. m + k : j \in 1 .. m \/ (~(j <= m) /\ j - m \in 1 .. k)
  OBVIOUS
<1>8. \A j \in 1 .. m : j \in 1 .. m + k /\ c[j] = a[j]
  OBVIOUS
<1>9. \A j \in 1 .. m + k : ~(j <= m) => c[j] = b[j - m]
  OBVIOUS
<1>10. \A j \in 1 .. k : m + j \in 1 .. m + k /\ c[m + j] = b[j]
  <2> SUFFICES ASSUME NEW j \in 1 .. k PROVE m + j \in 1 .. m + k /\ c[m + j] = b[j]
    OBVIOUS
  <2>1. m + j \in 1 .. m + k /\ ~(m + j <= m) /\ m + j - m = j
    OBVIOUS
  <2> QED
    BY <2>1
<1>11. c = [j \in 1 .. m + k |-> c[j]]
  OBVIOUS
<1> HIDE DEF c
<1>12. c \in [1 .. m + k -> S \cup T]
  <2>1. \A j \in 1 .. m + k : c[j] \in S \cup T
    BY <1>6, <1>7, <1>8, <1>9
  <2> QED
    BY <1>11, <2>1
<1>13. ASSUME NEW v \in S \cup T PROVE \E j \in 1 .. m + k : c[j] = v
  <2>1. CASE v \in S
    BY <1>3, <1>8, <2>1 DEF Rising
  <2>2. CASE v \in T
    <3>1. PICK j \in 1 .. k : b[j] = v
      BY <1>5, <2>2 DEF Rising
    <3> QED
      BY <1>10, <3>1
  <2> QED
    BY <2>1, <2>2
<1>14. ASSUME NEW i \in 1 .. m + k, NEW j \in 1 .. m + k, i < j PROVE c[i] < c[j]
  <2>1. CASE i \in 1 .. m /\ j \in 1 .. m
    BY <1>3, <1>8, <1>14, <2>1 DEF Rising
  <2>2. CASE i \in 1 .. m /\ ~(j <= m)
    BY <1>6, <1>7, <1>8, <1>9, <2>2
  <2>3. CASE ~(i <= m) /\ ~(j <= m)
    <3>1. i - m \in 1 .. k /\ j - m \in 1 .. k /\ i - m < j - m
      BY <1>7, <1>14, <2>3
    <3>2. b[i - m] < b[j - m]
      BY <1>5, <3>1 DEF Rising
    <3> QED
      BY <1>9, <2>3, <3>2
  <2> QED
    BY <1>7, <1>14, <2>1, <2>2, <2>3
<1>15. Rising(c, m + k, S \cup T)
  BY <1>12, <1>13, <1>14 DEF Rising
<1>16. PICK v \in Seq(X) : v = At(s, S \cup T) /\ v = [j \in 1 .. m + k |-> s[c[j]]]
  <2>1. S \cup T \in SUBSET DOMAIN s /\ m + k \in Nat
    OBVIOUS
  <2>2. PICK U \in SUBSET DOMAIN s : U = S \cup T
    BY <2>1
  <2>3. Rising(c, m + k, U)
    BY <1>15, <2>2
  <2>4. At(s, U) = [j \in 1 .. m + k |-> s[c[j]]] /\ At(s, U) \in Seq(X) /\ Len(At(s, U)) = m + k
    BY <2>1, <2>3, AtRising
  <2> QED
    BY <2>2, <2>4
<1>17. PICK x \in Seq(X) : x = At(s, S) /\ x = [j \in 1 .. m |-> s[a[j]]]
  BY <1>3, AtRising
<1>18. PICK y \in Seq(X) : y = At(s, T) /\ y = [j \in 1 .. k |-> s[b[j]]]
  BY <1>5, AtRising
<1>19. Len(v) = m + k /\ Len(x) = m /\ Len(y) = k
  BY <1>16, <1>17, <1>18
<1>19a. (\A j \in 1 .. m + k : v[j] = s[c[j]]) /\ (\A j \in 1 .. m : x[j] = s[a[j]])
       /\ \A j \in 1 .. k : y[j] = s[b[j]]
  BY <1>16, <1>17, <1>18
<1>20. ASSUME NEW j \in 1 .. m PROVE v[j] = x[j]
  <2>1. j \in 1 .. m + k /\ c[j] = a[j]
    BY <1>8
  <2>2. v[j] = s[c[j]] /\ x[j] = s[a[j]]
    BY <1>19a, <2>1
  <2> QED
    BY <2>1, <2>2
<1>21. ASSUME NEW j \in 1 .. k PROVE v[m + j] = y[j]
  <2>1. m + j \in 1 .. m + k /\ c[m + j] = b[j]
    BY <1>10
  <2>2. v[m + j] = s[c[m + j]] /\ y[j] = s[b[j]]
    BY <1>19a, <2>1
  <2> QED
    BY <2>1, <2>2
<1>22. v = x \o y
  <2>1. /\ x \o y \in Seq(X) /\ Len(x \o y) = m + k
        /\ \A j \in 1 .. m : (x \o y)[j] = x[j]
        /\ \A j \in 1 .. k : (x \o y)[m + j] = y[j]
    <3>1. /\ x \o y \in Seq(X) /\ Len(x \o y) = Len(x) + Len(y)
          /\ \A j \in 1 .. Len(x) : (x \o y)[j] = x[j]
          /\ \A j \in 1 .. Len(y) : (x \o y)[Len(x) + j] = y[j]
      BY ConcatPlaces
    <3> QED
      BY <1>19, <3>1
  <2>2. PICK w_ : w_ = x \o y
    OBVIOUS
  <2>3. \A j \in 1 .. m + k : v[j] = w_[j]
    <3> SUFFICES ASSUME NEW j \in 1 .. m + k PROVE v[j] = w_[j]
      OBVIOUS
    <3>1. j \in 1 .. m \/ (j - m \in 1 .. k /\ j = m + (j - m))
      BY <1>7
    <3> QED
      BY <1>20, <1>21, <2>1, <2>2, <3>1
  <2>4. PICK n \in Nat : n = m + k
    OBVIOUS
  <2>5. v \in Seq(X) /\ w_ \in Seq(X) /\ Len(v) = n /\ Len(w_) = n /\ \A j \in 1 .. n : v[j] = w_[j]
    BY <1>16, <1>19, <2>1, <2>2, <2>3, <2>4
  <2>6. v = w_
    BY <2>5
  <2> QED
    BY <2>2, <2>6
<1> QED
  BY <1>16, <1>17, <1>18, <1>22

LEMMA AtOne ==
  ASSUME NEW X, NEW s \in Seq(X), NEW i \in DOMAIN s
  PROVE  At(s, {i}) = <<s[i]>> /\ s[i] \in X
<1>1. i \in Nat
  OBVIOUS
<1>2. PICK a : a = [k \in 1 .. 1 |-> i]
  OBVIOUS
<1>3. Rising(a, 1, {i})
  <2>1. a \in [1 .. 1 -> {i}] /\ a[1] = i /\ 1 \in 1 .. 1
    BY <1>2
  <2>2. \A j, k \in 1 .. 1 : ~(j < k)
    OBVIOUS
  <2> QED
    BY <2>1, <2>2 DEF Rising
<1>4. PICK S \in SUBSET DOMAIN s : S = {i}
  OBVIOUS
<1>5. At(s, S) = [k \in 1 .. 1 |-> s[a[k]]] /\ At(s, S) \in Seq(X) /\ Len(At(s, S)) = 1
  <2>1. Rising(a, 1, S)
    BY <1>3, <1>4
  <2>2. PICK m \in Nat : m = 1
    OBVIOUS
  <2>3. Rising(a, m, S)
    BY <2>1, <2>2
  <2>4. At(s, S) = [k \in 1 .. m |-> s[a[k]]] /\ At(s, S) \in Seq(X) /\ Len(At(s, S)) = m
    BY <2>3, AtRising
  <2> QED
    BY <2>2, <2>4
<1>6. \A k \in 1 .. 1 : s[a[k]] = s[i]
  BY <1>2
<1>7. [k \in 1 .. 1 |-> s[a[k]]] = <<s[i]>>
  BY <1>6
<1> QED
  BY <1>4, <1>5, <1>7

LEMMA AtNone ==
  ASSUME NEW X, NEW s \in Seq(X)
  PROVE  At(s, {}) = <<>>
<1>1. PICK a : a = [k \in 1 .. 0 |-> 0]
  OBVIOUS
<1>2. Rising(a, 0, {})
  BY <1>1 DEF Rising
<1>3. At(s, {}) = [k \in 1 .. 0 |-> s[a[k]]] /\ At(s, {}) \in Seq(X) /\ Len(At(s, {})) = 0
  <2>1. {} \in SUBSET DOMAIN s /\ 0 \in Nat
    OBVIOUS
  <2> QED
    BY <1>2, <2>1, AtRising
<1> QED
  BY <1>3

(* Places of a list that grows by one.                                     *)
LEMMA AtGrown ==
  ASSUME NEW X, NEW s \in Seq(X), NEW x \in X, NEW S \in SUBSET DOMAIN s
  PROVE  /\ At(s \o <<x>>, S) = At(s, S)
         /\ At(s \o <<x>>, S \cup {Len(s) + 1}) = At(s, S) \o <<x>>
<1>1. PICK t \in Seq(X) : t = s \o <<x>>
  <2>1. <<x>> \in Seq(X)
    OBVIOUS
  <2>2. s \o <<x>> \in Seq(X)
    BY <2>1, ConcatPlaces
  <2> QED
    BY <2>2
<1>2. PICK n \in Nat : n = Len(s) /\ DOMAIN s = 1 .. n
  OBVIOUS
<1>3. DOMAIN t = 1 .. n + 1 /\ t[n + 1] = x /\ \A i \in 1 .. n : t[i] = s[i]
  BY <1>1, <1>2
<1>4. PICK m \in Nat : \E b : Rising(b, m, S)
  BY SomeRising
<1>5. PICK a : Rising(a, m, S)
  BY <1>4
<1>6. PICK T \in SUBSET DOMAIN t : T = S
  BY <1>2, <1>3
<1>7. At(t, T) = [k \in 1 .. m |-> t[a[k]]] /\ At(t, T) \in Seq(X) /\ Len(At(t, T)) = m
  <2>1. Rising(a, m, T)
    BY <1>5, <1>6
  <2> QED
    BY <2>1, AtRising
<1>8. At(s, S) = [k \in 1 .. m |-> s[a[k]]] /\ At(s, S) \in Seq(X) /\ Len(At(s, S)) = m
  BY <1>5, AtRising
<1>9. \A k \in 1 .. m : t[a[k]] = s[a[k]]
  <2>1. \A k \in 1 .. m : a[k] \in 1 .. n
    BY <1>2, <1>5 DEF Rising
  <2> QED
    BY <1>3, <2>1
<1>10. At(t, T) = At(s, S)
  BY <1>7, <1>8, <1>9
<1>11. n + 1 \in DOMAIN t
  BY <1>3
<1>12. At(t, {n + 1}) = <<t[n + 1]>> /\ t[n + 1] \in X
  BY <1>11, AtOne
<1>13. At(t, T \cup {n + 1}) = At(t, T) \o At(t, {n + 1})
  <2>1. PICK U \in SUBSET DOMAIN t : U = {n + 1}
    BY <1>11
  <2>2. \A i \in T : \A j \in U : i < j
    BY <1>2, <1>6, <2>1
  <2>3. At(t, T \cup U) = At(t, T) \o At(t, U)
    BY <2>2, AtJoin
  <2> QED
    BY <2>1, <2>3
<1> QED
  BY <1>1, <1>2, <1>3, <1>6, <1>10, <1>12, <1>13

LEMMA SieveLast ==
  ASSUME NEW X, NEW s \in Seq(X), NEW x \in X, NEW P
  PROVE  /\ x \in P => Sieve(s \o <<x>>, P) = Sieve(s, P) \o <<x>>
         /\ x \notin P => Sieve(s \o <<x>>, P) = Sieve(s, P)
         /\ Sieve(s, P) \in Seq(X) /\ s \o <<x>> \in Seq(X)
<1>1. PICK o \in Seq(X) : o = <<x>>
  <2>1. <<x>> \in Seq(X)
    OBVIOUS
  <2> QED
    BY <2>1
<1>2. Sieve(s \o o, P) = Sieve(s, P) \o Sieve(o, P)
  BY SieveJoin
<1>3. /\ (\A i \in DOMAIN o : o[i] \in P) => Sieve(o, P) = o
      /\ (\A i \in DOMAIN o : o[i] \notin P) => Sieve(o, P) = <<>>
  BY SieveIs
<1>4. \A i \in DOMAIN o : o[i] = x
  BY <1>1
<1>5. PICK u \in Seq(X) : u = Sieve(s, P)
  BY SieveIs
<1>6. u \o <<>> = u /\ s \o o \in Seq(X)
  OBVIOUS
<1> QED
  BY <1>1, <1>2, <1>3, <1>4, <1>5, <1>6

LEMMA SieveTwice ==
  ASSUME NEW X, NEW s \in Seq(X), NEW P, NEW Q
  PROVE  Sieve(Sieve(s, P), Q) = Sieve(s, P \cap Q)
<1> DEFINE G == {t \in Seq(X) : Sieve(Sieve(t, P), Q) = Sieve(t, P \cap Q)}
<1>1. <<>> \in G
  BY SieveNone
<1>2. ASSUME NEW t \in G, NEW x \in X PROVE t \o <<x>> \in G
  <2>0. t \in Seq(X) /\ Sieve(Sieve(t, P), Q) = Sieve(t, P \cap Q)
    OBVIOUS
  <2>1. /\ x \in P => Sieve(t \o <<x>>, P) = Sieve(t, P) \o <<x>>
        /\ x \notin P => Sieve(t \o <<x>>, P) = Sieve(t, P)
        /\ Sieve(t, P) \in Seq(X) /\ t \o <<x>> \in Seq(X)
    BY <2>0, SieveLast
  <2>2. /\ x \in P \cap Q => Sieve(t \o <<x>>, P \cap Q) = Sieve(t, P \cap Q) \o <<x>>
        /\ x \notin P \cap Q => Sieve(t \o <<x>>, P \cap Q) = Sieve(t, P \cap Q)
        /\ Sieve(t, P \cap Q) \in Seq(X) /\ t \o <<x>> \in Seq(X)
    BY <2>0, SieveLast
  <2>3. PICK u \in Seq(X) : u = Sieve(t, P)
    BY <2>1
  <2>4. /\ x \in Q => Sieve(u \o <<x>>, Q) = Sieve(u, Q) \o <<x>>
        /\ x \notin Q => Sieve(u \o <<x>>, Q) = Sieve(u, Q)
        /\ Sieve(u, Q) \in Seq(X) /\ u \o <<x>> \in Seq(X)
    BY SieveLast
  <2>5. Sieve(Sieve(t \o <<x>>, P), Q) = Sieve(t \o <<x>>, P \cap Q)
    BY <2>0, <2>1, <2>2, <2>3, <2>4
  <2> QED
    BY <2>1, <2>5
<1> HIDE DEF G
<1>3. ListInductive(G, X)
  <2>1. G \in SUBSET Seq(X)
    BY DEF G
  <2> QED
    BY <1>1, <1>2, <2>1 DEF ListInductive
<1>4. G = Seq(X)
  BY <1>3, ListInduction
<1> QED
  BY <1>4 DEF G

LEMMA SameLength ==
  ASSUME NEW m \in Nat, NEW n \in Nat, NEW q, Renames(q, 1 .. m, 1 .. n)
  PROVE  m = n
<1>1. q \in Bijection(1 .. m, 1 .. n)
  BY DEF Renames, Bijection, Injection, Surjection, IsInjective
<1>2. ExistsBijection(1 .. m, 1 .. n)
  BY <1>1 DEF ExistsBijection
<1>3. IsFiniteSet(1 .. m) /\ Cardinality(1 .. m) = m /\ Cardinality(1 .. n) = n
  BY FS_Interval
<1>4. Cardinality(1 .. n) = Cardinality(1 .. m)
  BY <1>2, <1>3, FS_Bijection
<1> QED
  BY <1>3, <1>4

(* What sorting does: it moves every place once, ranks rise, and equal     *)
(* ranks keep their order.                                                 *)
LEMMA SortedIs ==
  ASSUME NEW X, NEW s \in Seq(X), NEW R, Maps(R, X, Int)
  PROVE  /\ Sorted(s, R) \in Seq(X) /\ Len(Sorted(s, R)) = Len(s) /\ DOMAIN Sorted(s, R) = DOMAIN s
         /\ \E p : /\ Renames(p, DOMAIN s, DOMAIN s) /\ Steady(p, Sorted(s, R), s, R)
         /\ \A j, k \in DOMAIN s : j < k => R[Sorted(s, R)[j]] <= R[Sorted(s, R)[k]]
<1>1. PICK n \in Nat : /\ n = Len(s) /\ DOMAIN s = 1 .. n /\ Mapped(s, R) \in [1 .. n -> Int]
                       /\ \A i \in 1 .. n : Mapped(s, R)[i] = R[s[i]]
  BY RanksAre
<1>2. PICK rs \in [1 .. n -> Int] : rs = Mapped(s, R) /\ \A i \in 1 .. n : rs[i] = R[s[i]]
  BY <1>1
<1>3. PICK a : /\ Renames(a, 1 .. n, 1 .. n) /\ Lists(a, 1 .. n, rs)
               /\ Sorted(s, R) = [k \in 1 .. n |-> s[a[k]]] /\ Sorted(s, R) \in Seq(X)
  <2>1. rs \in [DOMAIN s -> Int]
    BY <1>1
  <2>2. \E b : /\ Renames(b, DOMAIN s, DOMAIN s) /\ Lists(b, DOMAIN s, rs)
               /\ Ordered(s, rs) = [k \in DOMAIN s |-> s[b[k]]]
               /\ Ordered(s, rs) \in Seq(X)
    BY <2>1, SortRenames
  <2> QED
    BY <1>1, <1>2, <2>2 DEF Sorted
<1>4. /\ a \in [1 .. n -> 1 .. n] /\ \A i \in 1 .. n : \E k \in 1 .. n : a[k] = i
      /\ \A j, k \in 1 .. n : j < k => Precedes(rs, a[j], a[k])
  BY <1>3 DEF Lists
<1>5. PICK u \in Seq(X) : u = Sorted(s, R)
  BY <1>3
<1>6. u = [k \in 1 .. n |-> s[a[k]]] /\ \A k \in 1 .. n : u[k] = s[a[k]]
  BY <1>3, <1>5
<1>7. Len(u) = n /\ DOMAIN u = 1 .. n
  BY <1>6
<1>8. ASSUME NEW j \in 1 .. n, NEW k \in 1 .. n, j < k
      PROVE  R[s[a[j]]] <= R[s[a[k]]] /\ (R[s[a[j]]] = R[s[a[k]]] => a[j] < a[k])
  <2>1. a[j] \in 1 .. n /\ a[k] \in 1 .. n /\ Precedes(rs, a[j], a[k])
    BY <1>4, <1>8
  <2>2. rs[a[j]] = R[s[a[j]]] /\ rs[a[k]] = R[s[a[k]]] /\ rs[a[j]] \in Int /\ rs[a[k]] \in Int
    BY <1>2, <1>8, <2>1
  <2> QED
    BY <2>1, <2>2 DEF Precedes
<1>9. Steady(a, u, s, R)
  BY <1>1, <1>4, <1>6, <1>7, <1>8 DEF Steady
<1>10. \A j, k \in 1 .. n : j < k => R[u[j]] <= R[u[k]]
  BY <1>6, <1>8
<1> QED
  BY <1>1, <1>3, <1>5, <1>7, <1>9, <1>10

LEMMA SortedStays ==
  ASSUME NEW X, NEW s \in Seq(X), NEW R, Maps(R, X, Int),
         \A i, j \in DOMAIN s : i < j => R[s[i]] <= R[s[j]]
  PROVE  Sorted(s, R) = s
<1>1. /\ Mapped(s, R) \in Seq(Int) /\ Len(Mapped(s, R)) = Len(s) /\ DOMAIN Mapped(s, R) = DOMAIN s
      /\ \A i \in DOMAIN s : s[i] \in X /\ Mapped(s, R)[i] = R[s[i]]
  BY MappedIs
<1>2. PICK rs \in Seq(Int) : rs = Mapped(s, R)
  BY <1>1
<1>3. DOMAIN rs = DOMAIN s /\ rs \in [DOMAIN s -> Int]
  BY <1>1, <1>2
<1>4. \A i, j \in DOMAIN s : i < j => rs[i] <= rs[j]
  BY <1>1, <1>2
<1>5. Ordered(s, rs) = s
  BY <1>3, <1>4, SortedAlready
<1> QED
  BY <1>2, <1>5 DEF Sorted

(* Sorting what is chosen is choosing from what is sorted.                 *)
LEMMA SieveSorted ==
  ASSUME NEW X, NEW s \in Seq(X), NEW R, Maps(R, X, Int), NEW P
  PROVE  Sieve(Sorted(s, R), P) = Sorted(Sieve(s, P), R)
<1>1. PICK u \in Seq(X) : u = Sorted(s, R) /\ Len(u) = Len(s) /\ DOMAIN u = DOMAIN s
  BY SortedIs
<1>2. PICK p : Renames(p, DOMAIN s, DOMAIN s) /\ Steady(p, u, s, R)
  BY <1>1, SortedIs
<1>3. \A j, k \in DOMAIN s : j < k => R[u[j]] <= R[u[k]]
  BY <1>1, SortedIs
<1>4. PICK n \in Nat : n = Len(s) /\ DOMAIN s = 1 .. n /\ DOMAIN u = 1 .. n
  <2>1. PICK l \in Nat : l = Len(s) /\ DOMAIN s = 1 .. l
    OBVIOUS
  <2> QED
    BY <1>1, <2>1, Zenon
<1>5. /\ p \in [1 .. n -> 1 .. n] /\ \A i \in 1 .. n : \E k \in 1 .. n : p[k] = i
      /\ \A j, k \in 1 .. n : p[j] = p[k] => j = k
      /\ \A k \in 1 .. n : u[k] = s[p[k]]
      /\ \A j, k \in 1 .. n : j < k /\ R[s[p[j]]] = R[s[p[k]]] => p[j] < p[k]
  BY <1>2, <1>4 DEF Renames, Steady
<1>6. PICK S \in SUBSET DOMAIN s : S = {i \in DOMAIN s : s[i] \in P}
  OBVIOUS
<1>7. PICK T \in SUBSET DOMAIN u : T = {i \in DOMAIN u : u[i] \in P}
  OBVIOUS
<1>8. PICK m \in Nat : \E b : Rising(b, m, T)
  BY <1>1, SomeRising
<1>9. PICK a : Rising(a, m, T)
  BY <1>8
<1>10. PICK k0 \in Nat : \E b : Rising(b, k0, S)
  BY SomeRising
<1>11. PICK b : Rising(b, k0, S)
  BY <1>10
<1>12. PICK v \in Seq(X) : v = At(u, T) /\ v = [k \in 1 .. m |-> u[a[k]]] /\ Len(v) = m
  BY <1>9, AtRising
<1>13. PICK w_ \in Seq(X) : w_ = At(s, S) /\ w_ = [k \in 1 .. k0 |-> s[b[k]]] /\ Len(w_) = k0
  BY <1>11, AtRising
<1>14. \A i \in 1 .. n : p[i] \in S <=> i \in T
  BY <1>4, <1>5, <1>6, <1>7
<1>15. \A k \in 1 .. m : a[k] \in T /\ a[k] \in 1 .. n /\ p[a[k]] \in S
  BY <1>4, <1>5, <1>7, <1>9, <1>14 DEF Rising
<1>16. \A j \in 1 .. k0 : b[j] \in S /\ b[j] \in 1 .. n
  BY <1>4, <1>6, <1>11 DEF Rising
<1> DEFINE q == [k \in 1 .. m |-> CHOOSE j \in 1 .. k0 : b[j] = p[a[k]]]
<1>17. ASSUME NEW k \in 1 .. m PROVE q[k] \in 1 .. k0 /\ b[q[k]] = p[a[k]]
  <2>1. \E j \in 1 .. k0 : b[j] = p[a[k]]
    BY <1>11, <1>15 DEF Rising
  <2> QED
    BY <2>1
<1>18. q \in [1 .. m -> 1 .. k0]
  BY <1>17
<1> HIDE DEF q
<1>19. \A j, k \in 1 .. k0 : b[j] < b[k] => j < k
  <2> SUFFICES ASSUME NEW j \in 1 .. k0, NEW k \in 1 .. k0, b[j] < b[k] PROVE j < k
    OBVIOUS
  <2>1. k < j => b[k] < b[j]
    BY <1>11 DEF Rising
  <2>2. b[j] \in Nat /\ b[k] \in Nat
    BY <1>16
  <2> QED
    BY <2>1, <2>2
<1>20. \A j, k \in 1 .. k0 : b[j] = b[k] => j = k
  <2> SUFFICES ASSUME NEW j \in 1 .. k0, NEW k \in 1 .. k0, b[j] = b[k] PROVE j = k
    OBVIOUS
  <2>1. (k < j => b[k] < b[j]) /\ (j < k => b[j] < b[k])
    BY <1>11 DEF Rising
  <2>2. b[j] \in Nat /\ b[k] \in Nat
    BY <1>16
  <2> QED
    BY <2>1, <2>2
<1>21. \A j, k \in 1 .. m : a[j] = a[k] => j = k
  <2> SUFFICES ASSUME NEW j \in 1 .. m, NEW k \in 1 .. m, a[j] = a[k] PROVE j = k
    OBVIOUS
  <2>1. (k < j => a[k] < a[j]) /\ (j < k => a[j] < a[k])
    BY <1>9 DEF Rising
  <2>2. a[j] \in Nat /\ a[k] \in Nat
    BY <1>15
  <2> QED
    BY <2>1, <2>2
<1>22. ASSUME NEW j \in 1 .. k0 PROVE \E k \in 1 .. m : q[k] = j
  <2>1. PICK i \in 1 .. n : p[i] = b[j]
    BY <1>5, <1>16
  <2>2. i \in T
    BY <1>14, <1>16, <2>1
  <2>3. PICK k \in 1 .. m : a[k] = i
    BY <1>9, <2>2 DEF Rising
  <2>4. q[k] \in 1 .. k0 /\ b[q[k]] = b[j]
    BY <1>17, <2>1, <2>3
  <2> QED
    BY <1>20, <2>4
<1>23. ASSUME NEW j \in 1 .. m, NEW k \in 1 .. m, q[j] = q[k] PROVE j = k
  <2>1. p[a[j]] = p[a[k]]
    BY <1>17, <1>23
  <2>2. a[j] = a[k]
    BY <1>5, <1>15, <2>1, ZenonT(30)
  <2> QED
    BY <1>21, <2>2
<1>24. Renames(q, 1 .. m, 1 .. k0)
  <2>1. IsFiniteSet(1 .. m) /\ IsFiniteSet(1 .. k0)
    BY FS_Interval
  <2> QED
    BY <1>18, <1>22, <1>23, <2>1 DEF Renames
<1>25. m = k0
  BY <1>24, SameLength
<1>26. DOMAIN w_ = 1 .. m /\ DOMAIN v = 1 .. m
  BY <1>12, <1>13, <1>25
<1>27. ASSUME NEW k \in 1 .. m PROVE v[k] = w_[q[k]] /\ w_[q[k]] = s[p[a[k]]]
  <2>1. v[k] = u[a[k]] /\ w_[q[k]] = s[b[q[k]]]
    BY <1>12, <1>13, <1>17
  <2>2. b[q[k]] = p[a[k]] /\ a[k] \in 1 .. n
    BY <1>15, <1>17
  <2>3. u[a[k]] = s[p[a[k]]]
    BY <1>5, <2>2
  <2> QED
    BY <2>1, <2>2, <2>3
<1>28. ASSUME NEW j \in 1 .. m, NEW k \in 1 .. m, j < k, R[w_[q[j]]] = R[w_[q[k]]] PROVE q[j] < q[k]
  <2>1. a[j] < a[k]
    BY <1>9, <1>28 DEF Rising
  <2>2. R[s[p[a[j]]]] = R[s[p[a[k]]]]
    BY <1>27, <1>28
  <2>3. p[a[j]] < p[a[k]]
    BY <1>5, <1>15, <2>1, <2>2
  <2> QED
    BY <1>17, <1>19, <2>3
<1>29. Steady(q, v, w_, R)
  BY <1>12, <1>13, <1>18, <1>22, <1>25, <1>26, <1>27, <1>28 DEF Steady
<1>30. Sorted(v, R) = Sorted(w_, R)
  BY <1>29, SortSteady
<1>31. Sorted(v, R) = v
  <2>1. ASSUME NEW i \in DOMAIN v, NEW j \in DOMAIN v, i < j PROVE R[v[i]] <= R[v[j]]
    <3>1. a[i] < a[j] /\ a[i] \in 1 .. n /\ a[j] \in 1 .. n
      BY <1>9, <1>15, <1>26, <2>1 DEF Rising
    <3>2. R[u[a[i]]] <= R[u[a[j]]]
      BY <1>3, <1>4, <3>1
    <3>3. v[i] = u[a[i]] /\ v[j] = u[a[j]]
      BY <1>12, <1>26
    <3> QED
      BY <3>2, <3>3
  <2> QED
    BY <2>1, SortedStays
<1>32. Sieve(u, P) = v /\ Sieve(s, P) = w_
  BY <1>6, <1>7, <1>12, <1>13 DEF Sieve
<1> QED
  BY <1>1, <1>30, <1>31, <1>32

(***************************************************************************)
(* Lists whose elements are some of another's, and what they sum up to     *)
(***************************************************************************)
(* p takes each place of u to one of s, with the same element, once.       *)
Within(p, u, s) ==
  /\ p \in [DOMAIN u -> DOMAIN s]
  /\ \A j, k \in DOMAIN u : p[j] = p[k] => j = k
  /\ \A k \in DOMAIN u : u[k] = s[p[k]]
Inside(u, s) == \E p : Within(p, u, s)

LEMMA AtInside ==
  ASSUME NEW X, NEW s \in Seq(X), NEW S \in SUBSET DOMAIN s
  PROVE  Inside(At(s, S), s)
<1>1. /\ Renames(Ascending(S), DOMAIN At(s, S), S)
      /\ \A k \in DOMAIN At(s, S) : At(s, S)[k] = s[Ascending(S)[k]]
      /\ At(s, S) \in Seq(X)
  BY FilterRenames
<1>2. PICK a : a = Ascending(S)
  OBVIOUS
<1>3. PICK u : u = At(s, S)
  OBVIOUS
<1>4. Within(a, u, s)
  BY <1>1, <1>2, <1>3 DEF Renames, Within
<1> QED
  BY <1>3, <1>4 DEF Inside

LEMMA SortInside ==
  ASSUME NEW X, NEW s \in Seq(X), NEW R, Maps(R, X, Int)
  PROVE  Inside(Sorted(s, R), s)
<1>1. PICK u : u = Sorted(s, R) /\ DOMAIN u = DOMAIN s
  BY SortedIs
<1>2. PICK p : Renames(p, DOMAIN s, DOMAIN s) /\ Steady(p, u, s, R)
  BY <1>1, SortedIs
<1>3. Within(p, u, s)
  BY <1>1, <1>2 DEF Renames, Steady, Within
<1> QED
  BY <1>1, <1>3 DEF Inside

LEMMA InsideTrans ==
  ASSUME NEW u, NEW t, NEW s, Inside(u, t), Inside(t, s)
  PROVE  Inside(u, s)
<1>1. PICK p : Within(p, u, t)
  BY DEF Inside
<1>2. PICK q : Within(q, t, s)
  BY DEF Inside
<1> DEFINE r == [k \in DOMAIN u |-> q[p[k]]]
<1>3. Within(r, u, s)
  BY <1>1, <1>2 DEF Within
<1> QED
  BY <1>3 DEF Inside

LEMMA SumBelow ==
  ASSUME NEW X, NEW u \in Seq(X), NEW Y, NEW s \in Seq(Y), NEW p \in [DOMAIN u -> DOMAIN s],
         \A j, k \in DOMAIN u : p[j] = p[k] => j = k,
         NEW f, \A k \in DOMAIN u : f[k] \in Nat, NEW g, \A i \in DOMAIN s : g[i] \in Nat,
         \A k \in DOMAIN u : f[k] <= g[p[k]]
  PROVE  /\ SumFunctionOnSet(f, DOMAIN u) <= SumFunctionOnSet(g, DOMAIN s)
         /\ SumFunctionOnSet(f, DOMAIN u) \in Nat /\ SumFunctionOnSet(g, DOMAIN s) \in Nat
<1>1. PICK D : D = DOMAIN u /\ IsFiniteSet(D)
  BY PlacesFinite
<1>2. PICK S : S = DOMAIN s /\ IsFiniteSet(S)
  BY PlacesFinite
<1> DEFINE T == {p[k] : k \in D}
<1>3. T \subseteq S /\ IsFiniteSet(T)
  <2>1. T \subseteq S
    BY <1>1, <1>2
  <2> QED
    BY <1>2, <2>1, FS_Subset
<1>4. Renames(p, D, T)
  BY <1>1, <1>3 DEF Renames
<1>5. S \ T \in SUBSET S /\ T \in SUBSET S /\ T \cap (S \ T) = {} /\ T \cup (S \ T) = S
  BY <1>3
<1> HIDE DEF T
<1>6. (\A i \in S : g[i] \in Int) /\ \A i \in S : g[i] >= 0
  BY <1>2
<1>7. SumFunctionOnSet(g, T \cup (S \ T)) = SumFunctionOnSet(g, T) + SumFunctionOnSet(g, S \ T)
  BY <1>2, <1>5, <1>6, SumOfUnion
<1>8. SumFunctionOnSet(g, S \ T) \in Int /\ SumFunctionOnSet(g, S \ T) >= 0
  <2>1. IsFiniteSet(S \ T)
    BY <1>2, <1>5, FS_Subset
  <2>2. (\A i \in S \ T : g[i] \in Int) /\ \A i \in S \ T : g[i] >= 0
    BY <1>6
  <2> QED
    BY <2>1, <2>2, SumType
<1> DEFINE e == [k \in D |-> g[p[k]]]
<1> DEFINE d == [k \in D |-> g[p[k]] - f[k]]
<1>9. \A k \in D : p[k] \in T /\ g[p[k]] \in Nat /\ f[k] \in Nat /\ f[k] <= g[p[k]]
  BY <1>1, <1>4 DEF Renames
<1>10. \A k \in D : e[k] = g[p[k]] /\ e[k] = f[k] + d[k] /\ d[k] \in Int /\ d[k] >= 0 /\ f[k] \in Int /\ f[k] >= 0
  BY <1>9
<1> HIDE DEF e, d
<1>11. SumFunctionOnSet(e, D) = SumFunctionOnSet(g, T)
  <2>1. \A i \in T : g[i] \in Int
    BY <1>3, <1>6
  <2>2. \A k \in D : e[k] = g[p[k]]
    BY <1>10
  <2> QED
    BY <1>4, <2>1, <2>2, SumRenamed
<1>12. SumFunctionOnSet(e, D) = SumFunctionOnSet(f, D) + SumFunctionOnSet(d, D)
  BY <1>1, <1>10, SumAdded, SMTT(30)
<1>13. SumFunctionOnSet(d, D) \in Int /\ SumFunctionOnSet(d, D) >= 0
  BY <1>1, <1>10, SumType
<1>14. SumFunctionOnSet(f, D) \in Int /\ SumFunctionOnSet(f, D) >= 0
  BY <1>1, <1>10, SumType
<1>15. SumFunctionOnSet(f, D) <= SumFunctionOnSet(g, S) /\ SumFunctionOnSet(g, S) \in Nat
  <2>1. PICK x : x = SumFunctionOnSet(f, D)
    OBVIOUS
  <2>2. PICK y : y = SumFunctionOnSet(d, D)
    OBVIOUS
  <2>3. PICK z : z = SumFunctionOnSet(g, S \ T)
    OBVIOUS
  <2>4. x \in Int /\ x >= 0 /\ y \in Int /\ y >= 0 /\ z \in Int /\ z >= 0
    BY <1>8, <1>13, <1>14, <2>1, <2>2, <2>3
  <2>5. SumFunctionOnSet(g, S) = x + y + z
    BY <1>5, <1>7, <1>11, <1>12, <2>1, <2>2, <2>3
  <2>6. x + y + z \in Nat /\ x <= x + y + z
    BY <2>4
  <2> QED
    BY <2>1, <2>5, <2>6
<1> QED
  BY <1>1, <1>2, <1>14, <1>15

(* The sum over a list of values F gives, against those G gives another.   *)
LEMMA InsideSum ==
  ASSUME NEW X, NEW u \in Seq(X), NEW s \in Seq(X), Inside(u, s),
         NEW F, NEW G, \A x \in X : F[x] \in Nat /\ G[x] \in Nat /\ F[x] <= G[x]
  PROVE  /\ SumFunctionOnSet([k \in DOMAIN u |-> F[u[k]]], DOMAIN u)
              <= SumFunctionOnSet([i \in DOMAIN s |-> G[s[i]]], DOMAIN s)
<1>1. PICK p : Within(p, u, s)
  BY DEF Inside
<1> DEFINE f == [k \in DOMAIN u |-> F[u[k]]]
<1> DEFINE g == [i \in DOMAIN s |-> G[s[i]]]
<1>2. \A k \in DOMAIN u : u[k] \in X
  OBVIOUS
<1>3. \A i \in DOMAIN s : s[i] \in X
  OBVIOUS
<1>4. \A k \in DOMAIN u : f[k] \in Nat
  BY <1>2
<1>5. \A i \in DOMAIN s : g[i] \in Nat
  BY <1>3
<1>6. /\ p \in [DOMAIN u -> DOMAIN s]
      /\ \A j, k \in DOMAIN u : p[j] = p[k] => j = k
  BY <1>1 DEF Within
<1>7. \A k \in DOMAIN u : f[k] <= g[p[k]]
  BY <1>1, <1>2, <1>3 DEF Within
<1> HIDE DEF f, g
<1>8. SumFunctionOnSet(f, DOMAIN u) <= SumFunctionOnSet(g, DOMAIN s)
  BY <1>4, <1>5, <1>6, <1>7, SumBelow
<1> QED
  BY <1>8 DEF f, g

LEMMA InsideLength ==
  ASSUME NEW X, NEW u \in Seq(X), NEW s \in Seq(X), Inside(u, s)
  PROVE  Len(u) <= Len(s)
<1>1. PICK p : Within(p, u, s)
  BY DEF Inside
<1>2. IsFiniteSet(DOMAIN u) /\ IsFiniteSet(DOMAIN s) /\ Cardinality(DOMAIN u) = Len(u) /\ Cardinality(DOMAIN s) = Len(s)
  BY PlacesFinite
<1>3. p \in Injection(DOMAIN u, DOMAIN s)
  BY <1>1 DEF Within, Injection, IsInjective
<1>4. Cardinality(DOMAIN u) <= Cardinality(DOMAIN s)
  BY <1>2, <1>3, FS_Injection DEF ExistsInjection
<1> QED
  BY <1>2, <1>4

(***************************************************************************)
(* The walk of computeTurnStats, by the items                              *)
(***************************************************************************)
NotOpen == [open |-> FALSE, cur |-> <<>>, turns |-> <<>>]
SameTo(s, t, n) == \A i \in 1 .. n : s[i] = t[i]
WalkStep(items, g, n) == IF n = 0 THEN NotOpen ELSE TurnStep(g[n - 1], items[n])
WalkGoes(items, g) == g = [n \in 0 .. Len(items) |-> WalkStep(items, g, n)]

(* The walk over the items is a function over their number.                *)
LEMMA WalkUnfolds ==
  ASSUME NEW items
  PROVE  TurnWalk(items) = (CHOOSE g : WalkGoes(items, g))[Len(items)]
BY DEF TurnWalk, WalkGoes, WalkStep, NotOpen

(* There is such a function.                                               *)
LEMMA WalkExists ==
  ASSUME NEW items, Len(items) \in Nat
  PROVE  \E g : WalkGoes(items, g)
<1> DEFINE Part(n, g) == g = [i \in 0 .. n |-> WalkStep(items, g, i)]
           T == {n \in Nat : ~ \E g : Part(n, g)}
<1>1. T = {}
  <2>1. SUFFICES ASSUME T # {} PROVE FALSE
    OBVIOUS
  <2>2. PICK n \in T : \A k \in T : n <= k
    BY <2>1, LeastNat
  <2>3. n # 0
    <3> DEFINE g == [i \in 0 .. 0 |-> NotOpen]
    <3>1. g = [i \in 0 .. 0 |-> WalkStep(items, g, i)]
      <4>1. \A i \in 0 .. 0 : WalkStep(items, g, i) = NotOpen
        BY DEF WalkStep
      <4> QED
        BY <4>1
    <3>2. Part(0, g)
      BY <3>1, Zenon
    <3> QED
      BY <3>2
  <2> HIDE DEF Part
  <2>4. n - 1 \in Nat /\ n - 1 \notin T
    <3>1. n \in Nat /\ ~(n <= n - 1)
      OBVIOUS
    <3> QED
      BY <3>1, <2>2, <2>3
  <2>5. PICK g : Part(n - 1, g)
    BY <2>4
  <2> USE DEF Part
  <2> DEFINE h == [i \in 0 .. n |-> IF i = n THEN WalkStep(items, g, n) ELSE g[i]]
  <2>6. ASSUME NEW i \in 0 .. n PROVE h[i] = WalkStep(items, h, i)
    <3>1. n \in Nat
      BY <2>2
    <3>2. i = 0 \/ (i - 1 \in 0 .. n - 1 /\ i - 1 \in 0 .. n /\ i - 1 # n)
      BY <3>1
    <3>3. WalkStep(items, h, i) = WalkStep(items, g, i)
      BY <3>2 DEF WalkStep
    <3>4. CASE i = n
      BY <3>3, <3>4
    <3>5. CASE i # n
      <4>1. i \in 0 .. n - 1
        BY <3>1, <3>5
      <4>2. g[i] = WalkStep(items, g, i)
        BY <4>1, <2>5
      <4> QED
        BY <4>2, <3>3, <3>5
    <3> QED
      BY <3>4, <3>5
  <2>7. Part(n, h)
    BY <2>6
  <2> QED
    BY <2>7, <2>2
<1> QED
  BY <1>1 DEF WalkGoes

SameAt(g, h, n) == g[n] = h[n]

(* It depends on the items so far alone.                                   *)
LEMMA WalkAlike ==
  ASSUME NEW ss, NEW tt, NEW g, NEW h, Len(ss) \in Nat, Len(tt) \in Nat,
         WalkGoes(ss, g), WalkGoes(tt, h), NEW n \in Nat, n <= Len(ss), n <= Len(tt),
         SameTo(ss, tt, n)
  PROVE  SameAt(g, h, n)
<1> USE DEF SameTo, SameAt
<1> DEFINE T == {i \in Nat : i \in 0 .. n /\ g[i] # h[i]}
<1>1. SUFFICES ASSUME T # {} PROVE FALSE
  <2>1. n \in 0 .. n
    OBVIOUS
  <2> QED
    BY <2>1, Zenon
<1>2. PICK i \in T : \A k \in T : i <= k
  BY <1>1, LeastNat
<1>3. i \in 0 .. n /\ i \in 0 .. Len(ss) /\ i \in 0 .. Len(tt)
  OBVIOUS
<1>4. g[i] = WalkStep(ss, g, i) /\ h[i] = WalkStep(tt, h, i)
  BY <1>3 DEF WalkGoes
<1>5. i = 0 \/ (g[i - 1] = h[i - 1] /\ i \in 1 .. n)
  <2>1. i = 0 \/ (i \in 1 .. n /\ i - 1 \in 0 .. n /\ ~(i <= i - 1) /\ i - 1 \in Nat)
    BY <1>3
  <2> QED
    BY <2>1, <1>2
<1> QED
  BY <1>3, <1>4, <1>5 DEF WalkStep

(* One more item is one more step.                                         *)
LEMMA WalkGrown ==
  ASSUME NEW R, NEW items \in Seq(R), NEW x
  PROVE  TurnWalk(Append(items, x)) = TurnStep(TurnWalk(items), x)
<1> PICK tt : tt = Append(items, x)
  OBVIOUS
<1> PICK m \in Nat : m = Len(items)
  OBVIOUS
<1>1. /\ Len(items) = m /\ Len(tt) = m + 1 /\ m + 1 \in Nat /\ m + 1 # 0 /\ m + 1 - 1 = m
      /\ tt[m + 1] = x /\ \A i \in 1 .. m : tt[i] = items[i]
  OBVIOUS
<1> PICK h : h = CHOOSE u : WalkGoes(tt, u)
  OBVIOUS
<1> PICK g : g = CHOOSE u : WalkGoes(items, u)
  OBVIOUS
<1>2. WalkGoes(tt, h) /\ WalkGoes(items, g)
  <2>1. (\E u : WalkGoes(tt, u)) /\ (\E u : WalkGoes(items, u))
    BY <1>1, WalkExists
  <2> QED
    BY <2>1
<1>3. TurnWalk(tt) = h[m + 1] /\ TurnWalk(items) = g[m]
  BY <1>1, WalkUnfolds
<1>4. h[m + 1] = WalkStep(tt, h, m + 1)
  <2>1. m + 1 \in 0 .. Len(tt)
    BY <1>1
  <2> QED
    BY <2>1, <1>2 DEF WalkGoes
<1>5. SameAt(g, h, m)
  <2>1. /\ m <= Len(items) /\ m <= Len(tt) /\ Len(items) \in Nat /\ Len(tt) \in Nat
        /\ SameTo(items, tt, m)
    BY <1>1 DEF SameTo
  <2> QED
    BY <2>1, <1>2, WalkAlike, Zenon
<1>6. WalkStep(tt, h, m + 1) = TurnStep(h[m], x)
  <2> PICK k : k = m + 1
    OBVIOUS
  <2>1. k # 0 /\ k - 1 = m /\ tt[k] = x
    BY <1>1
  <2>2. WalkStep(tt, h, k) = TurnStep(h[m], x)
    BY <2>1, Zenon DEF WalkStep
  <2> QED
    BY <2>2
<1> QED
  BY <1>3, <1>4, <1>5, <1>6 DEF SameAt

LEMMA WalkNone == TurnWalk(<<>>) = NotOpen
<1> PICK none : none = <<>>
  OBVIOUS
<1>1. Len(none) = 0
  OBVIOUS
<1>2. PICK g : g = CHOOSE u : WalkGoes(none, u)
  OBVIOUS
<1>3. WalkGoes(none, g)
  <2>1. \E u : WalkGoes(none, u)
    BY <1>1, WalkExists
  <2> QED
    BY <2>1, <1>2
<1>4. g[0] = WalkStep(none, g, 0)
  <2>1. 0 \in 0 .. Len(none)
    BY <1>1
  <2> QED
    BY <2>1, <1>3 DEF WalkGoes
<1> QED
  BY <1>1, <1>2, <1>4, WalkUnfolds DEF WalkStep

(***************************************************************************)
(* Where the turns of a list of records end, by the lines of the texts     *)
(***************************************************************************)
(* Behind a text, and the last of all or before another text.              *)
EndsAfter(us, b) ==
  {i \in DOMAIN us : /\ \E x \in b : x <= us[i].line
                     /\ i < Len(us) => \E x \in b : us[i].line < x /\ x <= us[i + 1].line}

(* One record more; and the last record is in the turn of the last text.   *)
Longer(vs, us, y) == vs = us \o <<y>>
UpTo(b, l) == \A x \in b : x <= l
InLastTurn(us, b) == us # <<>> /\ UpTo(b, us[Len(us)].line)

LEMMA EndsNone ==
  ASSUME NEW us \in Seq(AnyUse)
  PROVE  EndsAfter(us, {}) = {}
BY DEF EndsAfter

(* A text behind all records ends no turn before it.                       *)
LEMMA EndsText ==
  ASSUME NEW us \in Seq(AnyUse), NEW b \in SUBSET Int, NEW x \in Int, \A i \in DOMAIN us : us[i].line < x
  PROVE  EndsAfter(us, b \cup {x}) = EndsAfter(us, b)
<1>1. PICK n \in Nat : n = Len(us) /\ DOMAIN us = 1 .. n
  OBVIOUS
<1>2. \A i \in 1 .. n : us[i].line \in Int /\ us[i].line < x
  <2>1. \A i \in 1 .. n : us[i] \in AnyUse
    BY <1>1
  <2> QED
    BY <1>1, <2>1, UseRowFields
<1>3. ASSUME NEW i \in 1 .. n
      PROVE  /\ (\E z \in b \cup {x} : z <= us[i].line) <=> \E z \in b : z <= us[i].line
             /\ i < n => ((\E z \in b \cup {x} : us[i].line < z /\ z <= us[i + 1].line)
                            <=> \E z \in b : us[i].line < z /\ z <= us[i + 1].line)
  <2>1. ~(x <= us[i].line)
    BY <1>2
  <2>2. i < n => ~(x <= us[i + 1].line)
    <3>1. i < n => i + 1 \in 1 .. n
      OBVIOUS
    <3>2. i < n => us[i + 1].line \in Int /\ us[i + 1].line < x
      BY <1>2, <3>1
    <3> QED
      BY <3>2
  <2> QED
    BY <2>1, <2>2
<1> QED
  BY <1>1, <1>3 DEF EndsAfter

(* A record behind all texts ends the last turn, or one of its own.        *)
LEMMA EndsUse ==
  ASSUME NEW us \in Seq(AnyUse), NEW b \in SUBSET Int, b # {}, NEW y \in AnyUse, NEW n \in Nat, n = Len(us),
         UpTo(b, y.line), NEW E, E = EndsAfter(us, b), NEW vs, Longer(vs, us, y)
  PROVE  /\ E \in SUBSET (1 .. n)
         /\ InLastTurn(us, b) =>
              n \in E /\ EndsAfter(vs, b) = (E \ {n}) \cup {n + 1}
         /\ ~InLastTurn(us, b) => EndsAfter(vs, b) = E \cup {n + 1}
<1>1. DOMAIN us = 1 .. n
  OBVIOUS
<1>2. y.line \in Int
  BY UseRowFields
<1>3. \A i \in 1 .. n : us[i].line \in Int
  <2>1. \A i \in 1 .. n : us[i] \in AnyUse
    BY <1>1
  <2> QED
    BY <2>1, UseRowFields
<1>4. /\ Len(vs) = n + 1 /\ DOMAIN vs = 1 .. n + 1 /\ vs[n + 1] = y
      /\ \A i \in 1 .. n : vs[i] = us[i]
  <2>1. <<y>> \in Seq(AnyUse) /\ Len(<<y>>) = 1 /\ <<y>>[1] = y
    OBVIOUS
  <2> USE DEF Longer
  <2> PICK o \in Seq(AnyUse) : o = <<y>>
    BY <2>1
  <2>2. /\ us \o o \in Seq(AnyUse) /\ Len(us \o o) = Len(us) + Len(o)
        /\ \A j \in 1 .. Len(us) : (us \o o)[j] = us[j]
        /\ \A j \in 1 .. Len(o) : (us \o o)[Len(us) + j] = o[j]
    BY ConcatPlaces
  <2>3. 1 \in 1 .. Len(o)
    BY <2>1
  <2> QED
    BY <2>1, <2>2, <2>3
<1> DEFINE A(i) == \E x \in b : x <= us[i].line
           Z(i) == \E x \in b : us[i].line < x /\ x <= us[i + 1].line
           L(i) == \E x \in b : us[i].line < x
<1>5. E = {i \in 1 .. n : A(i) /\ (i < n => Z(i))}
  BY <1>1 DEF EndsAfter
<1>6. ASSUME NEW i \in 1 .. n
      PROVE  i \in EndsAfter(vs, b) <=> A(i) /\ (i < n => Z(i)) /\ (i = n => L(i))
  <2>1. /\ i \in DOMAIN vs /\ i < Len(vs) /\ vs[i] = us[i]
    BY <1>4
  <2>2. i \in EndsAfter(vs, b) <=> A(i) /\ \E x \in b : us[i].line < x /\ x <= vs[i + 1].line
    BY <2>1 DEF EndsAfter
  <2>3. CASE i < n
    <3>1. i + 1 \in 1 .. n
      BY <2>3
    <3>2. vs[i + 1] = us[i + 1]
      BY <1>4, <3>1
    <3> QED
      BY <2>2, <2>3, <3>2
  <2>4. CASE i = n
    <3>1. vs[i + 1] = y
      BY <1>4, <2>4
    <3> QED
      BY <2>2, <2>4, <3>1 DEF UpTo
  <2> QED
    BY <2>3, <2>4
<1>7. n + 1 \in EndsAfter(vs, b)
  <2>1. n + 1 \in DOMAIN vs /\ ~(n + 1 < Len(vs)) /\ vs[n + 1] = y
    BY <1>4
  <2>2. PICK x \in b : x <= y.line
    BY DEF UpTo
  <2> QED
    BY <2>1, <2>2 DEF EndsAfter
<1>8. EndsAfter(vs, b) \subseteq 1 .. n + 1
  BY <1>4 DEF EndsAfter
<1>9. E \in SUBSET (1 .. n)
  BY <1>5
<1>10. \A i \in 1 .. n + 1 : i \in 1 .. n \/ i = n + 1
  OBVIOUS
<1>11. ~(n + 1 \in 1 .. n)
  OBVIOUS
<1>12. ASSUME InLastTurn(us, b)
       PROVE  n \in E /\ EndsAfter(vs, b) = (E \ {n}) \cup {n + 1}
  <2>1. n \in 1 .. n /\ \A x \in b : x <= us[n].line
    BY <1>12 DEF InLastTurn, UpTo
  <2>2. A(n) /\ ~L(n)
    <3>1. PICK l \in Int : l = us[n].line
      BY <1>3, <2>1
    <3>2. \A x \in b : x <= l /\ x \in Int
      BY <2>1, <3>1
    <3>3. \A x \in b : ~(l < x)
      BY <3>2
    <3>4. \E x \in b : x <= l
      BY <3>2
    <3> QED
      BY <3>1, <3>3, <3>4
  <2>3. n \in E /\ n \notin EndsAfter(vs, b)
    BY <1>5, <1>6, <2>1, <2>2
  <2>4. \A i \in 1 .. n : i # n => (i \in EndsAfter(vs, b) <=> i \in E)
    BY <1>5, <1>6
  <2> HIDE DEF A, Z, L
  <2> QED
    BY <1>7, <1>8, <1>9, <1>10, <2>3, <2>4
<1>13. ASSUME ~InLastTurn(us, b)
       PROVE  EndsAfter(vs, b) = E \cup {n + 1}
  <2>1. ASSUME NEW i \in 1 .. n PROVE i \in EndsAfter(vs, b) <=> i \in E
    <3>1. i = n => L(i)
      <4>1. us # <<>>
        BY <1>1
      <4>2. i = n => us[n].line \in Int
        BY <1>3
      <4> QED
        BY <1>13, <4>1, <4>2 DEF InLastTurn, UpTo
    <3> QED
      BY <1>5, <1>6, <3>1
  <2> HIDE DEF A, Z, L
  <2> QED
    BY <1>7, <1>8, <1>9, <1>10, <2>1
<1> QED
  BY <1>9, <1>12, <1>13

(* What stands there when one more record comes.                           *)
LEMMA EndsGrown ==
  ASSUME NEW us \in Seq(AnyUse), NEW b \in SUBSET Int, b # {}, NEW y \in AnyUse, NEW n \in Nat, n = Len(us),
         UpTo(b, y.line)
  PROVE  /\ InLastTurn(us, b) =>
              \E r \in Seq(AnyUse) : \E z \in AnyUse :
                 /\ At(us, EndsAfter(us, b)) = r \o <<z>>
                 /\ At(us \o <<y>>, EndsAfter(us \o <<y>>, b)) = r \o <<y>>
         /\ ~InLastTurn(us, b) =>
              At(us \o <<y>>, EndsAfter(us \o <<y>>, b)) = At(us, EndsAfter(us, b)) \o <<y>>
<1>1. PICK E : E = EndsAfter(us, b)
  OBVIOUS
<1>2. PICK vs : vs = us \o <<y>>
  OBVIOUS
<1>3. /\ E \in SUBSET (1 .. n)
      /\ InLastTurn(us, b) =>
           n \in E /\ EndsAfter(vs, b) = (E \ {n}) \cup {n + 1}
      /\ ~InLastTurn(us, b) => EndsAfter(vs, b) = E \cup {n + 1}
  <2>1. Longer(vs, us, y)
    BY <1>2 DEF Longer
  <2> QED
    BY <1>1, <2>1, EndsUse
<1>4. DOMAIN us = 1 .. n
  OBVIOUS
<1>5. PICK D \in SUBSET DOMAIN us : D = E
  BY <1>3, <1>4
<1>6. PICK F \in SUBSET DOMAIN us : F = E \ {n}
  BY <1>3, <1>4
<1>7. At(vs, F \cup {n + 1}) = At(us, F) \o <<y>>
  <2>1. At(us \o <<y>>, F \cup {Len(us) + 1}) = At(us, F) \o <<y>>
    BY AtGrown, ZenonT(30)
  <2> QED
    BY <1>2, <2>1
<1>8. At(vs, D \cup {n + 1}) = At(us, D) \o <<y>>
  <2>1. At(us \o <<y>>, D \cup {Len(us) + 1}) = At(us, D) \o <<y>>
    BY AtGrown, ZenonT(30)
  <2> QED
    BY <1>2, <2>1
<1>9. ASSUME InLastTurn(us, b)
      PROVE  \E r \in Seq(AnyUse) : \E z \in AnyUse :
                 At(us, E) = r \o <<z>> /\ At(vs, EndsAfter(vs, b)) = r \o <<y>>
  <2>1. n \in E /\ EndsAfter(vs, b) = F \cup {n + 1}
    BY <1>3, <1>6, <1>9
  <2>2. PICK O \in SUBSET DOMAIN us : O = {n}
    BY <1>4, <1>5, <2>1
  <2>3. At(us, {n}) = <<us[n]>> /\ us[n] \in AnyUse
    <3>1. n \in DOMAIN us
      BY <2>2
    <3> QED
      BY <3>1, AtOne
  <2>4. \A i \in F : \A j \in O : i < j
    BY <1>3, <1>6, <2>2
  <2>5. At(us, F \cup O) = At(us, F) \o At(us, O)
    BY <2>4, AtJoin
  <2>6. F \cup O = E
    BY <1>6, <2>1, <2>2
  <2>7. At(us, F) \in Seq(AnyUse)
    <3>1. PICK m \in Nat : \E a : Rising(a, m, F)
      BY SomeRising
    <3>2. PICK a : Rising(a, m, F)
      BY <3>1
    <3>3. At(us, F) = [k \in 1 .. m |-> us[a[k]]] /\ At(us, F) \in Seq(AnyUse) /\ Len(At(us, F)) = m
      BY <3>2, AtRising
    <3> QED
      BY <3>3
  <2>8. At(us, E) = At(us, F) \o <<us[n]>> /\ At(vs, EndsAfter(vs, b)) = At(us, F) \o <<y>>
    BY <1>7, <2>1, <2>2, <2>3, <2>5, <2>6
  <2> QED
    BY <2>3, <2>7, <2>8
<1>10. ~InLastTurn(us, b) => At(vs, EndsAfter(vs, b)) = At(us, E) \o <<y>>
  BY <1>3, <1>5, <1>8
<1> QED
  BY <1>1, <1>2, <1>9, <1>10

(***************************************************************************)
(* The items of the walk, and what it has seen                             *)
(***************************************************************************)
UseItems  == {[line |-> u.line, of |-> <<u>>] : u \in AnyUse}
TextItems == {[line |-> l, of |-> <<>>] : l \in Int}
Item     == UseItems \cup TextItems
ItemLine == [x \in Item |-> x.line]
TheUse   == [x \in UseItems |-> x.of[1]]

(* The records among the items, and the lines of the texts.                *)
Walked(t)    == Mapped(Sieve(t, UseItems), TheUse)
TextLines(t) == {t[k].line : k \in {j \in DOMAIN t : t[j].of = <<>>}}

(* The lines do not fall, and texts come before records of their line.     *)
InWalkOrder(t) ==
  \A j, k \in DOMAIN t : j < k =>
    t[j].line <= t[k].line /\ (t[j].line = t[k].line /\ t[k].of = <<>> => t[j].of = <<>>)

LEMMA ItemsAre ==
  /\ \A x \in Item : x.line \in Int /\ (x \in UseItems <=> x.of # <<>>) /\ ItemLine[x] = x.line
  /\ \A x \in UseItems : \E u \in AnyUse : x.of = <<u>> /\ x.line = u.line /\ TheUse[x] = u
  /\ \A u \in AnyUse : [line |-> u.line, of |-> <<u>>] \in UseItems
                         /\ TheUse[[line |-> u.line, of |-> <<u>>]] = u
  /\ Maps(TheUse, UseItems, AnyUse) /\ Maps(ItemLine, Item, Int)
<1>1. ASSUME NEW x \in UseItems
      PROVE  x.line \in Int /\ x.of # <<>> /\ \E u \in AnyUse : x.of = <<u>> /\ x.line = u.line /\ TheUse[x] = u
  <2>1. PICK u \in AnyUse : x = [line |-> u.line, of |-> <<u>>]
    BY DEF UseItems
  <2>2. x.of = <<u>> /\ x.line = u.line /\ u.line \in Int
    BY <2>1, UseRowFields
  <2>3. TheUse[x] = x.of[1]
    BY DEF TheUse
  <2>4. x.of[1] = u /\ x.of # <<>>
    BY <2>2
  <2> QED
    BY <2>2, <2>3, <2>4
<1>2. ASSUME NEW x \in TextItems PROVE x.line \in Int /\ x.of = <<>>
  BY DEF TextItems
<1>3. ASSUME NEW x \in Item PROVE x.line \in Int /\ (x \in UseItems <=> x.of # <<>>) /\ ItemLine[x] = x.line
  <2>1. ItemLine[x] = x.line
    BY DEF ItemLine
  <2> QED
    BY <1>1, <1>2, <2>1 DEF Item
<1>4. ASSUME NEW u \in AnyUse
      PROVE  /\ [line |-> u.line, of |-> <<u>>] \in UseItems
             /\ TheUse[[line |-> u.line, of |-> <<u>>]] = u
  <2>1. PICK x : x = [line |-> u.line, of |-> <<u>>]
    OBVIOUS
  <2>2. x \in UseItems
    BY <2>1 DEF UseItems
  <2>3. TheUse[x] = x.of[1]
    BY <2>2 DEF TheUse
  <2>4. x.of[1] = u
    BY <2>1
  <2> QED
    BY <2>1, <2>2, <2>3, <2>4
<1>5. Maps(TheUse, UseItems, AnyUse)
  <2>1. \A x \in UseItems : x.of[1] \in AnyUse
    <3> SUFFICES ASSUME NEW x \in UseItems PROVE x.of[1] \in AnyUse
      OBVIOUS
    <3>1. PICK u \in AnyUse : x.of = <<u>>
      BY <1>1
    <3> QED
      BY <3>1
  <2> QED
    BY <2>1 DEF Maps, TheUse
<1>6. Maps(ItemLine, Item, Int)
  BY <1>3 DEF Maps, ItemLine
<1> QED
  BY <1>1, <1>3, <1>4, <1>5, <1>6

LEMMA SieveOf ==
  ASSUME NEW X, NEW s \in Seq(X), NEW P
  PROVE  Sieve(s, P) \in Seq(P)
<1>1. PICK u \in Seq(X) : u = Sieve(s, P) /\ \A k \in DOMAIN u : u[k] \in P
  BY SieveIs
<1>2. u \in Seq(P)
  BY <1>1
<1> QED
  BY <1>1, <1>2

LEMMA WalkedGrown ==
  ASSUME NEW t \in Seq(Item), NEW x \in Item
  PROVE  /\ Walked(t) \in Seq(AnyUse) /\ t \o <<x>> \in Seq(Item)
         /\ x \in UseItems => TheUse[x] \in AnyUse /\ Walked(t \o <<x>>) = Walked(t) \o <<TheUse[x]>>
         /\ x \notin UseItems => Walked(t \o <<x>>) = Walked(t)
<1>1. /\ x \in UseItems => Sieve(t \o <<x>>, UseItems) = Sieve(t, UseItems) \o <<x>>
      /\ x \notin UseItems => Sieve(t \o <<x>>, UseItems) = Sieve(t, UseItems)
      /\ Sieve(t, UseItems) \in Seq(Item) /\ t \o <<x>> \in Seq(Item)
  BY SieveLast
<1>2. PICK v \in Seq(UseItems) : v = Sieve(t, UseItems)
  BY SieveOf
<1>3. Maps(TheUse, UseItems, AnyUse)
  BY ItemsAre
<1>4. Mapped(v, TheUse) \in Seq(AnyUse)
  BY <1>3, MappedIs
<1>5. ASSUME x \in UseItems PROVE Mapped(v \o <<x>>, TheUse) = Mapped(v, TheUse) \o <<TheUse[x]>> /\ TheUse[x] \in AnyUse
  <2>1. PICK z \in UseItems : z = x
    BY <1>5
  <2>2. Mapped(v \o <<z>>, TheUse) = Mapped(v, TheUse) \o <<TheUse[z]>> /\ Mapped(v, TheUse) \in Seq(AnyUse) /\ TheUse[z] \in AnyUse
    BY <1>3, MappedLast
  <2> QED
    BY <2>1, <2>2
<1> QED
  BY <1>1, <1>2, <1>4, <1>5 DEF Walked

LEMMA TextLinesGrown ==
  ASSUME NEW t \in Seq(Item), NEW x \in Item
  PROVE  /\ TextLines(t) \in SUBSET Int
         /\ TextLines(t \o <<x>>) = TextLines(t) \cup (IF x.of = <<>> THEN {x.line} ELSE {})
<1>1. PICK n \in Nat : n = Len(t) /\ DOMAIN t = 1 .. n
  OBVIOUS
<1>2. PICK v : v = t \o <<x>>
  OBVIOUS
<1>3. DOMAIN v = 1 .. n + 1 /\ v[n + 1] = x /\ \A k \in 1 .. n : v[k] = t[k]
  BY <1>1, <1>2
<1>4. \A k \in 1 .. n + 1 : k \in 1 .. n \/ k = n + 1
  OBVIOUS
<1>4a. n + 1 \in 1 .. n + 1 /\ \A k \in 1 .. n : k \in 1 .. n + 1
  OBVIOUS
<1>5. TextLines(v) = TextLines(t) \cup (IF x.of = <<>> THEN {x.line} ELSE {})
  <2>1. \A l : l \in TextLines(v) <=> \E k \in 1 .. n + 1 : v[k].of = <<>> /\ l = v[k].line
    BY <1>3 DEF TextLines
  <2>2. \A l : l \in TextLines(t) <=> \E k \in 1 .. n : t[k].of = <<>> /\ l = t[k].line
    BY <1>1 DEF TextLines
  <2>3. \A l : l \in TextLines(v) <=> l \in TextLines(t) \/ (x.of = <<>> /\ l = x.line)
    BY <1>3, <1>4, <1>4a, <2>1, <2>2
  <2> QED
    BY <2>3
<1>6. \A k \in 1 .. n : t[k].line \in Int
  <2>1. \A k \in 1 .. n : t[k] \in Item
    BY <1>1
  <2> QED
    BY <2>1, ItemsAre
<1>7. TextLines(t) \in SUBSET Int
  BY <1>1, <1>6 DEF TextLines
<1> QED
  BY <1>2, <1>5, <1>7

(* Every record of the walk has the line of an item.                       *)
LEMMA WalkedLines ==
  ASSUME NEW t \in Seq(Item), NEW i \in DOMAIN Walked(t)
  PROVE  \E k \in DOMAIN t : t[k].of # <<>> /\ t[k].line = Walked(t)[i].line
<1>1. PICK v \in Seq(UseItems) : v = Sieve(t, UseItems)
  BY SieveOf
<1>2. Inside(v, t)
  <2>1. {j \in DOMAIN t : t[j] \in UseItems} \in SUBSET DOMAIN t
    OBVIOUS
  <2> QED
    BY <1>1, <2>1, AtInside DEF Sieve
<1>3. PICK p : Within(p, v, t)
  BY <1>2 DEF Inside
<1>4. Maps(TheUse, UseItems, AnyUse)
  BY ItemsAre
<1>5. DOMAIN Mapped(v, TheUse) = DOMAIN v /\ \A j \in DOMAIN v : v[j] \in UseItems /\ Mapped(v, TheUse)[j] = TheUse[v[j]]
  <2>1. /\ Mapped(v, TheUse) \in Seq(AnyUse) /\ Len(Mapped(v, TheUse)) = Len(v) /\ DOMAIN Mapped(v, TheUse) = DOMAIN v
        /\ \A j \in DOMAIN v : v[j] \in UseItems /\ Mapped(v, TheUse)[j] = TheUse[v[j]]
    BY <1>4, MappedIs
  <2> QED
    BY <2>1
<1>6. i \in DOMAIN v /\ v[i] \in UseItems /\ Walked(t)[i] = TheUse[v[i]]
  BY <1>1, <1>5 DEF Walked
<1>7. PICK u \in AnyUse : v[i].of = <<u>> /\ v[i].line = u.line /\ TheUse[v[i]] = u
  BY <1>6, ItemsAre
<1>8. p[i] \in DOMAIN t /\ t[p[i]] = v[i]
  BY <1>3, <1>6 DEF Within
<1>9. v[i].of # <<>>
  BY <1>7
<1> QED
  BY <1>6, <1>7, <1>8, <1>9

(* A list with one element more.                                           *)
LEMMA OneMore ==
  ASSUME NEW X, NEW s \in Seq(X), NEW x \in X
  PROVE  /\ s \o <<x>> \in Seq(X) /\ Len(s \o <<x>>) = Len(s) + 1 /\ Len(s) \in Nat
         /\ (s \o <<x>>)[Len(s) + 1] = x /\ \A i \in 1 .. Len(s) : (s \o <<x>>)[i] = s[i]
         /\ s \o <<x>> # <<>> /\ Last(s \o <<x>>) = x /\ Append(s, x) = s \o <<x>>
<1>1. <<x>> \in Seq(X)
  OBVIOUS
<1>2. PICK o \in Seq(X) : o = <<x>>
  BY <1>1
<1>3. Len(o) = 1 /\ o[1] = x
  BY <1>2
<1>4. /\ s \o o \in Seq(X) /\ Len(s \o o) = Len(s) + Len(o)
      /\ \A j \in 1 .. Len(s) : (s \o o)[j] = s[j]
      /\ \A j \in 1 .. Len(o) : (s \o o)[Len(s) + j] = o[j]
  BY ConcatPlaces
<1>5. 1 \in 1 .. Len(o)
  BY <1>3
<1>6. PICK u \in Seq(X) : u = s \o o
  BY <1>4
<1>7. Len(u) = Len(s) + 1 /\ u[Len(s) + 1] = x /\ Len(s) \in Nat /\ \A i \in 1 .. Len(s) : u[i] = s[i]
  BY <1>3, <1>4, <1>5, <1>6
<1>8. u # <<>> /\ Last(u) = x
  BY <1>7 DEF Last
<1>9. Append(s, x) = u
  <2>1. PICK v \in Seq(X) : v = Append(s, x)
    BY AppendProperties
  <2>2. Len(v) = Len(s) + 1 /\ v[Len(s) + 1] = x /\ \A i \in 1 .. Len(s) : v[i] = s[i]
    BY <2>1
  <2>3. \A i \in 1 .. Len(s) + 1 : v[i] = u[i]
    BY <1>7, <2>2
  <2> QED
    BY <1>7, <2>1, <2>2, <2>3
<1> QED
  BY <1>2, <1>6, <1>7, <1>8, <1>9

SameMore(s, x, t, y) == s \o <<x>> = t \o <<y>>
LEMMA OneMoreSame ==
  ASSUME NEW X, NEW s \in Seq(X), NEW x \in X, NEW t \in Seq(X), NEW y \in X, SameMore(s, x, t, y)
  PROVE  s = t
<1>1. PICK u : u = s \o <<x>>
  OBVIOUS
<1>2. Len(u) = Len(s) + 1 /\ Len(s) \in Nat /\ \A i \in 1 .. Len(s) : u[i] = s[i]
  BY <1>1, OneMore
<1>2a. u = t \o <<y>>
  BY <1>1 DEF SameMore
<1>3. Len(u) = Len(t) + 1 /\ Len(t) \in Nat /\ \A i \in 1 .. Len(t) : u[i] = t[i]
  BY <1>2a, OneMore
<1>4. Len(s) = Len(t)
  BY <1>2, <1>3
<1> QED
  BY <1>2, <1>3, <1>4

(***************************************************************************)
(* What the walk holds after some items                                    *)
(***************************************************************************)
Stretch == Seq(AnyUse) \ {<<>>}
LastAt  == [s \in Stretch |-> Last(s)]
OwnLast(cur) == IF cur = <<>> THEN <<>> ELSE <<Last(cur)>>
Lasts(a) == Mapped(a.turns, LastAt) \o OwnLast(a.cur)

(* a is what the walk holds after the records us and texts at the lines b. *)
Sound(a, us, b) ==
  /\ a = [open |-> a.open, cur |-> a.cur, turns |-> a.turns]
  /\ a.turns \in Seq(Stretch) /\ a.cur \in Seq(AnyUse)
  /\ a.open <=> b # {}
  /\ a.cur # <<>> <=> b # {} /\ InLastTurn(us, b)
  /\ Lasts(a) = At(us, EndsAfter(us, b))

LEMMA LastAtIs ==
  /\ Maps(LastAt, Stretch, AnyUse) /\ \A s \in Stretch : LastAt[s] = Last(s)
<1>1. \A s \in Stretch : Last(s) \in AnyUse
  BY DEF Stretch, Last
<1> QED
  BY <1>1 DEF Maps, LastAt

LEMMA SoundStart ==
  ASSUME NEW us \in Seq(AnyUse)
  PROVE  Sound(NotOpen, <<>>, {})
<1>1. <<>> \in Seq(AnyUse) /\ <<>> \in Seq(Stretch)
  OBVIOUS
<1>2. EndsAfter(<<>>, {}) = {}
  BY <1>1, EndsNone
<1>3. At(<<>>, {}) = <<>>
  BY <1>1, AtNone
<1>4. Mapped(<<>>, LastAt) = <<>>
  BY DEF Mapped
<1>5. Lasts(NotOpen) = <<>>
  BY <1>4 DEF Lasts, OwnLast, NotOpen
<1>6. ~InLastTurn(<<>>, {})
  BY DEF InLastTurn
<1> QED
  BY <1>1, <1>2, <1>3, <1>5, <1>6 DEF Sound, NotOpen

LEMMA SoundText ==
  ASSUME NEW a, NEW us \in Seq(AnyUse), NEW b \in SUBSET Int, Sound(a, us, b),
         NEW x \in Item, x.of = <<>>, \A i \in DOMAIN us : us[i].line < x.line
  PROVE  Sound(TurnStep(a, x), us, b \cup {x.line})
<1>1. x.line \in Int
  BY ItemsAre
<1>2. EndsAfter(us, b \cup {x.line}) = EndsAfter(us, b)
  BY <1>1, EndsText
<1>3. PICK c : c = TurnStep(a, x)
  OBVIOUS
<1>4. c = [open |-> TRUE, cur |-> <<>>, turns |-> IF a.cur # <<>> THEN Append(a.turns, a.cur) ELSE a.turns]
  BY <1>3 DEF TurnStep
<1>5. c.open = TRUE /\ c.cur = <<>> /\ c.turns = IF a.cur # <<>> THEN Append(a.turns, a.cur) ELSE a.turns
  BY <1>4
<1>6. a.turns \in Seq(Stretch) /\ a.cur \in Seq(AnyUse) /\ Lasts(a) = At(us, EndsAfter(us, b))
  BY DEF Sound
<1>7. c.turns \in Seq(Stretch) /\ Lasts(c) = Lasts(a)
  <2>1. PICK ts \in Seq(Stretch) : ts = a.turns
    BY <1>6
  <2>2. Mapped(ts, LastAt) \in Seq(AnyUse)
    BY LastAtIs, MappedIs
  <2>3. CASE a.cur = <<>>
    BY <1>5, <1>6, <2>3 DEF Lasts
  <2>4. CASE a.cur # <<>>
    <3>1. PICK s \in Stretch : s = a.cur
      BY <1>6, <2>4 DEF Stretch
    <3>2. Mapped(ts \o <<s>>, LastAt) = Mapped(ts, LastAt) \o <<LastAt[s]>> /\ Mapped(ts, LastAt) \in Seq(AnyUse) /\ LastAt[s] \in AnyUse
      BY LastAtIs, MappedLast
    <3>3. LastAt[s] = Last(a.cur)
      BY <3>1, LastAtIs
    <3>4. c.turns = Append(ts, s) /\ Append(ts, s) \in Seq(Stretch) /\ Append(ts, s) = ts \o <<s>>
      <4>1. Append(ts, s) = ts \o <<s>> /\ ts \o <<s>> \in Seq(Stretch)
        BY OneMore
      <4> QED
        BY <1>5, <2>1, <2>4, <3>1, <4>1
    <3>5. OwnLast(a.cur) = <<LastAt[s]>> /\ OwnLast(c.cur) = <<>>
      BY <1>5, <2>4, <3>3 DEF OwnLast
    <3>6. PICK r \in Seq(AnyUse) : r = Mapped(ts, LastAt) \o <<LastAt[s]>>
      <4>1. PICK g \in Seq(AnyUse) : g = Mapped(ts, LastAt)
        BY <2>2
      <4>2. g \o <<LastAt[s]>> \in Seq(AnyUse)
        BY <3>2, OneMore
      <4> QED
        BY <4>1, <4>2
    <3>7. r \o <<>> = r
      OBVIOUS
    <3>8. Lasts(c) = r /\ Lasts(a) = r
      BY <2>1, <3>2, <3>4, <3>5, <3>6, <3>7 DEF Lasts
    <3> QED
      BY <3>4, <3>8
  <2> QED
    BY <2>3, <2>4
<1>8. ~InLastTurn(us, b \cup {x.line})
  <2> SUFFICES ASSUME us # <<>> PROVE ~UpTo(b \cup {x.line}, us[Len(us)].line)
    BY DEF InLastTurn
  <2>1. Len(us) \in DOMAIN us
    OBVIOUS
  <2>2. us[Len(us)] \in AnyUse
    BY <2>1
  <2>3. us[Len(us)].line \in Int /\ us[Len(us)].line < x.line
    BY <2>1, <2>2, UseRowFields
  <2>4. ~(x.line <= us[Len(us)].line)
    BY <1>1, <2>3
  <2> QED
    BY <2>4 DEF UpTo
<1>9. <<>> \in Seq(AnyUse)
  OBVIOUS
<1> QED
  BY <1>2, <1>3, <1>4, <1>5, <1>6, <1>7, <1>8, <1>9 DEF Sound

LEMMA SoundBefore ==
  ASSUME NEW a, NEW us \in Seq(AnyUse), Sound(a, us, {}), NEW x \in Item, x.of # <<>>, NEW vs \in Seq(AnyUse)
  PROVE  Sound(TurnStep(a, x), vs, {})
<1>1. TurnStep(a, x) = a
  BY DEF TurnStep, Sound
<1>2. EndsAfter(us, {}) = {} /\ EndsAfter(vs, {}) = {}
  BY EndsNone
<1>3. At(us, {}) = <<>> /\ At(vs, {}) = <<>>
  BY AtNone
<1> QED
  BY <1>1, <1>2, <1>3 DEF Sound

LEMMA SoundUse ==
  ASSUME NEW a, NEW us \in Seq(AnyUse), NEW b \in SUBSET Int, b # {}, Sound(a, us, b),
         NEW x \in Item, NEW y \in AnyUse, x.of = <<y>>, UpTo(b, y.line)
  PROVE  Sound(TurnStep(a, x), us \o <<y>>, b)
<1>1. PICK c : c = TurnStep(a, x)
  OBVIOUS
<1>2. /\ a = [open |-> a.open, cur |-> a.cur, turns |-> a.turns]
      /\ a.turns \in Seq(Stretch) /\ a.cur \in Seq(AnyUse) /\ a.open
      /\ a.cur # <<>> <=> InLastTurn(us, b)
      /\ Lasts(a) = At(us, EndsAfter(us, b))
  BY DEF Sound
<1>3. c = [a EXCEPT !.cur = @ \o x.of]
  BY <1>1, <1>2 DEF TurnStep
<1>4. c = [open |-> a.open, cur |-> a.cur \o <<y>>, turns |-> a.turns]
  <2>1. PICK d : d = [open |-> a.open, cur |-> a.cur, turns |-> a.turns]
    OBVIOUS
  <2>2. DOMAIN d = {"open", "cur", "turns"} /\ d.open = a.open /\ d.turns = a.turns
    BY <2>1
  <2>3. PICK v : v = a.cur \o <<y>>
    OBVIOUS
  <2>4. [d EXCEPT !.cur = v] = [open |-> a.open, cur |-> v, turns |-> a.turns]
    BY <2>1
  <2>5. c = [d EXCEPT !.cur = v]
    <3>1. a = d
      BY <1>2, <2>1
    <3>2. a.cur \o x.of = v
      BY <2>3
    <3>3. c = [a EXCEPT !.cur = v]
      BY <1>3, <3>2
    <3> QED
      BY <3>1, <3>3
  <2> QED
    BY <2>3, <2>4, <2>5
<1>6. /\ a.cur \o <<y>> \in Seq(AnyUse) /\ a.cur \o <<y>> # <<>> /\ Last(a.cur \o <<y>>) = y
  <2>1. PICK s \in Seq(AnyUse) : s = a.cur
    BY <1>2
  <2>2. s \o <<y>> \in Seq(AnyUse) /\ s \o <<y>> # <<>> /\ Last(s \o <<y>>) = y
    BY OneMore
  <2> QED
    BY <2>1, <2>2
<1>7. c.open = a.open /\ c.cur = a.cur \o <<y>> /\ c.turns = a.turns
  BY <1>4
<1>8. PICK h \in Seq(AnyUse) : h = Mapped(a.turns, LastAt)
  <2>1. PICK ts \in Seq(Stretch) : ts = a.turns
    BY <1>2
  <2>2. Mapped(ts, LastAt) \in Seq(AnyUse)
    BY LastAtIs, MappedIs
  <2> QED
    BY <2>1, <2>2
<1>9. Lasts(c) = h \o <<y>>
  BY <1>6, <1>7, <1>8 DEF Lasts, OwnLast
<1>10. PICK n \in Nat : n = Len(us)
  OBVIOUS
<1>11. /\ InLastTurn(us, b) =>
            \E r \in Seq(AnyUse) : \E z \in AnyUse :
               /\ At(us, EndsAfter(us, b)) = r \o <<z>>
               /\ At(us \o <<y>>, EndsAfter(us \o <<y>>, b)) = r \o <<y>>
       /\ ~InLastTurn(us, b) =>
            At(us \o <<y>>, EndsAfter(us \o <<y>>, b)) = At(us, EndsAfter(us, b)) \o <<y>>
  BY <1>10, EndsGrown
<1>12. At(us \o <<y>>, EndsAfter(us \o <<y>>, b)) = h \o <<y>>
  <2>1. CASE ~InLastTurn(us, b)
    <3>1. Lasts(a) = h \o <<>>
      BY <1>2, <1>8, <2>1 DEF Lasts, OwnLast
    <3>2. h \o <<>> = h
      OBVIOUS
    <3> QED
      BY <1>2, <1>11, <2>1, <3>1, <3>2
  <2>2. CASE InLastTurn(us, b)
    <3>1. PICK r \in Seq(AnyUse) : \E z \in AnyUse :
               /\ At(us, EndsAfter(us, b)) = r \o <<z>>
               /\ At(us \o <<y>>, EndsAfter(us \o <<y>>, b)) = r \o <<y>>
      BY <1>11, <2>2
    <3>2. PICK z \in AnyUse : At(us, EndsAfter(us, b)) = r \o <<z>>
      BY <3>1
    <3>3. Lasts(a) = h \o <<Last(a.cur)>>
      BY <1>2, <1>8, <2>2 DEF Lasts, OwnLast
    <3>4. Last(a.cur) \in AnyUse
      <4>1. a.cur # <<>>
        BY <1>2, <2>2
      <4> QED
        BY <1>2, <4>1 DEF Last
    <3>5. SameMore(h, Last(a.cur), r, z)
      BY <1>2, <3>2, <3>3 DEF SameMore
    <3>7. h = r
      BY <3>4, <3>5, OneMoreSame
    <3> QED
      BY <3>1, <3>7
  <2> QED
    BY <2>1, <2>2
<1>13. InLastTurn(us \o <<y>>, b)
  <2>1. PICK vs : vs = us \o <<y>>
    OBVIOUS
  <2>2. Len(vs) = Len(us) + 1 /\ vs[Len(us) + 1] = y /\ vs # <<>>
    BY <2>1, OneMore
  <2> QED
    BY <2>1, <2>2 DEF InLastTurn
<1>14. /\ c = [open |-> c.open, cur |-> c.cur, turns |-> c.turns]
       /\ c.turns \in Seq(Stretch) /\ c.cur \in Seq(AnyUse) /\ c.open /\ c.cur # <<>>
  BY <1>2, <1>4, <1>6, <1>7
<1> QED
  BY <1>1, <1>9, <1>12, <1>13, <1>14 DEF Sound

(* The walk over items in order ends the turns where the records say.      *)
LEMMA WalkOneMore ==
  ASSUME NEW t \in Seq(Item), NEW x \in Item, InWalkOrder(t \o <<x>>),
         Sound(TurnWalk(t), Walked(t), TextLines(t))
  PROVE  Sound(TurnWalk(t \o <<x>>), Walked(t \o <<x>>), TextLines(t \o <<x>>))
<1>1. PICK a : a = TurnWalk(t)
  OBVIOUS
<1>2. TurnWalk(t \o <<x>>) = TurnStep(a, x)
  <2>1. TurnWalk(Append(t, x)) = TurnStep(TurnWalk(t), x)
    BY WalkGrown
  <2>2. Append(t, x) = t \o <<x>>
    BY OneMore
  <2> QED
    BY <1>1, <2>1, <2>2
<1>3. PICK us \in Seq(AnyUse) : us = Walked(t)
  BY WalkedGrown
<1>4. PICK b \in SUBSET Int : b = TextLines(t)
  BY TextLinesGrown
<1>5. Sound(a, us, b)
  BY <1>1, <1>3, <1>4
<1>6. x.line \in Int /\ (x \in UseItems <=> x.of # <<>>)
  BY ItemsAre
<1>7. ASSUME NEW k \in DOMAIN t
      PROVE  t[k].line <= x.line /\ (t[k].line = x.line /\ x.of = <<>> => t[k].of = <<>>)
  <2>1. PICK v : v = t \o <<x>>
    OBVIOUS
  <2>2. PICK n \in Nat : n = Len(t) /\ DOMAIN t = 1 .. n
    OBVIOUS
  <2>3. v \in Seq(Item) /\ Len(v) = n + 1 /\ v[n + 1] = x /\ \A i \in 1 .. n : v[i] = t[i]
    BY <2>1, <2>2, OneMore
  <2>4. k \in DOMAIN v /\ n + 1 \in DOMAIN v /\ k < n + 1 /\ v[k] = t[k]
    BY <2>2, <2>3
  <2>5. InWalkOrder(v)
    BY <2>1
  <2> QED
    BY <2>3, <2>4, <2>5 DEF InWalkOrder
<1>8. ASSUME NEW i \in DOMAIN us PROVE us[i].line <= x.line /\ (x.of = <<>> => us[i].line < x.line)
  <2>1. i \in DOMAIN Walked(t)
    BY <1>3
  <2>2. PICK k \in DOMAIN t : t[k].of # <<>> /\ t[k].line = Walked(t)[i].line
    BY <2>1, WalkedLines
  <2>3. t[k].line \in Int
    <3>1. t[k] \in Item
      OBVIOUS
    <3> QED
      BY <3>1, ItemsAre
  <2>4. us[i].line = t[k].line
    BY <1>3, <2>2
  <2> QED
    BY <1>6, <1>7, <2>2, <2>3, <2>4
<1>9. \A l \in b : l <= x.line
  <2> SUFFICES ASSUME NEW l \in b PROVE l <= x.line
    OBVIOUS
  <2>1. PICK k \in DOMAIN t : l = t[k].line
    BY <1>4 DEF TextLines
  <2> QED
    BY <1>7, <2>1
<1>10. TextLines(t \o <<x>>) = b \cup (IF x.of = <<>> THEN {x.line} ELSE {})
  BY <1>4, TextLinesGrown
<1>11. /\ x \in UseItems => TheUse[x] \in AnyUse /\ Walked(t \o <<x>>) = Walked(t) \o <<TheUse[x]>>
       /\ x \notin UseItems => Walked(t \o <<x>>) = Walked(t)
  BY WalkedGrown
<1>12. CASE x.of = <<>>
  <2>1. Walked(t \o <<x>>) = us /\ TextLines(t \o <<x>>) = b \cup {x.line}
    BY <1>3, <1>6, <1>10, <1>11, <1>12
  <2>2. \A i \in DOMAIN us : us[i].line < x.line
    BY <1>8, <1>12
  <2>3. Sound(TurnStep(a, x), us, b \cup {x.line})
    BY <1>5, <1>12, <2>2, SoundText
  <2> QED
    BY <1>2, <2>1, <2>3
<1>13. CASE x.of # <<>>
  <2>1. PICK y \in AnyUse : x.of = <<y>> /\ x.line = y.line /\ TheUse[x] = y
    BY <1>6, <1>13, ItemsAre
  <2>2. Walked(t \o <<x>>) = us \o <<y>> /\ TextLines(t \o <<x>>) = b
    BY <1>3, <1>6, <1>10, <1>11, <1>13, <2>1
  <2>3. us \o <<y>> \in Seq(AnyUse)
    BY OneMore
  <2>4. CASE b = {}
    <3>1. Sound(a, us, {})
      BY <1>5, <2>4
    <3>2. PICK vs \in Seq(AnyUse) : vs = us \o <<y>>
      BY <2>3
    <3>3. Sound(TurnStep(a, x), vs, {})
      BY <1>13, <3>1, SoundBefore
    <3> QED
      BY <1>2, <2>2, <2>4, <3>2, <3>3
  <2>5. CASE b # {}
    <3>1. UpTo(b, y.line)
      BY <1>9, <2>1 DEF UpTo
    <3>2. Sound(TurnStep(a, x), us \o <<y>>, b)
      BY <1>5, <2>1, <2>5, <3>1, SoundUse
    <3> QED
      BY <1>2, <2>2, <3>2
  <2> QED
    BY <2>4, <2>5
<1> QED
  BY <1>12, <1>13

LEMMA WalkSound ==
  ASSUME NEW t \in Seq(Item), InWalkOrder(t)
  PROVE  Sound(TurnWalk(t), Walked(t), TextLines(t))
<1> DEFINE G == {s \in Seq(Item) : InWalkOrder(s) => Sound(TurnWalk(s), Walked(s), TextLines(s))}
<1>1. <<>> \in G
  <2>1. Walked(<<>>) = <<>>
    <3>1. Sieve(<<>>, UseItems) = <<>>
      BY SieveNone
    <3> QED
      BY <3>1 DEF Walked, Mapped
  <2>2. TextLines(<<>>) = {}
    BY DEF TextLines
  <2>3. <<>> \in Seq(AnyUse) /\ <<>> \in Seq(Item)
    OBVIOUS
  <2>4. Sound(NotOpen, <<>>, {})
    BY <2>3, SoundStart
  <2> QED
    BY <2>1, <2>2, <2>3, <2>4, WalkNone
<1>2. ASSUME NEW s \in G, NEW x \in Item PROVE s \o <<x>> \in G
  <2>0. s \in Seq(Item)
    OBVIOUS
  <2>1. s \o <<x>> \in Seq(Item)
    BY <2>0, OneMore
  <2>2. ASSUME InWalkOrder(s \o <<x>>)
        PROVE  Sound(TurnWalk(s \o <<x>>), Walked(s \o <<x>>), TextLines(s \o <<x>>))
    <3>1. InWalkOrder(s)
      <4>1. PICK v : v = s \o <<x>>
        OBVIOUS
      <4>2. PICK n \in Nat : n = Len(s) /\ DOMAIN s = 1 .. n
        BY <2>0
      <4>3. v \in Seq(Item) /\ Len(v) = n + 1 /\ \A i \in 1 .. n : v[i] = s[i]
        BY <2>0, <4>1, <4>2, OneMore
      <4>4. \A i \in 1 .. n : i \in DOMAIN v /\ v[i] = s[i]
        BY <4>3
      <4>5. InWalkOrder(v)
        BY <2>2, <4>1
      <4> QED
        BY <4>2, <4>4, <4>5 DEF InWalkOrder
    <3>2. Sound(TurnWalk(s), Walked(s), TextLines(s))
      BY <3>1
    <3> HIDE DEF G
    <3> QED
      BY <2>0, <2>2, <3>2, WalkOneMore
  <2> QED
    BY <2>1, <2>2
<1> HIDE DEF G
<1>3. ListInductive(G, Item)
  <2>1. G \in SUBSET Seq(Item)
    BY DEF G
  <2> QED
    BY <1>1, <1>2, <2>1 DEF ListInductive
<1>4. G = Seq(Item)
  BY <1>3, ListInduction
<1> QED
  BY <1>4 DEF G

(* The last records of the turns of a walk.                                *)
LEMMA WalkLasts ==
  ASSUME NEW a, NEW us, NEW b, Sound(a, us, b)
  PROVE  /\ Apply(IF a.cur # <<>> THEN Append(a.turns, a.cur) ELSE a.turns, Last) = At(us, EndsAfter(us, b))
<1>1. a.turns \in Seq(Stretch) /\ a.cur \in Seq(AnyUse) /\ Lasts(a) = At(us, EndsAfter(us, b))
  BY DEF Sound
<1>2. PICK ts \in Seq(Stretch) : ts = IF a.cur # <<>> THEN Append(a.turns, a.cur) ELSE a.turns
  <2>1. a.cur # <<>> => a.cur \in Stretch
    BY <1>1 DEF Stretch
  <2> QED
    BY <1>1, <2>1, AppendProperties
<1>3. Apply(ts, Last) = Mapped(ts, LastAt)
  <2>1. Computed([i \in DOMAIN ts |-> LastAt[ts[i]]]) = Mapped(ts, LastAt)
    BY LastAtIs, AppliedIs
  <2>2. \A i \in DOMAIN ts : LastAt[ts[i]] = Last(ts[i])
    <3>1. \A i \in DOMAIN ts : ts[i] \in Stretch
      OBVIOUS
    <3> QED
      BY <3>1, LastAtIs
  <2>3. [i \in DOMAIN ts |-> LastAt[ts[i]]] = [i \in DOMAIN ts |-> Last(ts[i])]
    BY <2>2
  <2> QED
    BY <2>1, <2>3 DEF Apply
<1>4. PICK us0 \in Seq(Stretch) : us0 = a.turns
  BY <1>1
<1>5. Mapped(us0, LastAt) \in Seq(AnyUse)
  BY LastAtIs, MappedIs
<1>6. Mapped(ts, LastAt) = Lasts(a)
  <2>1. CASE a.cur = <<>>
    <3>1. PICK m \in Seq(AnyUse) : m = Mapped(us0, LastAt)
      BY <1>5
    <3>2. m \o <<>> = m
      OBVIOUS
    <3> QED
      BY <1>2, <1>4, <2>1, <3>1, <3>2 DEF Lasts, OwnLast
  <2>2. CASE a.cur # <<>>
    <3>1. PICK s \in Stretch : s = a.cur
      BY <1>1, <2>2 DEF Stretch
    <3>2. Mapped(us0 \o <<s>>, LastAt) = Mapped(us0, LastAt) \o <<LastAt[s]>> /\ Mapped(us0, LastAt) \in Seq(AnyUse) /\ LastAt[s] \in AnyUse
      BY LastAtIs, MappedLast
    <3>3. Append(us0, s) = us0 \o <<s>>
      BY OneMore
    <3>4. LastAt[s] = Last(a.cur)
      BY <3>1, LastAtIs
    <3> QED
      BY <1>2, <1>4, <2>2, <3>1, <3>2, <3>3, <3>4 DEF Lasts, OwnLast
  <2> QED
    BY <2>1, <2>2
<1> QED
  BY <1>1, <1>2, <1>3, <1>6

(***************************************************************************)
(* The items of a transcript                                               *)
(***************************************************************************)
UseItem == [u \in AnyUse |-> [line |-> u.line, of |-> <<u>>]]
TextItem == [e \in AnyEvent |-> [line |-> e.line, of |-> <<>>]]
(* The items before they are sorted, and as they are walked.               *)
ItemsOf(ev, us) == Mapped(Sieve(ev, Texts), TextItem) \o Mapped(us, UseItem)
WalkOf(ev, us)  == Sorted(ItemsOf(ev, us), ItemLine)
(* The lines of the texts.                                                 *)
Breaks(ev) == {e.line : e \in ToSet(Sieve(ev, Texts))}

LEMMA ItemMaps ==
  /\ Maps(UseItem, AnyUse, UseItems) /\ Maps(UseItem, AnyUse, Item) /\ Maps(TextItem, AnyEvent, Item)
  /\ \A u \in AnyUse : /\ UseItem[u] = [line |-> u.line, of |-> <<u>>] /\ UseItem[u] \in UseItems
                       /\ TheUse[UseItem[u]] = u /\ UseItem[u].line = u.line /\ UseItem[u].of # <<>>
  /\ \A e \in AnyEvent : /\ TextItem[e] \in Item /\ TextItem[e] \notin UseItems
                         /\ TextItem[e].of = <<>> /\ TextItem[e].line = e.line
  /\ Through(LineOf, ItemLine, UseItem, AnyUse)
<1>1. ASSUME NEW u \in AnyUse
      PROVE  /\ UseItem[u] = [line |-> u.line, of |-> <<u>>] /\ UseItem[u] \in UseItems
             /\ TheUse[UseItem[u]] = u /\ UseItem[u].line = u.line /\ UseItem[u].of # <<>>
  <2>1. UseItem[u] = [line |-> u.line, of |-> <<u>>]
    BY DEF UseItem
  <2>2. [line |-> u.line, of |-> <<u>>] \in UseItems /\ TheUse[[line |-> u.line, of |-> <<u>>]] = u
    BY ItemsAre
  <2>3. UseItem[u].line = u.line /\ UseItem[u].of = <<u>>
    BY <2>1
  <2>4. UseItem[u].of # <<>>
    BY <2>3
  <2> QED
    BY <2>1, <2>2, <2>3, <2>4
<1>2. ASSUME NEW e \in AnyEvent
      PROVE  /\ TextItem[e] \in Item /\ TextItem[e] \notin UseItems
             /\ TextItem[e].of = <<>> /\ TextItem[e].line = e.line
  <2>1. PICK x : x = TextItem[e]
    OBVIOUS
  <2>2. x = [line |-> e.line, of |-> <<>>]
    BY <2>1 DEF TextItem
  <2>3. e.line \in Int
    BY DEF AnyEvent
  <2>4. x \in TextItems
    BY <2>2, <2>3 DEF TextItems
  <2>5. x \in Item /\ x.of = <<>> /\ x.line = e.line
    BY <2>2, <2>4 DEF Item
  <2>6. x \notin UseItems
    BY <2>5, ItemsAre
  <2> QED
    BY <2>1, <2>5, <2>6
<1>3. Maps(UseItem, AnyUse, UseItems)
  <2>1. UseItem = [u \in AnyUse |-> UseItem[u]]
    BY DEF UseItem
  <2>2. \A u \in AnyUse : UseItem[u] \in UseItems
    BY <1>1
  <2> QED
    BY <2>1, <2>2 DEF Maps
<1>4. Maps(UseItem, AnyUse, Item)
  <2>1. \A u \in AnyUse : UseItem[u] \in Item
    BY <1>1 DEF Item
  <2>2. UseItem = [u \in AnyUse |-> UseItem[u]]
    BY DEF UseItem
  <2> QED
    BY <2>1, <2>2 DEF Maps
<1>5. Maps(TextItem, AnyEvent, Item)
  <2>1. TextItem = [e \in AnyEvent |-> TextItem[e]]
    BY DEF TextItem
  <2>2. \A e \in AnyEvent : TextItem[e] \in Item
    BY <1>2
  <2> QED
    BY <2>1, <2>2 DEF Maps
<1>6. Through(LineOf, ItemLine, UseItem, AnyUse)
  <2>1. ASSUME NEW u \in AnyUse PROVE LineOf[u] = ItemLine[UseItem[u]]
    <3>1. UseItem[u] \in Item /\ UseItem[u].line = u.line
      BY <1>1 DEF Item
    <3>2. ItemLine[UseItem[u]] = UseItem[u].line
      BY <3>1, ItemsAre
    <3> QED
      BY <3>1, <3>2 DEF LineOf
  <2> QED
    BY <2>1 DEF Through
<1> QED
  BY <1>1, <1>2, <1>3, <1>4, <1>5, <1>6

(* The records are walked in the order of their lines.                     *)
LEMMA WalkedIs ==
  ASSUME NEW ev \in Seq(AnyEvent), NEW us \in Seq(AnyUse)
  PROVE  Walked(WalkOf(ev, us)) = Sorted(us, LineOf)
<1>1. PICK tt \in Seq(AnyEvent) : tt = Sieve(ev, Texts)
  BY TextsAre
<1>2. Maps(TextItem, AnyEvent, Item) /\ Maps(UseItem, AnyUse, Item) /\ Maps(UseItem, AnyUse, UseItems)
  BY ItemMaps
<1>3. /\ Mapped(tt, TextItem) \in Seq(Item) /\ Len(Mapped(tt, TextItem)) = Len(tt)
      /\ DOMAIN Mapped(tt, TextItem) = DOMAIN tt
      /\ \A i \in DOMAIN tt : tt[i] \in AnyEvent /\ Mapped(tt, TextItem)[i] = TextItem[tt[i]]
  BY <1>2, MappedIs
<1>4. /\ Mapped(us, UseItem) \in Seq(Item) /\ Len(Mapped(us, UseItem)) = Len(us)
      /\ DOMAIN Mapped(us, UseItem) = DOMAIN us
      /\ \A i \in DOMAIN us : us[i] \in AnyUse /\ Mapped(us, UseItem)[i] = UseItem[us[i]]
  BY <1>2, MappedIs, SMTT(30)
<1>5. PICK a \in Seq(Item) : a = Mapped(tt, TextItem)
  BY <1>3
<1>6. PICK b \in Seq(Item) : b = Mapped(us, UseItem)
  BY <1>4
<1>7. \A i \in DOMAIN a : a[i] \notin UseItems
  BY <1>3, <1>5, ItemMaps
<1>8. \A i \in DOMAIN b : b[i] \in UseItems
  BY <1>4, <1>6, ItemMaps, ZenonT(30)
<1>9. Sieve(a, UseItems) = <<>> /\ Sieve(b, UseItems) = b
  <2>1. /\ Sieve(a, UseItems) \in Seq(Item) /\ \A k \in DOMAIN Sieve(a, UseItems) : Sieve(a, UseItems)[k] \in UseItems
        /\ (\A i \in DOMAIN a : a[i] \in UseItems) => Sieve(a, UseItems) = a
        /\ (\A i \in DOMAIN a : a[i] \notin UseItems) => Sieve(a, UseItems) = <<>>
    BY SieveIs
  <2>2. /\ Sieve(b, UseItems) \in Seq(Item) /\ \A k \in DOMAIN Sieve(b, UseItems) : Sieve(b, UseItems)[k] \in UseItems
        /\ (\A i \in DOMAIN b : b[i] \in UseItems) => Sieve(b, UseItems) = b
        /\ (\A i \in DOMAIN b : b[i] \notin UseItems) => Sieve(b, UseItems) = <<>>
    BY SieveIs
  <2> QED
    BY <1>7, <1>8, <2>1, <2>2
<1>10. Sieve(a \o b, UseItems) = b
  <2>1. Sieve(a \o b, UseItems) = Sieve(a, UseItems) \o Sieve(b, UseItems)
    BY SieveJoin
  <2>2. <<>> \o b = b
    OBVIOUS
  <2> QED
    BY <1>9, <2>1, <2>2
<1>11. PICK s \in Seq(Item) : s = ItemsOf(ev, us) /\ s = a \o b
  <2>1. a \o b \in Seq(Item)
    BY ConcatPlaces
  <2> QED
    BY <1>1, <1>5, <1>6, <2>1 DEF ItemsOf
<1>12. Sieve(Sorted(s, ItemLine), UseItems) = Sorted(b, ItemLine)
  <2>1. Maps(ItemLine, Item, Int)
    BY ItemsAre
  <2>2. Sieve(Sorted(s, ItemLine), UseItems) = Sorted(Sieve(s, UseItems), ItemLine)
    BY <2>1, SieveSorted
  <2> QED
    BY <1>10, <1>11, <2>2
<1>13. Sorted(b, ItemLine) = Mapped(Sorted(us, LineOf), UseItem) /\ Sorted(us, LineOf) \in Seq(AnyUse)
  <2>1. Maps(LineOf, AnyUse, Int) /\ Maps(ItemLine, Item, Int) /\ Through(LineOf, ItemLine, UseItem, AnyUse)
    BY RecordMaps, ItemsAre, ItemMaps
  <2>2. Sorted(Mapped(us, UseItem), ItemLine) = Mapped(Sorted(us, LineOf), UseItem) /\ Sorted(us, LineOf) \in Seq(AnyUse)
    BY <1>2, <2>1, SortMapped
  <2> QED
    BY <1>6, <2>2
<1>14. PICK S \in Seq(AnyUse) : S = Sorted(us, LineOf)
  BY <1>13
<1>15. Mapped(Mapped(S, UseItem), TheUse) = S
  <2>1. PICK id : id = [u \in AnyUse |-> u]
    OBVIOUS
  <2>2. Through(id, TheUse, UseItem, AnyUse)
    BY <2>1, ItemMaps DEF Through
  <2>3. Maps(TheUse, UseItems, AnyUse)
    BY ItemsAre
  <2>4. Mapped(Mapped(S, UseItem), TheUse) = Mapped(S, id)
    BY <1>2, <2>2, <2>3, MappedTwice
  <2>5. Mapped(S, id) = S
    <3>1. \A i \in DOMAIN S : id[S[i]] = S[i]
      BY <2>1
    <3>2. S = [i \in DOMAIN S |-> S[i]]
      OBVIOUS
    <3> QED
      BY <3>1, <3>2 DEF Mapped
  <2> QED
    BY <2>4, <2>5
<1> QED
  BY <1>11, <1>12, <1>13, <1>14, <1>15 DEF Walked, WalkOf

(* They are walked in order, and the texts among them are those there are. *)
LEMMA WalkOrdered ==
  ASSUME NEW ev \in Seq(AnyEvent), NEW us \in Seq(AnyUse)
  PROVE  WalkOf(ev, us) \in Seq(Item) /\ InWalkOrder(WalkOf(ev, us)) /\ TextLines(WalkOf(ev, us)) = Breaks(ev)
<1>1. PICK tt \in Seq(AnyEvent) : tt = Sieve(ev, Texts)
  BY TextsAre
<1>2. Maps(TextItem, AnyEvent, Item) /\ Maps(UseItem, AnyUse, Item)
  BY ItemMaps
<1>3. /\ Mapped(tt, TextItem) \in Seq(Item) /\ Len(Mapped(tt, TextItem)) = Len(tt)
      /\ DOMAIN Mapped(tt, TextItem) = DOMAIN tt
      /\ \A i \in DOMAIN tt : tt[i] \in AnyEvent /\ Mapped(tt, TextItem)[i] = TextItem[tt[i]]
  BY <1>2, MappedIs
<1>4. /\ Mapped(us, UseItem) \in Seq(Item) /\ Len(Mapped(us, UseItem)) = Len(us)
      /\ DOMAIN Mapped(us, UseItem) = DOMAIN us
      /\ \A i \in DOMAIN us : us[i] \in AnyUse /\ Mapped(us, UseItem)[i] = UseItem[us[i]]
  BY <1>2, MappedIs
<1>5. PICK a \in Seq(Item) : a = Mapped(tt, TextItem)
  BY <1>3
<1>6. PICK b \in Seq(Item) : b = Mapped(us, UseItem)
  BY <1>4
<1>7. PICK m \in Nat : m = Len(a) /\ DOMAIN a = 1 .. m /\ DOMAIN tt = 1 .. m
  <2>1. PICK m \in Nat : m = Len(a) /\ DOMAIN a = 1 .. m
    OBVIOUS
  <2> QED
    BY <1>3, <1>5, <2>1
<1>8. PICK n \in Nat : n = Len(b) /\ DOMAIN b = 1 .. n
  OBVIOUS
<1>9. PICK s \in Seq(Item) : s = ItemsOf(ev, us) /\ s = a \o b
  <2>1. a \o b \in Seq(Item)
    BY ConcatPlaces
  <2> QED
    BY <1>1, <1>5, <1>6, <2>1 DEF ItemsOf
<1>10. Len(s) = m + n /\ DOMAIN s = 1 .. m + n /\ (\A j \in 1 .. m : s[j] = a[j]) /\ \A j \in 1 .. n : s[m + j] = b[j]
  <2>1. /\ a \o b \in Seq(Item) /\ Len(a \o b) = Len(a) + Len(b)
        /\ \A j \in 1 .. Len(a) : (a \o b)[j] = a[j]
        /\ \A j \in 1 .. Len(b) : (a \o b)[Len(a) + j] = b[j]
    BY ConcatPlaces
  <2>2. Len(s) = m + n /\ (\A j \in 1 .. m : s[j] = a[j]) /\ \A j \in 1 .. n : s[m + j] = b[j]
    BY <1>7, <1>8, <1>9, <2>1
  <2>3. DOMAIN s = 1 .. Len(s)
    OBVIOUS
  <2> QED
    BY <2>2, <2>3
<1>11. ASSUME NEW j \in 1 .. m + n
       PROVE  /\ s[j].of = <<>> <=> j \in 1 .. m
              /\ j \in 1 .. m => s[j].line = tt[j].line
  <2>1. CASE j \in 1 .. m
    <3>1. s[j] = TextItem[tt[j]] /\ tt[j] \in AnyEvent
      BY <1>3, <1>5, <1>7, <1>10, <2>1
    <3> QED
      BY <2>1, <3>1, ItemMaps
  <2>2. CASE j \notin 1 .. m
    <3>1. PICK k \in 1 .. n : k = j - m /\ j = m + k
      BY <2>2
    <3>2. s[j] = UseItem[us[k]] /\ us[k] \in AnyUse
      BY <1>4, <1>6, <1>8, <1>10, <3>1
    <3>3. s[j].of # <<>>
      BY <3>2, ItemMaps, ZenonT(30)
    <3> QED
      BY <2>2, <3>3
  <2> QED
    BY <2>1, <2>2
<1>12. Maps(ItemLine, Item, Int)
  BY ItemsAre
<1>13. PICK t \in Seq(Item) : t = Sorted(s, ItemLine) /\ Len(t) = Len(s) /\ DOMAIN t = DOMAIN s
  BY <1>12, SortedIs
<1>14. PICK p : Renames(p, DOMAIN s, DOMAIN s) /\ Steady(p, t, s, ItemLine)
  BY <1>12, <1>13, SortedIs
<1>15. \A j, k \in DOMAIN s : j < k => ItemLine[t[j]] <= ItemLine[t[k]]
  BY <1>12, <1>13, SortedIs
<1>16. /\ p \in [1 .. m + n -> 1 .. m + n] /\ \A i \in 1 .. m + n : \E k \in 1 .. m + n : p[k] = i
       /\ \A k \in 1 .. m + n : t[k] = s[p[k]]
       /\ \A j, k \in 1 .. m + n : j < k /\ ItemLine[s[p[j]]] = ItemLine[s[p[k]]] => p[j] < p[k]
  BY <1>10, <1>14 DEF Steady
<1>17. DOMAIN t = 1 .. m + n /\ \A k \in 1 .. m + n : t[k] \in Item /\ ItemLine[t[k]] = t[k].line /\ t[k].line \in Int
  <2>1. DOMAIN t = 1 .. m + n
    BY <1>10, <1>13
  <2>2. \A k \in 1 .. m + n : t[k] \in Item
    BY <2>1
  <2> QED
    BY <2>1, <2>2, ItemsAre
<1>18. InWalkOrder(t)
  <2> SUFFICES ASSUME NEW j \in 1 .. m + n, NEW k \in 1 .. m + n, j < k
               PROVE  t[j].line <= t[k].line /\ (t[j].line = t[k].line /\ t[k].of = <<>> => t[j].of = <<>>)
    BY <1>17 DEF InWalkOrder
  <2>1. t[j].line <= t[k].line
    <3>1. j \in DOMAIN s /\ k \in DOMAIN s
      BY <1>10
    <3>2. ItemLine[t[j]] <= ItemLine[t[k]]
      BY <1>15, <3>1
    <3>3. ItemLine[t[j]] = t[j].line /\ ItemLine[t[k]] = t[k].line
      BY <1>17
    <3> QED
      BY <3>2, <3>3
  <2>2. ASSUME t[j].line = t[k].line, t[k].of = <<>> PROVE t[j].of = <<>>
    <3>1. t[j] = s[p[j]] /\ t[k] = s[p[k]] /\ p[j] \in 1 .. m + n /\ p[k] \in 1 .. m + n
      BY <1>16
    <3>2. ItemLine[s[p[j]]] = ItemLine[s[p[k]]]
      BY <1>17, <2>2, <3>1
    <3>3. p[j] < p[k]
      BY <1>16, <3>2
    <3>4. p[k] \in 1 .. m
      BY <1>11, <2>2, <3>1
    <3>5. p[j] \in 1 .. m
      BY <3>1, <3>3, <3>4, SMTT(30)
    <3> QED
      BY <1>11, <3>1, <3>5
  <2> QED
    BY <2>1, <2>2
<1>19. TextLines(t) = Breaks(ev)
  <2>1. \A l : l \in TextLines(t) <=> \E k \in 1 .. m + n : t[k].of = <<>> /\ l = t[k].line
    BY <1>17 DEF TextLines
  <2>2. \A l : l \in Breaks(ev) <=> \E k \in 1 .. m : l = tt[k].line
    BY <1>1, <1>7 DEF Breaks, ToSet
  <2>3. ASSUME NEW l, NEW k \in 1 .. m + n, t[k].of = <<>>, l = t[k].line PROVE \E i \in 1 .. m : l = tt[i].line
    <3>1. t[k] = s[p[k]] /\ p[k] \in 1 .. m + n
      BY <1>16
    <3>2. p[k] \in 1 .. m /\ s[p[k]].line = tt[p[k]].line
      BY <1>11, <2>3, <3>1
    <3> QED
      BY <2>3, <3>1, <3>2
  <2>4. ASSUME NEW l, NEW i \in 1 .. m, l = tt[i].line PROVE \E k \in 1 .. m + n : t[k].of = <<>> /\ l = t[k].line
    <3>1. i \in 1 .. m + n
      OBVIOUS
    <3>2. PICK k \in 1 .. m + n : p[k] = i
      BY <1>16, <3>1
    <3>3. t[k] = s[i] /\ s[i].of = <<>> /\ s[i].line = tt[i].line
      BY <1>11, <1>16, <3>1, <3>2
    <3> QED
      BY <2>4, <3>3
  <2> QED
    BY <2>1, <2>2, <2>3, <2>4
<1> QED
  BY <1>9, <1>13, <1>18, <1>19 DEF WalkOf

(***************************************************************************)
(* The rows of the context growth                                          *)
(***************************************************************************)
Used == {u \in AnyUse : u.ctx # 0}
(* The last records of the turns, and those that have a row.               *)
TurnEnds(us, ev)   == At(Sorted(us, LineOf), EndsAfter(Sorted(us, LineOf), Breaks(ev)))
GrowthUses(us, ev) == Sieve(TurnEnds(us, ev), Used)
GrowthRow(ls, i) ==
  [turnNum |-> i, use |-> ls[i], first |-> i = 1,
   delta |-> IF i = 1 THEN 0 ELSE ls[i].ctx - ls[i - 1].ctx]
GrowthRows(us, ev) == [i \in DOMAIN GrowthUses(us, ev) |-> GrowthRow(GrowthUses(us, ev), i)]

LEMMA ItemsSorted ==
  ASSUME NEW ev \in Seq(AnyEvent), NEW us \in Seq(AnyUse)
  PROVE  SortedBy(Apply(UserTexts(ev), LAMBDA e : [line |-> e.line, of |-> <<>>])
                    \o Apply(us, LAMBDA u : [line |-> u.line, of |-> <<u>>]), LAMBDA item : item.line)
           = WalkOf(ev, us)
<1>1. PICK tt \in Seq(AnyEvent) : tt = Sieve(ev, Texts) /\ tt = UserTexts(ev)
  BY TextsAre
<1>2. Apply(tt, LAMBDA e : [line |-> e.line, of |-> <<>>]) = Mapped(tt, TextItem)
  <2>1. Computed([i \in DOMAIN tt |-> TextItem[tt[i]]]) = Mapped(tt, TextItem)
    BY ItemMaps, AppliedIs
  <2>2. \A i \in DOMAIN tt : tt[i] \in AnyEvent
    OBVIOUS
  <2>3. [i \in DOMAIN tt |-> TextItem[tt[i]]] = [i \in DOMAIN tt |-> [line |-> tt[i].line, of |-> <<>>]]
    BY <2>2 DEF TextItem
  <2> QED
    BY <2>1, <2>3 DEF Apply
<1>3. Apply(us, LAMBDA u : [line |-> u.line, of |-> <<u>>]) = Mapped(us, UseItem)
  <2>1. Computed([i \in DOMAIN us |-> UseItem[us[i]]]) = Mapped(us, UseItem)
    BY ItemMaps, AppliedIs
  <2>2. \A i \in DOMAIN us : us[i] \in AnyUse
    OBVIOUS
  <2>3. [i \in DOMAIN us |-> UseItem[us[i]]] = [i \in DOMAIN us |-> [line |-> us[i].line, of |-> <<us[i]>>]]
    BY <2>2 DEF UseItem
  <2> QED
    BY <2>1, <2>3 DEF Apply
<1>4. PICK s \in Seq(Item) : s = ItemsOf(ev, us) /\ s = Mapped(tt, TextItem) \o Mapped(us, UseItem)
  <2>1. Maps(TextItem, AnyEvent, Item) /\ Maps(UseItem, AnyUse, Item)
    BY ItemMaps
  <2>2. PICK a \in Seq(Item) : a = Mapped(tt, TextItem)
    BY <2>1, MappedIs
  <2>3. PICK b \in Seq(Item) : b = Mapped(us, UseItem)
    BY <2>1, MappedIs
  <2>4. a \o b \in Seq(Item)
    BY ConcatPlaces
  <2> QED
    BY <1>1, <2>2, <2>3, <2>4 DEF ItemsOf
<1>5. SortedBy(s, LAMBDA item : item.line) = Sorted(s, ItemLine)
  <2>1. Computed([i \in DOMAIN s |-> ItemLine[s[i]]]) = Mapped(s, ItemLine)
    BY ItemsAre, AppliedIs
  <2>2. \A i \in DOMAIN s : s[i] \in Item
    OBVIOUS
  <2>3. [i \in DOMAIN s |-> ItemLine[s[i]]] = [i \in DOMAIN s |-> s[i].line]
    BY <2>2 DEF ItemLine
  <2> QED
    BY <2>1, <2>3 DEF SortedBy, Sorted
<1>6. SortedBy(s, LAMBDA item : item.line) = WalkOf(ev, us)
  BY <1>4, <1>5 DEF WalkOf
<1> QED
  BY <1>1, <1>2, <1>3, <1>4, <1>6, Zenon

LEMMA UsedWhere ==
  ASSUME NEW us \in Seq(AnyUse)
  PROVE  Where(us, LAMBDA u : u.ctx # 0) = Sieve(us, Used)
<1>1. \A i \in DOMAIN us : us[i] \in AnyUse
  OBVIOUS
<1>2. {i \in DOMAIN us : us[i] \in Used} = {i \in DOMAIN us : us[i].ctx # 0}
  BY <1>1 DEF Used
<1> QED
  BY <1>2 DEF Sieve, Where

(* The walk finds the last record of each turn.                            *)
LEMMA TurnEndsAre ==
  ASSUME NEW ev \in Seq(AnyEvent), NEW us \in Seq(AnyUse), NEW a, a = TurnWalk(WalkOf(ev, us))
  PROVE  /\ Apply(IF a.cur # <<>> THEN Append(a.turns, a.cur) ELSE a.turns, Last) = TurnEnds(us, ev)
         /\ TurnEnds(us, ev) \in Seq(AnyUse)
<1>1. WalkOf(ev, us) \in Seq(Item) /\ InWalkOrder(WalkOf(ev, us)) /\ TextLines(WalkOf(ev, us)) = Breaks(ev)
  BY WalkOrdered
<1>2. Walked(WalkOf(ev, us)) = Sorted(us, LineOf)
  BY WalkedIs
<1>3. PICK t \in Seq(Item) : t = WalkOf(ev, us)
  BY <1>1
<1>4. Sound(TurnWalk(t), Walked(t), TextLines(t))
  BY <1>1, <1>3, WalkSound
<1>5. PICK S : S = Sorted(us, LineOf)
  OBVIOUS
<1>6. Sound(a, S, Breaks(ev))
  BY <1>1, <1>2, <1>3, <1>4, <1>5
<1>7. Apply(IF a.cur # <<>> THEN Append(a.turns, a.cur) ELSE a.turns, Last) = At(S, EndsAfter(S, Breaks(ev)))
  BY <1>6, WalkLasts
<1>8. S \in Seq(AnyUse)
  <2>1. Maps(LineOf, AnyUse, Int)
    BY RecordMaps
  <2> QED
    BY <1>5, <2>1, SortedIs
<1>9. At(S, EndsAfter(S, Breaks(ev))) \in Seq(AnyUse)
  <2>1. PICK E \in SUBSET DOMAIN S : E = EndsAfter(S, Breaks(ev))
    BY DEF EndsAfter
  <2>2. PICK m \in Nat : \E b : Rising(b, m, E)
    BY <1>8, <2>1, SomeRising
  <2>3. PICK b : Rising(b, m, E)
    BY <2>2
  <2>4. At(S, E) = [j \in 1 .. m |-> S[b[j]]] /\ At(S, E) \in Seq(AnyUse) /\ Len(At(S, E)) = m
    BY <1>8, <2>3, AtRising
  <2> QED
    BY <2>1, <2>4
<1> QED
  BY <1>5, <1>7, <1>9 DEF TurnEnds

LEMMA GrowthIs ==
  ASSUME NEW tx, tx.events \in Seq(AnyEvent), tx.meta \in Seq(AnyMeta), NEW us, us = Usages(tx.meta, NoTime)
  PROVE  computeTurnStats(tx) = GrowthRows(us, tx.events) /\ GrowthUses(us, tx.events) \in Seq(AnyUse)
<1>1. us \in Seq(AnyUse)
  BY UsagesAre
<1>2. PICK ev \in Seq(AnyEvent) : ev = tx.events
  OBVIOUS
<1> DEFINE texts == Apply(UserTexts(ev), LAMBDA e : [line |-> e.line, of |-> <<>>])
           used  == Apply(us, LAMBDA u : [line |-> u.line, of |-> <<u>>])
           end   == TurnWalk(SortedBy(texts \o used, LAMBDA item : item.line))
           turns == IF end.cur # <<>> THEN Append(end.turns, end.cur) ELSE end.turns
           lasts == Where(Apply(turns, Last), LAMBDA u : u.ctx # 0)
<1>3. computeTurnStats(tx) =
        [i \in DOMAIN lasts |->
          [turnNum |-> i, use |-> lasts[i], first |-> i = 1,
           delta |-> IF i = 1 THEN 0 ELSE lasts[i].ctx - lasts[i - 1].ctx]]
  BY <1>2, Zenon DEF computeTurnStats
<1>4. PICK a : a = TurnWalk(WalkOf(ev, us))
  OBVIOUS
<1>5. end = a
  BY <1>1, <1>4, ItemsSorted, Zenon
<1> HIDE DEF end
<1>6. Apply(turns, Last) = TurnEnds(us, ev) /\ TurnEnds(us, ev) \in Seq(AnyUse)
  <2>1. /\ Apply(IF a.cur # <<>> THEN Append(a.turns, a.cur) ELSE a.turns, Last) = TurnEnds(us, ev)
        /\ TurnEnds(us, ev) \in Seq(AnyUse)
    BY <1>1, <1>4, TurnEndsAre
  <2> QED
    BY <1>5, <2>1
<1> HIDE DEF turns
<1>7. PICK t \in Seq(AnyUse) : t = TurnEnds(us, ev)
  BY <1>6
<1>8. lasts = Sieve(t, Used) /\ Sieve(t, Used) \in Seq(AnyUse)
  <2>1. Where(t, LAMBDA u : u.ctx # 0) = Sieve(t, Used)
    BY UsedWhere
  <2>2. Sieve(t, Used) \in Seq(AnyUse)
    BY SieveIs
  <2> QED
    BY <1>6, <1>7, <2>1, <2>2
<1> HIDE DEF lasts
<1>9. lasts = GrowthUses(us, ev)
  BY <1>7, <1>8 DEF GrowthUses
<1> QED
  BY <1>2, <1>3, <1>7, <1>8, <1>9 DEF GrowthRows, GrowthRow

(***************************************************************************)
(* The turns of the dashboard, by the lines of the texts                   *)
(***************************************************************************)
EventLine == [e \in AnyEvent |-> e.line]
LEMMA BoundsAre ==
  ASSUME NEW ev \in Seq(AnyEvent)
  PROVE  /\ Breaks(ev) \in SUBSET Int /\ IsFiniteSet(Breaks(ev))
         /\ Bounds(ev) = Ascending(Breaks(ev))
<1>1. PICK tt \in Seq(AnyEvent) : tt = Sieve(ev, Texts) /\ tt = UserTexts(ev)
  BY TextsAre
<1>2. \A i \in DOMAIN tt : tt[i] \in AnyEvent /\ tt[i].line \in Int /\ EventLine[tt[i]] = tt[i].line
  <2>1. \A i \in DOMAIN tt : tt[i] \in AnyEvent
    OBVIOUS
  <2> QED
    BY <2>1 DEF AnyEvent, EventLine
<1>3. Maps(EventLine, AnyEvent, Int)
  BY DEF Maps, EventLine, AnyEvent
<1>4. Computed([i \in DOMAIN tt |-> EventLine[tt[i]]]) = Mapped(tt, EventLine)
  BY <1>3, AppliedIs
<1>5. [i \in DOMAIN tt |-> EventLine[tt[i]]] = [i \in DOMAIN tt |-> tt[i].line]
  BY <1>2
<1>6. PICK ls : ls = Lines(tt) /\ DOMAIN ls = DOMAIN tt /\ \A i \in DOMAIN tt : ls[i] = tt[i].line
  <2>1. Lines(tt) = Mapped(tt, EventLine)
    BY <1>4, <1>5 DEF Lines, Apply
  <2> QED
    BY <1>2, <2>1 DEF Mapped
<1>7. Breaks(ev) = ToSet(ls)
  BY <1>1, <1>6 DEF Breaks, ToSet
<1>8. Breaks(ev) \in SUBSET Int
  BY <1>2, <1>6, <1>7 DEF ToSet
<1>9. IsFiniteSet(Breaks(ev))
  <2>1. IsFiniteSet(DOMAIN tt)
    BY PlacesFinite
  <2>2. PICK f : f = [i \in DOMAIN tt |-> tt[i].line]
    OBVIOUS
  <2>3. \A l : l \in Breaks(ev) <=> \E i \in DOMAIN tt : l = tt[i].line
    BY <1>6, <1>7 DEF ToSet
  <2>4. f \in Surjection(DOMAIN tt, Breaks(ev))
    BY <2>2, <2>3 DEF Surjection
  <2> QED
    BY <2>1, <2>4, FS_Surjection
<1> QED
  BY <1>1, <1>6, <1>7, <1>8, <1>9 DEF Bounds

(* Records in the order of their lines, those before all texts, and those  *)
(* that are the last before a text or of all.                              *)
LineRise(s)  == \A i, j \in DOMAIN s : i < j => s[i].line <= s[j].line
Early(s, b) == {i \in DOMAIN s : \A x \in b : s[i].line < x}
AllEnds(s, b) ==
  {i \in DOMAIN s : i < Len(s) => \E x \in b : s[i].line < x /\ x <= s[i + 1].line}

LEMMA PassedOver ==
  ASSUME NEW b \in SUBSET Int, IsFiniteSet(b), NEW B, B = Ascending(b), NEW l \in Int, NEW m \in Int, l <= m
  PROVE  Cardinality({i \in DOMAIN B : B[i] <= l}) < Cardinality({i \in DOMAIN B : B[i] <= m})
           <=> \E x \in b : l < x /\ x <= m
<1>1. PICK n \in Nat : Rising(B, n, b) /\ DOMAIN B = 1 .. n
  BY AscendingRising
<1>2. PICK L : L = {i \in DOMAIN B : B[i] <= l}
  OBVIOUS
<1>3. PICK M : M = {i \in DOMAIN B : B[i] <= m}
  OBVIOUS
<1>4. (\A i \in 1 .. n : B[i] \in b /\ B[i] \in Int) /\ \A x \in b : \E i \in 1 .. n : B[i] = x
  BY <1>1 DEF Rising
<1>5. IsFiniteSet(1 .. n)
  BY FS_Interval
<1>6. L \subseteq M /\ M \subseteq 1 .. n
  BY <1>1, <1>2, <1>3, <1>4
<1>7. IsFiniteSet(M) /\ IsFiniteSet(L)
  BY <1>5, <1>6, FS_Subset
<1>8. /\ Cardinality(L) \in Nat /\ Cardinality(M) \in Nat /\ Cardinality(L) <= Cardinality(M)
      /\ Cardinality(L) = Cardinality(M) => L = M
  BY <1>6, <1>7, FS_Subset, FS_CardinalityType
<1>9. Cardinality(L) < Cardinality(M) <=> L # M
  BY <1>8
<1>10. L # M <=> \E i \in 1 .. n : l < B[i] /\ B[i] <= m
  <2>1. \A i \in 1 .. n : (i \in L <=> B[i] <= l) /\ (i \in M <=> B[i] <= m)
    BY <1>1, <1>2, <1>3
  <2>2. L # M <=> \E i \in 1 .. n : i \in M /\ i \notin L
    BY <1>6
  <2>3. \A i \in 1 .. n : ~(B[i] <= l) <=> l < B[i]
    BY <1>4
  <2> QED
    BY <2>1, <2>2, <2>3
<1>11. (\E i \in 1 .. n : l < B[i] /\ B[i] <= m) <=> \E x \in b : l < x /\ x <= m
  BY <1>4
<1> QED
  BY <1>2, <1>3, <1>9, <1>10, <1>11

LEMMA TurnUsagesAre ==
  ASSUME NEW s \in Seq(AnyUse), LineRise(s), NEW b \in SUBSET Int, IsFiniteSet(b), b # {}
  PROVE  TurnUsages(s, Ascending(b)) = At(s, AllEnds(s, b)) /\ Ascending(b) # <<>>
<1>1. PICK B : B = Ascending(b)
  OBVIOUS
<1>2. PICK n \in Nat : Rising(B, n, b) /\ DOMAIN B = 1 .. n
  BY <1>1, AscendingRising
<1>3. B # <<>>
  <2>1. PICK x \in b : TRUE
    OBVIOUS
  <2>2. PICK i \in 1 .. n : B[i] = x
    BY <1>2, <2>1 DEF Rising
  <2>3. i \in DOMAIN B /\ DOMAIN <<>> = {}
    BY <1>2, <2>2
  <2> QED
    BY <2>3
<1> DEFINE passed(u) == Cardinality({i \in DOMAIN B : B[i] <= u.line})
           ends == {i \in DOMAIN s : i < Len(s) => passed(s[i]) < passed(s[i + 1])}
<1>4. TurnUsages(s, B) = At(s, ends)
  BY <1>3 DEF TurnUsages
<1>5. PICK k \in Nat : k = Len(s) /\ DOMAIN s = 1 .. k
  OBVIOUS
<1>6. \A i \in 1 .. k : s[i].line \in Int
  <2>1. \A i \in 1 .. k : s[i] \in AnyUse
    BY <1>5
  <2> QED
    BY <2>1, UseRowFields
<1>7. ASSUME NEW i \in 1 .. k, i < k
      PROVE  passed(s[i]) < passed(s[i + 1]) <=> \E x \in b : s[i].line < x /\ x <= s[i + 1].line
  <2>1. i + 1 \in 1 .. k /\ i < i + 1
    BY <1>7
  <2>2. s[i].line <= s[i + 1].line
    BY <1>5, <2>1 DEF LineRise
  <2>3. PICK l \in Int : l = s[i].line
    BY <1>6
  <2>4. PICK m \in Int : m = s[i + 1].line
    BY <1>6, <2>1
  <2>5. l <= m
    BY <2>2, <2>3, <2>4
  <2>6. Cardinality({j \in DOMAIN B : B[j] <= l}) < Cardinality({j \in DOMAIN B : B[j] <= m})
           <=> \E x \in b : l < x /\ x <= m
    BY <1>1, <2>5, PassedOver
  <2> QED
    BY <2>3, <2>4, <2>6
<1> HIDE DEF passed
<1>8. ends = AllEnds(s, b)
  BY <1>5, <1>7 DEF AllEnds
<1> QED
  BY <1>1, <1>3, <1>4, <1>8

(* The last record before all texts ends a turn, and the others that do    *)
(* are behind a text.                                                      *)
LEMMA EarlyIs ==
  ASSUME NEW s \in Seq(AnyUse), LineRise(s), NEW b \in SUBSET Int
  PROVE  \E q \in 0 .. Len(s) : Early(s, b) = 1 .. q
<1>1. PICK k \in Nat : k = Len(s) /\ DOMAIN s = 1 .. k
  OBVIOUS
<1>2. \A i \in 1 .. k : s[i].line \in Int
  <2>1. \A i \in 1 .. k : s[i] \in AnyUse
    BY <1>1
  <2> QED
    BY <2>1, UseRowFields
<1>3. ASSUME NEW j \in Early(s, b), NEW i \in 1 .. k, i < j PROVE i \in Early(s, b)
  <2>1. j \in 1 .. k /\ \A x \in b : s[j].line < x
    BY <1>1 DEF Early
  <2>2. s[i].line <= s[j].line
    BY <1>1, <1>3, <2>1 DEF LineRise
  <2>3. \A x \in b : s[i].line < x
    BY <1>2, <2>1, <2>2
  <2> QED
    BY <1>1, <2>3 DEF Early
<1>4. CASE Early(s, b) = {}
  <2>1. 1 .. 0 = {} /\ 0 \in 0 .. k
    OBVIOUS
  <2> QED
    BY <1>1, <1>4, <2>1
<1>5. CASE Early(s, b) # {}
  <2>1. Early(s, b) \in SUBSET Nat /\ \A i \in Early(s, b) : i <= k /\ i >= 1
    BY <1>1 DEF Early
  <2>2. PICK q \in Early(s, b) : \A i \in Early(s, b) : i <= q
    BY <1>5, <2>1, GreatestNat
  <2>3. q \in 1 .. k
    BY <2>1
  <2>4. \A i \in 1 .. q : i \in Early(s, b)
    <3>1. \A i \in 1 .. q : i = q \/ (i \in 1 .. k /\ i < q)
      BY <2>3
    <3> QED
      BY <1>3, <3>1
  <2>5. \A i : i \in Early(s, b) => i \in 1 .. q
    BY <2>1, <2>2, <2>3
  <2> QED
    <3>1. \A i : i \in Early(s, b) <=> i \in 1 .. q
      BY <2>4, <2>5
    <3>2. Early(s, b) = 1 .. q
      BY <3>1
    <3>3. q \in 0 .. Len(s)
      BY <1>1, <2>3
    <3> QED
      BY <3>2, <3>3
<1> QED
  BY <1>4, <1>5

LEMMA EndsSplit ==
  ASSUME NEW s \in Seq(AnyUse), LineRise(s), NEW b \in SUBSET Int, b # {},
         NEW q \in 0 .. Len(s), Early(s, b) = 1 .. q
  PROVE  /\ AllEnds(s, b) = (IF q = 0 THEN {} ELSE {q}) \cup EndsAfter(s, b)
         /\ \A j \in EndsAfter(s, b) : q < j
<1>1. PICK k \in Nat : k = Len(s) /\ DOMAIN s = 1 .. k
  OBVIOUS
<1>2. \A i \in 1 .. k : s[i].line \in Int
  <2>1. \A i \in 1 .. k : s[i] \in AnyUse
    BY <1>1
  <2> QED
    BY <2>1, UseRowFields
<1>3. q \in Nat /\ q <= k
  BY <1>1
<1>4. \A i \in 1 .. k : i <= q <=> \A x \in b : s[i].line < x
  BY <1>1, <1>3 DEF Early
<1>5. ASSUME NEW i \in 1 .. k PROVE q < i <=> \E x \in b : x <= s[i].line
  <2>1. \A x \in b : ~(s[i].line < x) <=> x <= s[i].line
    BY <1>2
  <2>2. q < i <=> ~(i <= q)
    BY <1>3
  <2> QED
    BY <1>4, <2>1, <2>2
<1>6. ASSUME NEW i \in 1 .. k PROVE i \in EndsAfter(s, b) <=> q < i /\ i \in AllEnds(s, b)
  BY <1>1, <1>5 DEF EndsAfter, AllEnds
<1>7. ASSUME NEW i \in 1 .. k, i < q PROVE i \notin AllEnds(s, b)
  <2>1. i < k /\ i + 1 \in 1 .. k /\ i + 1 <= q
    BY <1>3, <1>7
  <2>2. \A x \in b : s[i + 1].line < x
    BY <1>4, <2>1
  <2>3. s[i + 1].line \in Int
    BY <1>2, <2>1
  <2>4. \A x \in b : ~(x <= s[i + 1].line)
    BY <2>2, <2>3
  <2> QED
    BY <1>1, <2>1, <2>4 DEF AllEnds
<1>8. ASSUME q # 0 PROVE q \in AllEnds(s, b)
  <2>1. q \in 1 .. k
    BY <1>3, <1>8
  <2>2. ASSUME q < k PROVE \E x \in b : s[q].line < x /\ x <= s[q + 1].line
    <3>1. q + 1 \in 1 .. k /\ q < q + 1
      BY <1>3, <2>2
    <3>2. PICK x \in b : x <= s[q + 1].line
      BY <1>5, <3>1
    <3>3. s[q].line < x
      BY <1>4, <2>1
    <3> QED
      BY <3>2, <3>3
  <2> QED
    BY <1>1, <2>1, <2>2 DEF AllEnds
<1>9. AllEnds(s, b) \subseteq 1 .. k /\ EndsAfter(s, b) \subseteq 1 .. k
  BY <1>1 DEF AllEnds, EndsAfter
<1>10. \A i \in 1 .. k : i < q \/ i = q \/ q < i
  BY <1>3
<1>11. \A i : i \in AllEnds(s, b) <=> (q # 0 /\ i = q) \/ i \in EndsAfter(s, b)
  <2>1. ASSUME NEW i \in AllEnds(s, b) PROVE (q # 0 /\ i = q) \/ i \in EndsAfter(s, b)
    <3>1. i \in 1 .. k
      BY <1>9
    <3> QED
      BY <1>6, <1>7, <1>10, <3>1
  <2>2. ASSUME NEW i \in EndsAfter(s, b) PROVE i \in AllEnds(s, b)
    <3>1. i \in 1 .. k
      BY <1>9
    <3> QED
      BY <1>6, <3>1
  <2> QED
    BY <1>8, <2>1, <2>2
<1> QED
  BY <1>6, <1>9, <1>11

(* The records before all texts, and the last of them.                     *)
EarlyUses(us, ev) == At(Sorted(us, LineOf), Early(Sorted(us, LineOf), Breaks(ev)))
OnlyLast(s) == IF s = <<>> THEN <<>> ELSE <<Last(s)>>

LEMMA FrontOf ==
  ASSUME NEW X, NEW s \in Seq(X), NEW q \in 0 .. Len(s)
  PROVE  /\ At(s, 1 .. q) \in Seq(X) /\ OnlyLast(At(s, 1 .. q)) \in Seq(X)
         /\ q = 0 => OnlyLast(At(s, 1 .. q)) = <<>>
         /\ q # 0 => OnlyLast(At(s, 1 .. q)) = At(s, {q}) /\ q \in DOMAIN s
<1>1. PICK k \in Nat : k = Len(s) /\ DOMAIN s = 1 .. k
  OBVIOUS
<1>2. q \in Nat /\ q <= k
  BY <1>1
<1>3. PICK S \in SUBSET DOMAIN s : S = 1 .. q
  BY <1>1, <1>2
<1>4. PICK a : a = [i \in 1 .. q |-> i]
  OBVIOUS
<1>5. Rising(a, q, S)
  <2>1. a \in [1 .. q -> S] /\ (\A v \in S : v \in 1 .. q /\ a[v] = v) /\ \A j, i \in 1 .. q : j < i => a[j] < a[i]
    BY <1>3, <1>4
  <2> QED
    BY <2>1 DEF Rising
<1>6. At(s, S) = [i \in 1 .. q |-> s[a[i]]] /\ At(s, S) \in Seq(X) /\ Len(At(s, S)) = q
  BY <1>2, <1>5, AtRising
<1>7. PICK t \in Seq(X) : t = At(s, S) /\ Len(t) = q /\ \A i \in 1 .. q : t[i] = s[i]
  BY <1>4, <1>6
<1>8. CASE q = 0
  <2>1. t = <<>>
    BY <1>7, <1>8
  <2> QED
    BY <1>3, <1>7, <1>8, <2>1 DEF OnlyLast
<1>9. CASE q # 0
  <2>1. q \in 1 .. q /\ q \in DOMAIN s
    BY <1>1, <1>2, <1>9
  <2>2. t # <<>> /\ Last(t) = s[q]
    <3>1. Last(t) = t[Len(t)]
      BY DEF Last
    <3>2. t # <<>>
      BY <1>7, <1>9
    <3> QED
      BY <1>7, <2>1, <3>1, <3>2
  <2>3. At(s, {q}) = <<s[q]>> /\ s[q] \in X
    BY <2>1, AtOne
  <2>4. <<s[q]>> \in Seq(X)
    BY <2>3
  <2> QED
    BY <1>3, <1>7, <1>9, <2>1, <2>2, <2>3, <2>4 DEF OnlyLast
<1> QED
  BY <1>8, <1>9

LEMMA LinesSorted ==
  ASSUME NEW us \in Seq(AnyUse)
  PROVE  Sorted(us, LineOf) \in Seq(AnyUse) /\ LineRise(Sorted(us, LineOf)) /\ Inside(Sorted(us, LineOf), us)
<1>1. Maps(LineOf, AnyUse, Int)
  BY RecordMaps
<1>2. PICK s \in Seq(AnyUse) : s = Sorted(us, LineOf) /\ DOMAIN s = DOMAIN us
  BY <1>1, SortedIs
<1>3. \A j, k \in DOMAIN us : j < k => LineOf[s[j]] <= LineOf[s[k]]
  BY <1>1, <1>2, SortedIs
<1>4. \A i \in DOMAIN s : LineOf[s[i]] = s[i].line
  <2>1. \A i \in DOMAIN s : s[i] \in AnyUse
    OBVIOUS
  <2> QED
    BY <2>1 DEF LineOf
<1>5. LineRise(s)
  BY <1>2, <1>3, <1>4 DEF LineRise
<1>6. Inside(Sorted(us, LineOf), us)
  BY <1>1, SortInside
<1> QED
  BY <1>2, <1>5, <1>6

(* A turn of the dashboard is one of the walk, or what stands before.      *)
LEMMA TurnsJoin ==
  ASSUME NEW ev \in Seq(AnyEvent), Breaks(ev) # {}, NEW us \in Seq(AnyUse)
  PROVE  /\ TurnUsages(Sorted(us, LineOf), Bounds(ev)) = OnlyLast(EarlyUses(us, ev)) \o TurnEnds(us, ev)
         /\ OnlyLast(EarlyUses(us, ev)) \in Seq(AnyUse) /\ TurnEnds(us, ev) \in Seq(AnyUse) /\ Bounds(ev) # <<>>
<1>1. PICK s \in Seq(AnyUse) : s = Sorted(us, LineOf) /\ LineRise(s)
  BY LinesSorted
<1>2. PICK b \in SUBSET Int : b = Breaks(ev) /\ IsFiniteSet(b) /\ Bounds(ev) = Ascending(b)
  BY BoundsAre
<1>3. PICK q \in 0 .. Len(s) : Early(s, b) = 1 .. q
  BY <1>1, EarlyIs
<1>4. /\ AllEnds(s, b) = (IF q = 0 THEN {} ELSE {q}) \cup EndsAfter(s, b)
      /\ \A j \in EndsAfter(s, b) : q < j
  BY <1>1, <1>2, <1>3, EndsSplit
<1>5. /\ At(s, 1 .. q) \in Seq(AnyUse) /\ OnlyLast(At(s, 1 .. q)) \in Seq(AnyUse)
      /\ q = 0 => OnlyLast(At(s, 1 .. q)) = <<>>
      /\ q # 0 => OnlyLast(At(s, 1 .. q)) = At(s, {q}) /\ q \in DOMAIN s
  BY FrontOf
<1>6. TurnUsages(s, Ascending(b)) = At(s, AllEnds(s, b)) /\ Ascending(b) # <<>>
  BY <1>1, <1>2, TurnUsagesAre
<1>7. PICK o \in Seq(AnyUse) : o = OnlyLast(EarlyUses(us, ev)) /\ o = OnlyLast(At(s, 1 .. q))
  BY <1>1, <1>2, <1>3, <1>5 DEF EarlyUses
<1>8. PICK t \in Seq(AnyUse) : t = TurnEnds(us, ev) /\ t = At(s, EndsAfter(s, b))
  <2>1. TurnEnds(us, ev) \in Seq(AnyUse)
    BY TurnEndsAre
  <2> QED
    BY <1>1, <1>2, <2>1 DEF TurnEnds
<1>9. At(s, AllEnds(s, b)) = o \o t
  <2>1. CASE q = 0
    <3>1. AllEnds(s, b) = EndsAfter(s, b)
      BY <1>4, <2>1
    <3>2. o = <<>> /\ <<>> \o t = t
      BY <1>5, <1>7, <2>1
    <3> QED
      BY <1>8, <3>1, <3>2
  <2>2. CASE q # 0
    <3>1. PICK Q \in SUBSET DOMAIN s : Q = {q}
      BY <1>5, <2>2
    <3>2. PICK E \in SUBSET DOMAIN s : E = EndsAfter(s, b)
      BY DEF EndsAfter
    <3>3. \A i \in Q : \A j \in E : i < j
      BY <1>4, <3>1, <3>2
    <3>4. At(s, Q \cup E) = At(s, Q) \o At(s, E)
      BY <3>3, AtJoin
    <3>5. AllEnds(s, b) = Q \cup E
      BY <1>4, <2>2, <3>1, <3>2
    <3> QED
      BY <1>5, <1>7, <1>8, <2>2, <3>1, <3>2, <3>4, <3>5
  <2> QED
    BY <2>1, <2>2
<1> QED
  BY <1>1, <1>2, <1>6, <1>7, <1>8, <1>9

(* What of them has a date is the same, whether those without a context    *)
(* were dropped before or not.                                             *)
LEMMA KeptAgrees ==
  ASSUME NEW ev \in Seq(AnyEvent), Breaks(ev) # {}, NEW us \in Seq(AnyUse)
  PROVE  /\ Sieve(OnlyLast(EarlyUses(us, ev)) \o GrowthUses(us, ev), Kept) = KeptOf(us, Bounds(ev))
         /\ OnlyLast(EarlyUses(us, ev)) \o GrowthUses(us, ev) \in Seq(AnyUse)
<1>1. PICK o \in Seq(AnyUse) : o = OnlyLast(EarlyUses(us, ev))
  BY TurnsJoin
<1>2. PICK t \in Seq(AnyUse) : t = TurnEnds(us, ev)
  BY TurnsJoin
<1>3. TurnUsages(Sorted(us, LineOf), Bounds(ev)) = o \o t
  BY <1>1, <1>2, TurnsJoin
<1>4. KeptOf(us, Bounds(ev)) = Sieve(o, Kept) \o Sieve(t, Kept)
  <2>1. Sieve(o \o t, Kept) = Sieve(o, Kept) \o Sieve(t, Kept)
    BY SieveJoin
  <2> QED
    BY <1>3, <2>1 DEF KeptOf
<1>5. PICK g \in Seq(AnyUse) : g = GrowthUses(us, ev) /\ g = Sieve(t, Used)
  <2>1. Sieve(t, Used) \in Seq(AnyUse)
    BY SieveIs
  <2> QED
    BY <1>2, <2>1 DEF GrowthUses
<1>6. Sieve(g, Kept) = Sieve(t, Kept)
  <2>1. Sieve(Sieve(t, Used), Kept) = Sieve(t, Used \cap Kept)
    BY SieveTwice
  <2>2. Used \cap Kept = Kept
    BY DEF Used, Kept
  <2> QED
    BY <1>5, <2>1, <2>2
<1>7. Sieve(o \o g, Kept) = Sieve(o, Kept) \o Sieve(g, Kept)
  BY SieveJoin, SMTT(30)
<1>8. o \o g \in Seq(AnyUse)
  BY ConcatPlaces
<1> QED
  BY <1>1, <1>4, <1>5, <1>6, <1>7, <1>8

(***************************************************************************)
(* The dashboard shows the rows of the growth, and what stands before      *)
(***************************************************************************)
UseTime  == [u \in AnyUse |-> u.ts]
UseTuple == [u \in AnyUse |-> <<u.ts, u.model, u.ctx, CostOf(u)>>]
AnyTuple == {UseTuple[u] : u \in AnyUse}
RowTuple == [r \in AnyRow |-> <<r.ts, r.model, r.ctx, r.cost>>]
TupleTime == [z \in AnyTuple |-> z[1]]

LEMMA UseTupleIs ==
  ASSUME NEW u \in AnyUse
  PROVE  /\ UseTuple[u] = <<u.ts, u.model, u.ctx, CostOf(u)>> /\ UseTuple[u] \in AnyTuple
         /\ TupleTime[UseTuple[u]] = u.ts /\ u.ts \in Int /\ UseTime[u] = u.ts
<1>1. UseTuple[u] = <<u.ts, u.model, u.ctx, CostOf(u)>>
  BY DEF UseTuple
<1>2. UseTuple[u] \in AnyTuple
  BY DEF AnyTuple
<1>3. TupleTime[UseTuple[u]] = UseTuple[u][1]
  BY <1>2 DEF TupleTime
<1>4. PICK z : z = UseTuple[u] /\ z = <<u.ts, u.model, u.ctx, CostOf(u)>>
  BY <1>1
<1>5. z[1] = u.ts
  BY <1>4
<1>6. u.ts \in Int
  BY UseRowFields
<1>7. UseTime[u] = u.ts
  BY DEF UseTime
<1> QED
  BY <1>1, <1>2, <1>3, <1>4, <1>5, <1>6, <1>7

LEMMA RowTupleIs ==
  ASSUME NEW u \in AnyUse, NEW n \in Sid, NEW i \in Int
  PROVE  RowOf(u, n, i) \in AnyRow /\ RowTuple[RowOf(u, n, i)] = UseTuple[u] /\ TimeOf[RowOf(u, n, i)] = u.ts
<1>1. PICK r : r = RowOf(u, n, i)
  OBVIOUS
<1>2. r \in AnyRow
  BY <1>1 DEF AnyRow
<1>3. r.ts = u.ts /\ r.model = u.model /\ r.ctx = u.ctx /\ r.cost = CostOf(u)
  BY <1>1 DEF RowOf
<1>4. RowTuple[r] = <<r.ts, r.model, r.ctx, r.cost>>
  BY <1>2 DEF RowTuple
<1>5. TimeOf[r] = r.ts
  BY <1>2 DEF TimeOf
<1>6. UseTuple[u] = <<u.ts, u.model, u.ctx, CostOf(u)>>
  BY DEF UseTuple
<1> QED
  BY <1>1, <1>2, <1>3, <1>4, <1>5, <1>6

LEMMA TupleMaps ==
  /\ Maps(UseTime, AnyUse, Int) /\ Maps(UseTuple, AnyUse, AnyTuple) /\ Maps(RowTuple, AnyRow, AnyTuple)
  /\ Maps(TupleTime, AnyTuple, Int)
  /\ Through(UseTime, TupleTime, UseTuple, AnyUse) /\ Through(TimeOf, TupleTime, RowTuple, AnyRow)
<1>1. Maps(UseTime, AnyUse, Int)
  BY UseTupleIs DEF Maps, UseTime
<1>2. Maps(UseTuple, AnyUse, AnyTuple)
  BY UseTupleIs DEF Maps, UseTuple
<1>3. ASSUME NEW r \in AnyRow
      PROVE  RowTuple[r] \in AnyTuple /\ TupleTime[RowTuple[r]] = TimeOf[r]
  <2>1. PICK u \in AnyUse, m \in Sid, i \in Int : r = RowOf(u, m, i)
    BY DEF AnyRow
  <2>2. RowTuple[r] = UseTuple[u] /\ TimeOf[r] = u.ts
    BY <2>1, RowTupleIs
  <2> QED
    BY <2>2, UseTupleIs
<1>4. Maps(RowTuple, AnyRow, AnyTuple)
  BY <1>3 DEF Maps, RowTuple
<1>5. Maps(TupleTime, AnyTuple, Int)
  <2>1. \A z \in AnyTuple : TupleTime[z] \in Int
    BY UseTupleIs DEF AnyTuple
  <2>2. TupleTime = [z \in AnyTuple |-> TupleTime[z]]
    BY DEF TupleTime
  <2> QED
    BY <2>1, <2>2 DEF Maps
<1>6. Through(UseTime, TupleTime, UseTuple, AnyUse)
  BY UseTupleIs DEF Through
<1>7. Through(TimeOf, TupleTime, RowTuple, AnyRow)
  BY <1>3 DEF Through
<1> QED
  BY <1>1, <1>2, <1>4, <1>5, <1>6, <1>7

(* The events of a session in the order of their times are its records.    *)
LEMMA RowsByTime ==
  ASSUME NEW us \in Seq(AnyUse), NEW b, NEW n \in Sid
  PROVE  /\ Mapped(Sorted(DashRows(us, b, n), TimeOf), RowTuple) = Mapped(Sorted(KeptOf(us, b), UseTime), UseTuple)
         /\ Sorted(DashRows(us, b, n), TimeOf) \in Seq(AnyRow) /\ Sorted(KeptOf(us, b), UseTime) \in Seq(AnyUse)
<1>1. PICK k \in Seq(AnyUse) : k = KeptOf(us, b)
  BY KeptTagged
<1>2. PICK r \in Seq(AnyRow) : r = DashRows(us, b, n)
  BY EventsType
<1>3. Mapped(r, RowTuple) = Mapped(k, UseTuple)
  <2>1. DOMAIN r = DOMAIN k /\ \A i \in DOMAIN k : r[i] = RowOf(k[i], n, i)
    BY <1>1, <1>2 DEF DashRows
  <2>2. \A i \in DOMAIN k : k[i] \in AnyUse /\ i \in Int
    OBVIOUS
  <2>3. \A i \in DOMAIN k : RowTuple[r[i]] = UseTuple[k[i]]
    BY <2>1, <2>2, RowTupleIs
  <2> QED
    BY <2>1, <2>3 DEF Mapped
<1>4. Maps(TimeOf, AnyRow, Int)
  BY RowMaps
<1>5. Sorted(Mapped(r, RowTuple), TupleTime) = Mapped(Sorted(r, TimeOf), RowTuple) /\ Sorted(r, TimeOf) \in Seq(AnyRow)
  BY <1>4, TupleMaps, SortMapped
<1>6. Sorted(Mapped(k, UseTuple), TupleTime) = Mapped(Sorted(k, UseTime), UseTuple) /\ Sorted(k, UseTime) \in Seq(AnyUse)
  BY TupleMaps, SortMapped
<1> QED
  BY <1>1, <1>2, <1>3, <1>5, <1>6

LEMMA UseTimeSorted ==
  ASSUME NEW us \in Seq(AnyUse)
  PROVE  SortedBy(us, LAMBDA u : u.ts) = Sorted(us, UseTime)
<1>1. \A i \in DOMAIN us : us[i] \in AnyUse /\ UseTime[us[i]] = us[i].ts
  BY DEF UseTime
<1>2. [i \in DOMAIN us |-> us[i].ts] = [i \in DOMAIN us |-> UseTime[us[i]]]
  BY <1>1
<1>3. Computed([i \in DOMAIN us |-> UseTime[us[i]]]) = Mapped(us, UseTime)
  BY TupleMaps, AppliedIs
<1> QED
  BY <1>2, <1>3 DEF SortedBy, Sorted

(* What the property calls early, turns and dated.                         *)
LEMMA EarlyWhere ==
  ASSUME NEW ev \in Seq(AnyEvent), NEW us \in Seq(AnyUse), Breaks(ev) # {}
  PROVE  Where(SortedBy(us, LAMBDA u : u.line), LAMBDA u : Bounds(ev) # <<>> /\ u.line < Bounds(ev)[1])
           = EarlyUses(us, ev)
<1>1. PICK s \in Seq(AnyUse) : s = Sorted(us, LineOf) /\ s = SortedBy(us, LAMBDA u : u.line)
  BY LinesSorted, LineSorted
<1>2. PICK b \in SUBSET Int : b = Breaks(ev) /\ IsFiniteSet(b) /\ Bounds(ev) = Ascending(b)
  BY BoundsAre
<1>3. PICK B : B = Bounds(ev)
  OBVIOUS
<1>4. PICK n \in Nat : Rising(B, n, b) /\ DOMAIN B = 1 .. n
  BY <1>2, <1>3, AscendingRising
<1>5. /\ \A i \in 1 .. n : B[i] \in b /\ B[i] \in Int
      /\ \A x \in b : \E i \in 1 .. n : B[i] = x
      /\ \A j, k \in 1 .. n : j < k => B[j] < B[k]
  BY <1>4 DEF Rising
<1>6. 1 \in 1 .. n /\ B # <<>>
  <2>1. PICK x \in b : TRUE
    BY <1>2
  <2>2. PICK i \in 1 .. n : B[i] = x
    BY <1>5, <2>1
  <2>3. i \in DOMAIN B /\ DOMAIN <<>> = {} /\ 1 \in 1 .. n
    BY <1>4, <2>2
  <2> QED
    BY <2>3
<1>7. \A x \in b : B[1] <= x /\ x \in Int
  <2> SUFFICES ASSUME NEW x \in b PROVE B[1] <= x /\ x \in Int
    OBVIOUS
  <2>1. PICK i \in 1 .. n : B[i] = x
    BY <1>5
  <2>2. i = 1 \/ 1 < i
    OBVIOUS
  <2> QED
    BY <1>5, <1>6, <2>1, <2>2
<1>8. \A i \in DOMAIN s : (B # <<>> /\ s[i].line < B[1]) <=> \A x \in b : s[i].line < x
  <2> SUFFICES ASSUME NEW i \in DOMAIN s PROVE s[i].line < B[1] <=> \A x \in b : s[i].line < x
    BY <1>6
  <2>1. s[i] \in AnyUse
    OBVIOUS
  <2>2. PICK l \in Int : l = s[i].line
    BY <2>1, UseRowFields
  <2>3. B[1] \in b /\ B[1] \in Int
    BY <1>5, <1>6
  <2>4. ASSUME l < B[1] PROVE \A x \in b : l < x
    BY <1>7, <2>3, <2>4
  <2> QED
    BY <2>2, <2>3, <2>4
<1>9. {i \in DOMAIN s : B # <<>> /\ s[i].line < B[1]} = Early(s, b)
  BY <1>8 DEF Early
<1>10. Where(s, LAMBDA u : B # <<>> /\ u.line < B[1]) = At(s, Early(s, b))
  BY <1>9 DEF Where
<1> QED
  BY <1>1, <1>2, <1>3, <1>10 DEF EarlyUses

LEMMA BoundsNone ==
  ASSUME NEW ev \in Seq(AnyEvent)
  PROVE  Bounds(ev) = <<>> <=> Breaks(ev) = {}
<1>1. PICK b \in SUBSET Int : b = Breaks(ev) /\ IsFiniteSet(b) /\ Bounds(ev) = Ascending(b)
  BY BoundsAre
<1>2. PICK B : B = Ascending(b)
  OBVIOUS
<1>3. PICK n \in Nat : Rising(B, n, b) /\ DOMAIN B = 1 .. n
  BY <1>1, <1>2, AscendingRising
<1>4. ASSUME b = {} PROVE B = <<>>
  <2>1. \A i \in 1 .. n : B[i] \in b
    BY <1>3 DEF Rising
  <2>2. ~(1 \in 1 .. n)
    BY <1>4, <2>1
  <2>3. n = 0
    BY <2>2
  <2>4. B \in [1 .. 0 -> b]
    BY <1>3, <2>3 DEF Rising
  <2> QED
    BY <2>4
<1>5. ASSUME b # {} PROVE B # <<>>
  <2>1. PICK x \in b : TRUE
    BY <1>5
  <2>2. PICK i \in 1 .. n : B[i] = x
    BY <1>3, <2>1 DEF Rising
  <2>3. i \in DOMAIN B /\ DOMAIN <<>> = {}
    BY <1>3, <2>2
  <2> QED
    BY <2>3
<1> QED
  BY <1>1, <1>2, <1>4, <1>5

(* A transcript of one file, and what is made of it.                       *)
LEMMA FileViews ==
  ASSUME NEW f, Parsed(f), NEW us, us = Usages(f.meta, NoTime)
  PROVE  /\ us \in Seq(AnyUse) /\ f.events \in Seq(AnyEvent)
         /\ OneFile(f).meta = f.meta /\ OneFile(f).events = f.events
         /\ computeTurnStats(OneFile(f)) = GrowthRows(us, f.events)
         /\ GrowthUses(us, f.events) \in Seq(AnyUse)
         /\ BoundaryLines(OneFile(f), Live) = Bounds(f.events)
         /\ txToDashData(OneFile(f)) = Sorted(DashRows(us, Bounds(f.events), Live), TimeOf)
<1>1. PICK tx : tx = OneFile(f)
  OBVIOUS
<1>2. tx.meta = f.meta /\ tx.events = f.events /\ BoundaryLines(tx, Live) = Bounds(f.events)
  BY <1>1 DEF OneFile, BoundaryLines, Session, Bounds
<1>3. f.meta \in Seq(AnyMeta) /\ f.events \in Seq(AnyEvent)
  BY ParsedIs
<1>4. computeTurnStats(tx) = GrowthRows(us, tx.events) /\ GrowthUses(us, tx.events) \in Seq(AnyUse)
  <2>1. tx.events \in Seq(AnyEvent) /\ tx.meta \in Seq(AnyMeta) /\ us = Usages(tx.meta, NoTime)
    BY <1>2, <1>3
  <2> QED
    BY <2>1, GrowthIs
<1>5. us \in Seq(AnyUse) /\ txToDashData(OneFile(f)) = Sorted(DashRows(us, Bounds(f.events), Live), TimeOf)
  BY OneFileIs
<1> QED
  BY <1>1, <1>2, <1>3, <1>4, <1>5

(* The records of the rows of the growth.                                  *)
LEMMA GrowthList ==
  ASSUME NEW ev, NEW us, GrowthUses(us, ev) \in Seq(AnyUse)
  PROVE  /\ Apply(GrowthRows(us, ev), LAMBDA r : r.use) = GrowthUses(us, ev)
         /\ Len(GrowthRows(us, ev)) = Len(GrowthUses(us, ev)) /\ DOMAIN GrowthRows(us, ev) = DOMAIN GrowthUses(us, ev)
         /\ \A i \in DOMAIN GrowthUses(us, ev) :
              GrowthRows(us, ev)[i].use = GrowthUses(us, ev)[i] /\ GrowthRows(us, ev)[i].turnNum = i
<1>1. PICK g \in Seq(AnyUse) : g = GrowthUses(us, ev)
  OBVIOUS
<1>2. PICK n \in Nat : n = Len(g) /\ DOMAIN g = 1 .. n
  OBVIOUS
<1>3. PICK r : r = GrowthRows(us, ev)
  OBVIOUS
<1>4. r = [i \in 1 .. n |-> GrowthRow(g, i)]
  BY <1>1, <1>2, <1>3 DEF GrowthRows
<1>5. Len(r) = n /\ DOMAIN r = 1 .. n
  BY <1>4
<1>6. \A i \in 1 .. n : r[i].use = g[i] /\ r[i].turnNum = i
  BY <1>4 DEF GrowthRow
<1>7. [i \in DOMAIN r |-> r[i].use] = g
  BY <1>2, <1>5, <1>6
<1>8. Computed(g) = g
  BY ComputedList
<1>9. Apply(r, LAMBDA x : x.use) = g
  BY <1>7, <1>8 DEF Apply
<1> QED
  BY <1>1, <1>2, <1>3, <1>5, <1>6, <1>9

(* Without a text there is no turn, and no row.                            *)
LEMMA NoTextNoRow ==
  ASSUME NEW ev \in Seq(AnyEvent), NEW us \in Seq(AnyUse), Breaks(ev) = {}
  PROVE  GrowthRows(us, ev) = <<>>
<1>1. PICK s \in Seq(AnyUse) : s = Sorted(us, LineOf)
  BY LinesSorted
<1>2. EndsAfter(s, Breaks(ev)) = {}
  BY EndsNone
<1>3. At(s, {}) = <<>>
  BY AtNone
<1>4. TurnEnds(us, ev) = <<>>
  BY <1>1, <1>2, <1>3 DEF TurnEnds
<1>5. GrowthUses(us, ev) = <<>>
  BY <1>4, SieveNone DEF GrowthUses
<1>6. PICK g : g = GrowthUses(us, ev) /\ DOMAIN g = {}
  BY <1>5
<1> QED
  BY <1>6 DEF GrowthRows

LEMMA DashTuples ==
  ASSUME NEW f, Parsed(f), NEW us, us = Usages(f.meta, NoTime), Breaks(f.events) # {},
         NEW early, early = Where(SortedBy(us, LAMBDA u : u.line),
                         LAMBDA u : Bounds(f.events) # <<>> /\ u.line < Bounds(f.events)[1]),
         NEW turns, turns = (IF early = <<>> THEN <<>> ELSE <<Last(early)>>)
                              \o Apply(computeTurnStats(OneFile(f)), LAMBDA r : r.use)
  PROVE  Apply(txToDashData(OneFile(f)), LAMBDA e : <<e.ts, e.model, e.ctx, e.cost>>)
           = Apply(SortedBy(Where(turns, LAMBDA u : u.ts # NoTime /\ u.ctx # 0), LAMBDA u : u.ts),
                   LAMBDA u : <<u.ts, u.model, u.ctx, CostOf(u)>>)
<1>1. /\ us \in Seq(AnyUse) /\ f.events \in Seq(AnyEvent)
      /\ computeTurnStats(OneFile(f)) = GrowthRows(us, f.events)
      /\ GrowthUses(us, f.events) \in Seq(AnyUse)
      /\ txToDashData(OneFile(f)) = Sorted(DashRows(us, Bounds(f.events), Live), TimeOf)
  BY FileViews
<1>2. PICK ev \in Seq(AnyEvent) : ev = f.events
  BY <1>1
<1>3. early = EarlyUses(us, ev)
  BY <1>1, <1>2, EarlyWhere
<1>4. turns = OnlyLast(EarlyUses(us, ev)) \o GrowthUses(us, ev)
  <2>1. Apply(GrowthRows(us, ev), LAMBDA r : r.use) = GrowthUses(us, ev)
    BY <1>1, <1>2, GrowthList
  <2> QED
    BY <1>1, <1>2, <1>3, <2>1 DEF OnlyLast
<1>5. PICK t \in Seq(AnyUse) : t = turns /\ Sieve(t, Kept) = KeptOf(us, Bounds(ev))
  BY <1>1, <1>2, <1>4, KeptAgrees
<1>6. Live \in Sid
  BY DEF Sid
<1>7. PICK k \in Seq(AnyUse) : k = KeptOf(us, Bounds(ev))
  BY <1>1, <1>6, KeptTagged
<1>8. /\ Mapped(Sorted(DashRows(us, Bounds(ev), Live), TimeOf), RowTuple) = Mapped(Sorted(KeptOf(us, Bounds(ev)), UseTime), UseTuple)
      /\ Sorted(DashRows(us, Bounds(ev), Live), TimeOf) \in Seq(AnyRow) /\ Sorted(KeptOf(us, Bounds(ev)), UseTime) \in Seq(AnyUse)
  BY <1>1, <1>6, RowsByTime
<1>9. PICK d \in Seq(AnyRow) : d = Sorted(DashRows(us, Bounds(ev), Live), TimeOf) /\ d = txToDashData(OneFile(f))
  BY <1>1, <1>2, <1>8
<1>10. PICK e \in Seq(AnyUse) : e = Sorted(k, UseTime)
  BY <1>7, <1>8
<1>11. Mapped(d, RowTuple) = Mapped(e, UseTuple)
  BY <1>7, <1>8, <1>9, <1>10
<1>12. SortedBy(Where(t, LAMBDA u : u.ts # NoTime /\ u.ctx # 0), LAMBDA u : u.ts) = e
  <2>1. Where(t, LAMBDA u : u.ts # NoTime /\ u.ctx # 0) = Sieve(t, Kept)
    BY KeptWhere
  <2>2. SortedBy(k, LAMBDA u : u.ts) = Sorted(k, UseTime)
    BY UseTimeSorted
  <2> QED
    BY <1>5, <1>7, <1>10, <2>1, <2>2
<1>13. Apply(d, LAMBDA x : <<x.ts, x.model, x.ctx, x.cost>>) = Mapped(d, RowTuple)
  <2>1. \A i \in DOMAIN d : d[i] \in AnyRow /\ RowTuple[d[i]] = <<d[i].ts, d[i].model, d[i].ctx, d[i].cost>>
    BY DEF RowTuple
  <2>2. [i \in DOMAIN d |-> <<d[i].ts, d[i].model, d[i].ctx, d[i].cost>>] = [i \in DOMAIN d |-> RowTuple[d[i]]]
    BY <2>1
  <2>3. Computed([i \in DOMAIN d |-> RowTuple[d[i]]]) = Mapped(d, RowTuple)
    BY TupleMaps, AppliedIs
  <2> QED
    BY <2>2, <2>3 DEF Apply
<1>14. Apply(e, LAMBDA u : <<u.ts, u.model, u.ctx, CostOf(u)>>) = Mapped(e, UseTuple)
  <2>1. \A i \in DOMAIN e : e[i] \in AnyUse /\ UseTuple[e[i]] = <<e[i].ts, e[i].model, e[i].ctx, CostOf(e[i])>>
    BY DEF UseTuple
  <2>2. [i \in DOMAIN e |-> <<e[i].ts, e[i].model, e[i].ctx, CostOf(e[i])>>] = [i \in DOMAIN e |-> UseTuple[e[i]]]
    BY <2>1
  <2>3. Computed([i \in DOMAIN e |-> UseTuple[e[i]]]) = Mapped(e, UseTuple)
    BY TupleMaps, AppliedIs
  <2> QED
    BY <2>2, <2>3 DEF Apply
<1> QED
  BY <1>5, <1>9, <1>11, <1>12, <1>13, <1>14, Zenon

(***************************************************************************)
(* What the dashboard charges, against the header of the session           *)
(***************************************************************************)
RatesNat == \A m \in W!Label : \A k \in Bucket : Rate[m][k] \in Nat

LEMMA NatProduct == ASSUME NEW a \in Nat, NEW b \in Nat PROVE a * b \in Nat
OBVIOUS

LEMMA BucketFinite == IsFiniteSet(Bucket)
<1>1. IsFiniteSet({})
  BY FS_EmptySet
<1>2. IsFiniteSet({} \cup {"input"})
  BY <1>1, FS_AddElement
<1>3. IsFiniteSet(({} \cup {"input"}) \cup {"create"})
  BY <1>2, FS_AddElement
<1>4. IsFiniteSet((({} \cup {"input"}) \cup {"create"}) \cup {"read"})
  BY <1>3, FS_AddElement
<1>5. IsFiniteSet(((({} \cup {"input"}) \cup {"create"}) \cup {"read"}) \cup {"output"})
  BY <1>4, FS_AddElement
<1>6. Bucket = (((({} \cup {"input"}) \cup {"create"}) \cup {"read"}) \cup {"output"})
  BY DEF Bucket
<1> QED
  BY <1>5, <1>6

LEMMA CostIsNat ==
  ASSUME RatesNat, NEW t \in [Bucket -> Nat], NEW m \in W!Label
  PROVE  CostBy(t, m) \in Nat
<1>1. PICK f : f = [k \in Bucket |-> t[k] * Rate[m][k]]
  OBVIOUS
<1>2. \A k \in Bucket : f[k] \in Nat
  <2> SUFFICES ASSUME NEW k \in Bucket PROVE f[k] \in Nat
    OBVIOUS
  <2>1. t[k] \in Nat /\ Rate[m][k] \in Nat
    BY DEF RatesNat
  <2>2. t[k] * Rate[m][k] \in Nat
    BY <2>1, NatProduct
  <2> QED
    BY <1>1, <2>2
<1>3. \A k \in Bucket : f[k] \in Int /\ f[k] >= 0
  BY <1>2
<1>4. SumFunctionOnSet(f, Bucket) \in Int /\ SumFunctionOnSet(f, Bucket) >= 0
  BY <1>3, BucketFinite, SumType
<1>5. CostBy(t, m) = SumFunctionOnSet(f, Bucket)
  BY <1>1 DEF CostBy, SumEach
<1> QED
  BY <1>4, <1>5

LEMMA LabelOf ==
  ASSUME NEW model, NEW ts
  PROVE  W!modelFor(model, ts) \in W!Label
BY DEF W!modelFor, W!Ladder, W!Label

(* Reading undated records as the header does changes no tokens, and the   *)
(* model of none that has a date.                                          *)
Reread(us, vs) ==
  /\ DOMAIN vs = DOMAIN us /\ Len(vs) = Len(us)
  /\ \A i \in DOMAIN us :
       /\ vs[i].tokens = us[i].tokens /\ vs[i].ctx = us[i].ctx
       /\ us[i].tokens \in [Bucket -> Nat] /\ us[i].ctx = usageCtxInput(us[i].tokens)
       /\ vs[i].model \in W!Label /\ us[i].model \in W!Label
       /\ us[i].ts # NoTime => vs[i].model = us[i].model
UseFrom(ts) == {asUsageRecord(m, ts) : m \in AnyMeta}

LEMMA HeaderUses ==
  ASSUME NEW meta \in Seq(AnyMeta), NEW ts
  PROVE  Usages(meta, ts) \in Seq(UseFrom(ts)) /\ Reread(Usages(meta, NoTime), Usages(meta, ts))
<1>1. PICK us \in Seq(AnyUse) : us = Usages(meta, NoTime) /\ us = Mapped(Sieve(meta, Status), UseOf)
  BY UsagesAre
<1>2. PICK w \in Seq(AnyMeta) : w = Sieve(meta, Status)
  BY UsagesAre
<1>3. w = Where(meta, LAMBDA m : m.type = "status_update")
  <2>1. \A i \in DOMAIN meta : meta[i] \in AnyMeta
    OBVIOUS
  <2>2. {i \in DOMAIN meta : meta[i] \in Status} = {i \in DOMAIN meta : meta[i].type = "status_update"}
    BY <2>1 DEF Status
  <2> QED
    BY <1>2, <2>2 DEF Sieve, Where
<1>4. PICK F : F = [m \in AnyMeta |-> asUsageRecord(m, ts)]
  OBVIOUS
<1>5. Maps(F, AnyMeta, UseFrom(ts)) /\ \A m \in AnyMeta : F[m] = asUsageRecord(m, ts)
  BY <1>4 DEF Maps, UseFrom
<1>6. Usages(meta, ts) = Mapped(w, F)
  <2>1. \A i \in DOMAIN w : w[i] \in AnyMeta
    OBVIOUS
  <2>2. [i \in DOMAIN w |-> asUsageRecord(w[i], ts)] = [i \in DOMAIN w |-> F[w[i]]]
    BY <1>5, <2>1
  <2>3. Computed([i \in DOMAIN w |-> F[w[i]]]) = Mapped(w, F)
    BY <1>5, AppliedIs
  <2>4. Apply(w, LAMBDA m : asUsageRecord(m, ts)) = Mapped(w, F)
    BY <2>2, <2>3 DEF Apply
  <2> QED
    BY <1>3, <2>4 DEF Usages
<1>7. /\ Mapped(w, F) \in Seq(UseFrom(ts)) /\ Len(Mapped(w, F)) = Len(w) /\ DOMAIN Mapped(w, F) = DOMAIN w
      /\ \A i \in DOMAIN w : w[i] \in AnyMeta /\ Mapped(w, F)[i] = F[w[i]]
  <2>1. PICK V : V = UseFrom(ts)
    OBVIOUS
  <2>2. Maps(F, AnyMeta, V)
    BY <1>5, <2>1
  <2>3. /\ Mapped(w, F) \in Seq(V) /\ Len(Mapped(w, F)) = Len(w) /\ DOMAIN Mapped(w, F) = DOMAIN w
        /\ \A i \in DOMAIN w : w[i] \in AnyMeta /\ Mapped(w, F)[i] = F[w[i]]
    BY <2>2, MappedIs
  <2> QED
    BY <2>1, <2>3
<1>8. PICK vs \in Seq(UseFrom(ts)) : vs = Usages(meta, ts) /\ vs = Mapped(w, F)
  BY <1>6, <1>7
<1>9. /\ Len(us) = Len(w) /\ DOMAIN us = DOMAIN w
      /\ \A i \in DOMAIN w : w[i] \in AnyMeta /\ us[i] = UseOf[w[i]]
  <2>1. /\ Mapped(w, UseOf) \in Seq(AnyUse) /\ Len(Mapped(w, UseOf)) = Len(w) /\ DOMAIN Mapped(w, UseOf) = DOMAIN w
        /\ \A i \in DOMAIN w : w[i] \in AnyMeta /\ Mapped(w, UseOf)[i] = UseOf[w[i]]
    BY RecordMaps, MappedIs
  <2> QED
    BY <1>1, <1>2, <2>1
<1>10. ASSUME NEW m \in AnyMeta, NEW u, u = asUsageRecord(m, NoTime), NEW v, v = asUsageRecord(m, ts)
       PROVE  /\ v.tokens = u.tokens /\ v.ctx = u.ctx
              /\ u.tokens \in [Bucket -> Nat] /\ u.ctx = usageCtxInput(u.tokens)
              /\ v.model \in W!Label /\ u.model \in W!Label
              /\ u.ts # NoTime => v.model = u.model
  <2>1. u.tokens = m.tokens /\ v.tokens = m.tokens /\ u.ctx = usageCtxInput(m.tokens) /\ v.ctx = usageCtxInput(m.tokens)
    BY <1>10 DEF asUsageRecord
  <2>2. /\ u.ts = m.ts /\ u.model = W!modelFor(m.model, IF m.ts # NoTime THEN m.ts ELSE NoTime)
        /\ v.model = W!modelFor(m.model, IF m.ts # NoTime THEN m.ts ELSE ts)
    BY <1>10 DEF asUsageRecord
  <2>3. m.tokens \in [Bucket -> Nat]
    BY DEF AnyMeta
  <2>4. u.model \in W!Label /\ v.model \in W!Label
    BY <2>2, LabelOf
  <2>5. u.ts # NoTime => v.model = u.model
    BY <2>2
  <2> QED
    BY <2>1, <2>3, <2>4, <2>5
<1>11. ASSUME NEW i \in DOMAIN us
       PROVE  /\ vs[i].tokens = us[i].tokens /\ vs[i].ctx = us[i].ctx
              /\ us[i].tokens \in [Bucket -> Nat] /\ us[i].ctx = usageCtxInput(us[i].tokens)
              /\ vs[i].model \in W!Label /\ us[i].model \in W!Label
              /\ us[i].ts # NoTime => vs[i].model = us[i].model
  <2>1. w[i] \in AnyMeta /\ us[i] = UseOf[w[i]] /\ vs[i] = F[w[i]]
    BY <1>7, <1>8, <1>9
  <2>2. us[i] = asUsageRecord(w[i], NoTime) /\ vs[i] = asUsageRecord(w[i], ts)
    BY <1>5, <2>1, UseRowIs
  <2> QED
    BY <1>10, <2>1, <2>2
<1>12. DOMAIN vs = DOMAIN us /\ Len(vs) = Len(us)
  BY <1>7, <1>8, <1>9
<1> QED
  BY <1>1, <1>8, <1>11, <1>12 DEF Reread

LEMMA TurnsInside ==
  ASSUME NEW us \in Seq(AnyUse), NEW b
  PROVE  Inside(TurnUsages(us, b), us)
<1> DEFINE passed(u) == Cardinality({i \in DOMAIN b : b[i] <= u.line})
           S == {i \in DOMAIN us : i < Len(us) => passed(us[i]) < passed(us[i + 1])}
<1>1. S \in SUBSET DOMAIN us
  OBVIOUS
<1>2. TurnUsages(us, b) = IF b = <<>> THEN us ELSE At(us, S)
  BY DEF TurnUsages
<1> HIDE DEF S
<1>3. Inside(At(us, S), us)
  BY <1>1, AtInside
<1>4. Inside(us, us)
  <2>1. PICK p : p = [i \in DOMAIN us |-> i]
    OBVIOUS
  <2>2. Within(p, us, us)
    BY <2>1 DEF Within
  <2> QED
    BY <2>2 DEF Inside
<1> QED
  BY <1>2, <1>3, <1>4

(* The records the dashboard keeps are some of all.                        *)
LEMMA SieveInside ==
  ASSUME NEW X, NEW s \in Seq(X), NEW P
  PROVE  Inside(Sieve(s, P), s)
<1>1. PICK S : S = {i \in DOMAIN s : s[i] \in P}
  OBVIOUS
<1>2. S \in SUBSET DOMAIN s
  BY <1>1
<1>3. Inside(At(s, S), s)
  BY <1>2, AtInside
<1> QED
  BY <1>1, <1>3 DEF Sieve

LEMMA KeptInside ==
  ASSUME NEW us \in Seq(AnyUse), NEW b
  PROVE  /\ Inside(KeptOf(us, b), us) /\ KeptOf(us, b) \in Seq(AnyUse)
         /\ \A i \in DOMAIN KeptOf(us, b) : KeptOf(us, b)[i] \in Kept
<1>1. PICK s \in Seq(AnyUse) : s = Sorted(us, LineOf) /\ Inside(s, us)
  BY LinesSorted
<1>2. PICK t \in Seq(AnyUse) : t = TurnUsages(s, b)
  BY TurnsType
<1>3. Inside(t, s)
  BY <1>2, TurnsInside
<1>4. Inside(Sieve(t, Kept), t)
  BY SieveInside
<1>5. Inside(t, us)
  BY <1>1, <1>3, InsideTrans
<1>6. Inside(Sieve(t, Kept), us)
  BY <1>4, <1>5, InsideTrans
<1>7. Sieve(t, Kept) \in Seq(AnyUse) /\ \A k \in DOMAIN Sieve(t, Kept) : Sieve(t, Kept)[k] \in Kept
  BY SieveIs
<1> QED
  BY <1>1, <1>2, <1>6, <1>7 DEF KeptOf

(* Each event of the dashboard is a dated record of its own.               *)
Charged(p, d, us) ==
  /\ p \in [DOMAIN d -> DOMAIN us]
  /\ \A j, k \in DOMAIN d : p[j] = p[k] => j = k
  /\ \A k \in DOMAIN d : us[p[k]].ts # NoTime /\ d[k].cost = CostOf(us[p[k]])

LEMMA DashCharged ==
  ASSUME NEW us \in Seq(AnyUse), NEW b, NEW d \in Seq(AnyRow), d = Sorted(DashRows(us, b, Live), TimeOf)
  PROVE  \E p : Charged(p, d, us)
<1>1. PICK k \in Seq(AnyUse) : /\ k = KeptOf(us, b) /\ Inside(k, us)
                               /\ \A i \in DOMAIN k : k[i] \in Kept
  BY KeptInside
<1>2. Live \in Sid
  BY DEF Sid
<1>3. PICK r \in Seq(AnyRow) : r = DashRows(us, b, Live)
  BY <1>2, EventsType
<1>4. DOMAIN r = DOMAIN k /\ \A i \in DOMAIN k : r[i] = RowOf(k[i], Live, i)
  BY <1>1, <1>3 DEF DashRows
<1>5. \A i \in DOMAIN k : r[i].cost = CostOf(k[i])
  BY <1>4 DEF RowOf
<1>6. Inside(d, r)
  <2>1. Maps(TimeOf, AnyRow, Int)
    BY <1>2, RowMaps
  <2> QED
    BY <1>3, <2>1, SortInside
<1>7. PICK p1 : Within(p1, d, r)
  BY <1>6 DEF Inside
<1>8. PICK p2 : Within(p2, k, us)
  BY <1>1 DEF Inside
<1>9. PICK p : p = [i \in DOMAIN d |-> p2[p1[i]]]
  OBVIOUS
<1>10. \A i \in DOMAIN d : p1[i] \in DOMAIN k /\ d[i] = r[p1[i]]
  BY <1>4, <1>7 DEF Within
<1>11. \A i \in DOMAIN k : p2[i] \in DOMAIN us /\ k[i] = us[p2[i]] /\ us[p2[i]].ts # NoTime
  <2>1. \A i \in DOMAIN k : p2[i] \in DOMAIN us /\ k[i] = us[p2[i]]
    BY <1>8 DEF Within
  <2>2. \A i \in DOMAIN k : k[i].ts # NoTime
    BY <1>1 DEF Kept
  <2> QED
    BY <2>1, <2>2
<1>12. \A i \in DOMAIN d : us[p[i]].ts # NoTime /\ d[i].cost = CostOf(us[p[i]])
  BY <1>5, <1>9, <1>10, <1>11
<1>13. \A i, j \in DOMAIN d : p[i] = p[j] => i = j
  <2> SUFFICES ASSUME NEW i \in DOMAIN d, NEW j \in DOMAIN d, p[i] = p[j] PROVE i = j
    OBVIOUS
  <2>1. p1[i] \in DOMAIN k /\ p1[j] \in DOMAIN k /\ p2[p1[i]] = p2[p1[j]]
    BY <1>9, <1>10
  <2>2. p1[i] = p1[j]
    BY <1>8, <2>1 DEF Within
  <2> QED
    BY <1>7, <2>2 DEF Within
<1>14. p \in [DOMAIN d -> DOMAIN us]
  BY <1>9, <1>10, <1>11
<1> QED
  BY <1>12, <1>13, <1>14 DEF Charged

LEMMA CostByFields ==
  ASSUME NEW u
  PROVE  CostOf(u) = CostBy(u.tokens, u.model)
BY Zenon DEF CostOf, CostBy

LEMMA DashCostsLess ==
  ASSUME RatesNat, NEW us \in Seq(AnyUse), NEW V, NEW vs \in Seq(V), Reread(us, vs),
         NEW b, NEW d \in Seq(AnyRow), d = Sorted(DashRows(us, b, Live), TimeOf)
  PROVE  SumOver(d, LAMBDA e : e.cost) <= SumOver(vs, CostOf)
<1>1. PICK p : Charged(p, d, us)
  BY DashCharged
<1>2. PICK f : f = [i \in DOMAIN d |-> d[i].cost]
  OBVIOUS
<1>3. PICK g : g = [i \in DOMAIN vs |-> CostOf(vs[i])]
  OBVIOUS
<1>4. \A i \in DOMAIN vs : g[i] \in Nat
  <2> SUFFICES ASSUME NEW i \in DOMAIN vs PROVE g[i] \in Nat
    OBVIOUS
  <2>1. vs[i].tokens \in [Bucket -> Nat] /\ vs[i].model \in W!Label
    BY DEF Reread
  <2>2. CostBy(vs[i].tokens, vs[i].model) \in Nat
    BY <2>1, CostIsNat
  <2> QED
    BY <1>3, <2>2, CostByFields
<1>5. \A k \in DOMAIN d : f[k] = g[p[k]]
  <2> SUFFICES ASSUME NEW k \in DOMAIN d PROVE f[k] = g[p[k]]
    OBVIOUS
  <2>1. p[k] \in DOMAIN us /\ us[p[k]].ts # NoTime /\ d[k].cost = CostOf(us[p[k]])
    BY <1>1 DEF Charged
  <2>2. PICK u : u = us[p[k]]
    OBVIOUS
  <2>3. PICK v : v = vs[p[k]]
    OBVIOUS
  <2>4. v.tokens = u.tokens /\ v.model = u.model /\ p[k] \in DOMAIN vs
    BY <2>1, <2>2, <2>3 DEF Reread
  <2>5. CostOf(v) = CostBy(v.tokens, v.model) /\ CostOf(u) = CostBy(u.tokens, u.model)
    BY CostByFields
  <2>6. CostOf(v) = CostOf(u)
    BY <2>4, <2>5
  <2> QED
    BY <1>2, <1>3, <2>1, <2>2, <2>3, <2>4, <2>6
<1>6. p \in [DOMAIN d -> DOMAIN vs] /\ \A j, k \in DOMAIN d : p[j] = p[k] => j = k
  BY <1>1 DEF Charged, Reread
<1>7. \A k \in DOMAIN d : f[k] \in Nat /\ f[k] <= g[p[k]]
  <2>1. \A k \in DOMAIN d : g[p[k]] \in Nat
    BY <1>4, <1>6
  <2> QED
    BY <1>5, <2>1
<1>8. SumFunctionOnSet(f, DOMAIN d) <= SumFunctionOnSet(g, DOMAIN vs)
  BY <1>4, <1>6, <1>7, SumBelow
<1> QED
  BY <1>2, <1>3, <1>8 DEF SumOver, SumEach

(***************************************************************************)
(* The summary of the growth, and the row under the cursor                 *)
(***************************************************************************)
LEMMA GrowthInside ==
  ASSUME NEW us \in Seq(AnyUse), NEW ev \in Seq(AnyEvent)
  PROVE  Inside(GrowthUses(us, ev), us) /\ GrowthUses(us, ev) \in Seq(AnyUse)
<1>1. PICK s \in Seq(AnyUse) : s = Sorted(us, LineOf) /\ Inside(s, us)
  BY LinesSorted
<1>2. PICK E \in SUBSET DOMAIN s : E = EndsAfter(s, Breaks(ev))
  BY DEF EndsAfter
<1>3. PICK t \in Seq(AnyUse) : t = TurnEnds(us, ev)
  BY TurnEndsAre
<1>4. Inside(t, s)
  <2>1. Inside(At(s, E), s)
    BY AtInside
  <2> QED
    BY <1>1, <1>2, <1>3, <2>1 DEF TurnEnds
<1>5. Inside(Sieve(t, Used), t)
  BY SieveInside
<1>6. Inside(t, us)
  BY <1>1, <1>4, InsideTrans
<1>7. Inside(Sieve(t, Used), us)
  BY <1>5, <1>6, InsideTrans
<1>8. Sieve(t, Used) \in Seq(AnyUse)
  BY SieveIs
<1> QED
  BY <1>3, <1>7, <1>8 DEF GrowthUses

LEMMA ContextIs ==
  ASSUME NEW t \in [Bucket -> Nat]
  PROVE  /\ usageCtxInput(t) \in Nat /\ t["input"] \in Nat /\ t["output"] \in Nat
         /\ t["input"] <= usageCtxInput(t)
<1>1. t["input"] \in Nat /\ t["create"] \in Nat /\ t["read"] \in Nat /\ t["output"] \in Nat
  BY DEF Bucket
<1> QED
  BY <1>1 DEF usageCtxInput

(* The rows count no more tokens than the header.                          *)
LEMMA RowTokens ==
  ASSUME NEW us \in Seq(AnyUse), NEW V, NEW vs \in Seq(V), Reread(us, vs),
         NEW ls \in Seq(AnyUse), Inside(ls, us),
         NEW rows, DOMAIN rows = DOMAIN ls, \A i \in DOMAIN ls : rows[i].use = ls[i]
  PROVE  /\ SumOver(rows, LAMBDA r : r.use.tokens["output"]) <= SumOver(vs, LAMBDA u : u.tokens["output"])
         /\ SumOver(rows, LAMBDA r : r.use.tokens["input"]) <= SumOver(vs, LAMBDA u : u.ctx)
<1>1. PICK p : Within(p, ls, us)
  BY DEF Inside
<1>2. /\ p \in [DOMAIN ls -> DOMAIN vs] /\ \A j, k \in DOMAIN ls : p[j] = p[k] => j = k
      /\ \A k \in DOMAIN ls : p[k] \in DOMAIN us /\ ls[k] = us[p[k]]
  BY <1>1 DEF Within, Reread
<1>3. \A i \in DOMAIN vs : /\ vs[i].tokens = us[i].tokens /\ vs[i].ctx = us[i].ctx
                           /\ us[i].tokens \in [Bucket -> Nat] /\ us[i].ctx = usageCtxInput(us[i].tokens)
  BY DEF Reread
<1>4. \A i \in DOMAIN vs : /\ us[i].tokens["input"] \in Nat /\ us[i].tokens["output"] \in Nat
                           /\ us[i].tokens["input"] <= us[i].ctx /\ us[i].ctx \in Nat
  BY <1>3, ContextIs
<1>5. PICK fo : fo = [k \in DOMAIN ls |-> rows[k].use.tokens["output"]]
  OBVIOUS
<1>6. PICK fi : fi = [k \in DOMAIN ls |-> rows[k].use.tokens["input"]]
  OBVIOUS
<1>7. PICK go : go = [i \in DOMAIN vs |-> vs[i].tokens["output"]]
  OBVIOUS
<1>8. PICK gi : gi = [i \in DOMAIN vs |-> vs[i].ctx]
  OBVIOUS
<1>9. \A i \in DOMAIN vs : go[i] \in Nat /\ gi[i] \in Nat
  BY <1>3, <1>4, <1>7, <1>8
<1>10. \A k \in DOMAIN ls : /\ fo[k] = us[p[k]].tokens["output"] /\ go[p[k]] = us[p[k]].tokens["output"]
                            /\ fi[k] = us[p[k]].tokens["input"] /\ gi[p[k]] = us[p[k]].ctx
                            /\ p[k] \in DOMAIN vs
  BY <1>2, <1>3, <1>5, <1>6, <1>7, <1>8
<1>11. \A k \in DOMAIN ls : fo[k] \in Nat /\ fo[k] <= go[p[k]] /\ fi[k] \in Nat /\ fi[k] <= gi[p[k]]
  <2> SUFFICES ASSUME NEW k \in DOMAIN ls
               PROVE  fo[k] \in Nat /\ fo[k] <= go[p[k]] /\ fi[k] \in Nat /\ fi[k] <= gi[p[k]]
    OBVIOUS
  <2>1. p[k] \in DOMAIN vs
    BY <1>10
  <2>2. /\ us[p[k]].tokens["input"] \in Nat /\ us[p[k]].tokens["output"] \in Nat
        /\ us[p[k]].tokens["input"] <= us[p[k]].ctx /\ us[p[k]].ctx \in Nat
    BY <1>4, <2>1
  <2> QED
    BY <1>10, <2>2
<1>12. SumFunctionOnSet(fo, DOMAIN ls) <= SumFunctionOnSet(go, DOMAIN vs)
  BY <1>2, <1>9, <1>11, SumBelow
<1>13. SumFunctionOnSet(fi, DOMAIN ls) <= SumFunctionOnSet(gi, DOMAIN vs)
  BY <1>2, <1>9, <1>11, SumBelow
<1>14. SumOver(rows, LAMBDA r : r.use.tokens["output"]) = SumFunctionOnSet(fo, DOMAIN ls)
  BY <1>5 DEF SumOver, SumEach
<1>15. SumOver(rows, LAMBDA r : r.use.tokens["input"]) = SumFunctionOnSet(fi, DOMAIN ls)
  BY <1>6 DEF SumOver, SumEach
<1>16. SumOver(vs, LAMBDA u : u.tokens["output"]) = SumFunctionOnSet(go, DOMAIN vs)
  BY <1>7 DEF SumOver, SumEach
<1>17. SumOver(vs, LAMBDA u : u.ctx) = SumFunctionOnSet(gi, DOMAIN vs)
  BY <1>8 DEF SumOver, SumEach
<1> QED
  BY <1>12, <1>13, <1>14, <1>15, <1>16, <1>17

(* The window is almost full at the peak when it is at some row.           *)
LEMMA PeakIs ==
  ASSUME NEW X, NEW rows \in Seq(X), rows # <<>>, \A r \in ToSet(rows) : r.use.ctx \in Nat
  PROVE  100 * Max({r.use.ctx : r \in ToSet(rows)}) > 90 * Cap <=> \E r \in ToSet(rows) : severity(r, Cap) = "over"
<1>1. PICK P : P = {r.use.ctx : r \in ToSet(rows)}
  OBVIOUS
<1>2. \A v : v \in P <=> \E i \in DOMAIN rows : v = rows[i].use.ctx
  BY <1>1 DEF ToSet
<1>3. P \in SUBSET Int
  BY <1>1
<1>4. IsFiniteSet(P)
  <2>1. IsFiniteSet(DOMAIN rows)
    BY PlacesFinite
  <2>2. PICK f : f = [i \in DOMAIN rows |-> rows[i].use.ctx]
    OBVIOUS
  <2>3. f \in Surjection(DOMAIN rows, P)
    BY <1>2, <2>2 DEF Surjection
  <2> QED
    BY <2>1, <2>3, FS_Surjection
<1>5. P # {}
  <2>1. 1 \in DOMAIN rows
    OBVIOUS
  <2> QED
    BY <1>2, <2>1
<1>6. PICK peak \in Nat : peak = Max(P) /\ peak \in P /\ \A x \in P : x <= peak
  <2>1. Max(P) \in P /\ \A x \in P : x <= Max(P)
    BY <1>3, <1>4, <1>5, ExtremesAre
  <2>2. \A x \in P : x \in Nat
    BY <1>1
  <2> QED
    BY <2>1, <2>2
<1>7. Cap \in Nat
  BY PanelsAssumption
<1>8. ASSUME NEW r \in ToSet(rows) PROVE severity(r, Cap) = "over" <=> 100 * r.use.ctx > 90 * Cap
  <2>1. PICK c \in Nat : c = r.use.ctx
    OBVIOUS
  <2>2. PICK d \in Nat : d = Cap
    BY <1>7
  <2>3. severity(r, Cap) = CASE 100 * c > 90 * d -> "over"
          [] 100 * c > 75 * d /\ ~(100 * c > 90 * d) -> "warn"
          [] 100 * c > 50 * d /\ ~(100 * c > 75 * d) -> "mid"
          [] ~(100 * c > 50 * d) -> ""
    BY <2>1, <2>2 DEF severity
  <2>4. CASE 100 * c > 90 * d
    <3>1. 100 * c > 75 * d /\ 100 * c > 50 * d
      BY <2>4
    <3>2. severity(r, Cap) = "over"
      BY <2>3, <2>4, <3>1
    <3> QED
      BY <2>1, <2>2, <2>4, <3>2
  <2>5. CASE ~(100 * c > 90 * d)
    <3>1. severity(r, Cap) # "over"
      BY <2>3, <2>5, Zenon
    <3> QED
      BY <2>1, <2>2, <2>5, <3>1
  <2> QED
    BY <2>4, <2>5
<1>9. ASSUME 100 * peak > 90 * Cap PROVE \E r \in ToSet(rows) : severity(r, Cap) = "over"
  <2>1. PICK r \in ToSet(rows) : r.use.ctx = peak
    BY <1>1, <1>6
  <2> QED
    BY <1>8, <1>9, <2>1
<1>10. ASSUME NEW r \in ToSet(rows), severity(r, Cap) = "over" PROVE 100 * peak > 90 * Cap
  <2>1. 100 * r.use.ctx > 90 * Cap
    BY <1>8, <1>10
  <2>2. r.use.ctx \in Nat /\ r.use.ctx <= peak
    BY <1>1, <1>6
  <2> QED
    BY <1>6, <1>7, <2>1, <2>2
<1> QED
  BY <1>1, <1>6, <1>9, <1>10

LEMMA LessTimes ==
  ASSUME NEW a \in Int, NEW b \in Int, a < b, NEW d \in Nat \ {0}
  PROVE  a * d + d <= b * d
<1>1. PICK c \in Nat : b = a + 1 + c
  <2>1. b - a - 1 \in Nat /\ b = a + 1 + (b - a - 1)
    OBVIOUS
  <2> QED
    BY <2>1
<1>2. b * d = a * d + d + c * d
  BY <1>1
<1>3. c * d \in Nat
  OBVIOUS
<1>4. a * d \in Int
  OBVIOUS
<1> QED
  BY <1>2, <1>3, <1>4

LEMMA QuotientIs ==
  ASSUME NEW n \in Int, NEW d \in Nat \ {0}, NEW q \in Int, q * d <= n, n < q * d + d
  PROVE  n \div d = q
<1>1. PICK z \in Int : z = n \div d /\ z * d <= n /\ n < z * d + d
  BY Quotient
<1>2. z * d \in Int /\ q * d \in Int
  OBVIOUS
<1>3. ~(z < q)
  <2> SUFFICES ASSUME z < q PROVE FALSE
    OBVIOUS
  <2>1. z * d + d <= q * d
    BY LessTimes
  <2> QED
    BY <1>1, <1>2, <2>1
<1>4. ~(q < z)
  <2> SUFFICES ASSUME q < z PROVE FALSE
    OBVIOUS
  <2>1. q * d + d <= z * d
    BY LessTimes
  <2> QED
    BY <1>1, <1>2, <2>1
<1> QED
  BY <1>1, <1>3, <1>4

(* A cursor at a row finds that row.                                       *)
LEMMA HoverFinds ==
  ASSUME NEW rows, NEW n \in Nat, n = Len(rows), NEW i \in 1 .. n
  PROVE  hoverRow(rows, i - 1, Max({1, Len(rows) - 1})) = rows[i]
<1>1. PICK d \in Nat \ {0} : d = Max({1, n - 1}) /\ (n >= 2 => d = n - 1) /\ (n < 2 => d = 1)
  <2>1. Max({1, n - 1}) = IF 1 <= n - 1 THEN n - 1 ELSE 1
    BY MaxOf
  <2> QED
    BY <2>1
<1>2. PICK k \in Nat : k = i - 1 /\ k <= n - 1
  OBVIOUS
<1>3. PICK e \in Nat \ {0} : e = 2 * d
  OBVIOUS
<1>4. (2 * k * (n - 1) + d) \div e = k
  <2>1. CASE n >= 2
    <3>1. n - 1 = d
      BY <1>1, <2>1
    <3>2. k * d \in Int /\ 2 * k * d = 2 * (k * d) /\ k * e = 2 * (k * d)
      BY <1>3
    <3>3. PICK x \in Int : x = 2 * k * d + d
      OBVIOUS
    <3>4. k * e <= x /\ x < k * e + e
      BY <1>3, <3>2, <3>3
    <3>5. x \div e = k
      BY <3>4, QuotientIs
    <3> QED
      BY <3>1, <3>3, <3>5
  <2>2. CASE n < 2
    <3>1. n = 1 /\ k = 0 /\ d = 1 /\ e = 2
      BY <1>1, <1>2, <1>3, <2>2
    <3>2. 2 * 0 * (1 - 1) + 1 = 1 /\ 1 \div 2 = 0
      OBVIOUS
    <3> QED
      BY <3>1, <3>2
  <2> QED
    BY <2>1, <2>2
<1>5. hoverRow(rows, k, d) = rows[Max({0, Min({k, n - 1})}) + 1]
  <2>1. (2 * k * (Len(rows) - 1) + d) \div (2 * d) = k
    BY <1>3, <1>4
  <2> QED
    BY <2>1 DEF hoverRow
<1>6. Min({k, n - 1}) = k
  <2>1. Min({k, n - 1}) = IF k <= n - 1 THEN k ELSE n - 1
    BY MinOf
  <2> QED
    BY <1>2, <2>1
<1>7. Max({0, k}) = k
  <2>1. Max({0, k}) = IF 0 <= k THEN k ELSE 0
    BY MaxOf
  <2> QED
    BY <2>1
<1>8. k + 1 = i
  BY <1>2
<1> QED
  BY <1>1, <1>2, <1>5, <1>6, <1>7, <1>8

(***************************************************************************)
(* What the header counts, and what the chips hide                         *)
(***************************************************************************)
(* As many elements are kept as there are places.                          *)
LEMMA AtLength ==
  ASSUME NEW X, NEW s \in Seq(X), NEW S \in SUBSET DOMAIN s
  PROVE  Len(At(s, S)) = Cardinality(S)
<1>1. IsFiniteSet(S) /\ S \in SUBSET Int
  BY PlacesFinite
<1>2. PICK n \in Nat : Rising(Ascending(S), n, S) /\ DOMAIN Ascending(S) = 1 .. n
  BY <1>1, AscendingRising
<1>3. Enumerates(Ascending(S), S) /\ Len(Ascending(S)) = Cardinality(S)
  BY <1>1, AscendingIs
<1>4. Len(Ascending(S)) = n
  BY <1>2, <1>3 DEF Enumerates
<1>5. Len(At(s, S)) = n
  BY <1>2, AtRising
<1> QED
  BY <1>3, <1>4, <1>5

(* Ones add up to the number of elements.                                  *)
LEMMA SumOfOnes ==
  ASSUME NEW S, IsFiniteSet(S), NEW f, \A y \in S : f[y] = 1
  PROVE  SumFunctionOnSet(f, S) = Cardinality(S)
<1> DEFINE T == {n \in Nat : \E t \in SUBSET S : Cardinality(t) = n /\ SumFunctionOnSet(f, t) # n}
<1>1. T = {}
  <2>1. SUFFICES ASSUME T # {} PROVE FALSE
    OBVIOUS
  <2>2. PICK n \in T : \A m \in T : n <= m
    BY <2>1, LeastNat
  <2>3. PICK t \in SUBSET S : Cardinality(t) = n /\ SumFunctionOnSet(f, t) # n
    BY <2>2
  <2>4. IsFiniteSet(t) /\ t # {}
    BY <2>3, FS_Subset, SumOfNone, FS_EmptySet
  <2> DEFINE u == t \ {Some(t)}
  <2>5. Some(t) \in t /\ SumFunctionOnSet(f, t) = f[Some(t)] + SumFunctionOnSet(f, u)
    BY <2>4, SumUnrolled
  <2>6. u \in SUBSET S /\ Cardinality(u) = n - 1 /\ Cardinality(u) \in Nat
    BY <2>3, <2>4, <2>5, FS_RemoveElement, FS_CardinalityType
  <2>7. SumFunctionOnSet(f, u) = n - 1
    BY <2>6, <2>2
  <2>8. f[Some(t)] = 1
    BY <2>5
  <2> QED
    BY <2>3, <2>5, <2>7, <2>8
<1>2. Cardinality(S) \in Nat /\ S \in SUBSET S
  BY FS_CardinalityType
<1> QED
  BY <1>1, <1>2

(* The events of some types.                                               *)
Typed(ev, types) == {i \in DOMAIN ev : ev[i].type \in types}
LEMMA TypedLength ==
  ASSUME NEW X, NEW ev \in Seq(X), NEW types
  PROVE  Len(Where(ev, LAMBDA e : e.type \in types)) = Cardinality(Typed(ev, types))
<1>1. Typed(ev, types) \in SUBSET DOMAIN ev
  BY DEF Typed
<1>2. Len(At(ev, Typed(ev, types))) = Cardinality(Typed(ev, types))
  BY <1>1, AtLength
<1> QED
  BY <1>2 DEF Typed, Where

(* The first calls of the batches, and the calls of the batch at one.      *)
Heads(ev)    == {i \in DOMAIN ev : ev[i].size > 1 /\ ev[i].index = 1}
Batch(ev, i) == i .. i + ev[i].size - 1
CallTypes    == {"tool_call", "agent_spawn"}

(* A batch has as many calls as it says, and none of another batch.        *)
LEMMA BatchIs ==
  ASSUME NEW ev \in Seq(ParsedEvent), Batched(ev), NEW i \in Heads(ev)
  PROVE  /\ Batch(ev, i) \in SUBSET Typed(ev, CallTypes)
         /\ IsFiniteSet(Batch(ev, i)) /\ Cardinality(Batch(ev, i)) = ev[i].size
         /\ \A j \in Batch(ev, i) : j \in Nat /\ ev[j].index = (j - i) + 1
         /\ ev[i].size \in Nat
<1>1. i \in DOMAIN ev /\ ev[i].size > 1 /\ ev[i].index = 1
  BY DEF Heads
<1>2. PICK z \in Nat : z = ev[i].size /\ z > 1
  <2>1. ev[i] \in ParsedEvent
    BY <1>1
  <2>2. ev[i].size \in Nat
    BY <2>1, Zenon DEF ParsedEvent
  <2> QED
    BY <1>1, <2>2
<1>3. i \in Nat
  <2>1. DOMAIN ev \subseteq Nat
    OBVIOUS
  <2> QED
    BY <1>1, <2>1
<1>4. \A k \in 0 .. z - 1 :
        /\ i + k \in DOMAIN ev /\ ev[i + k].type \in CallTypes
        /\ ev[i + k].index = k + 1
  BY <1>1, <1>2 DEF Batched, CallTypes
<1>5. ASSUME NEW j \in Batch(ev, i)
      PROVE  j \in Nat /\ j \in DOMAIN ev /\ ev[j].type \in CallTypes /\ ev[j].index = (j - i) + 1
  <2>1. j \in Nat /\ i <= j /\ j <= i + z - 1
    BY <1>2, <1>3 DEF Batch
  <2>2. PICK k : k = j - i
    OBVIOUS
  <2>3. k \in 0 .. z - 1 /\ i + k = j
    BY <1>2, <1>3, <2>1, <2>2
  <2>4. i + k \in DOMAIN ev /\ ev[i + k].type \in CallTypes /\ ev[i + k].index = k + 1
    BY <1>4, <2>3
  <2> QED
    BY <2>1, <2>2, <2>3, <2>4
<1>6. IsFiniteSet(Batch(ev, i)) /\ Cardinality(Batch(ev, i)) = z
  <2>1. PICK h \in Nat : h = i + z - 1 /\ i <= h
    BY <1>2, <1>3
  <2>2. IsFiniteSet(i .. h) /\ Cardinality(i .. h) = IF i > h THEN 0 ELSE h - i + 1
    BY <1>3, <2>1, FS_Interval
  <2>3. Batch(ev, i) = i .. h
    BY <1>2, <2>1 DEF Batch
  <2> QED
    BY <1>2, <1>3, <2>1, <2>2, <2>3
<1> QED
  BY <1>2, <1>5, <1>6 DEF Typed

(* The calls of all batches are calls.                                     *)
LEMMA ParallelCalls ==
  ASSUME NEW ev \in Seq(ParsedEvent), Batched(ev)
  PROVE  SumOver(Where(ev, LAMBDA e : e.size > 1 /\ e.index = 1), LAMBDA e : e.size)
           <= Len(Where(ev, LAMBDA e : e.type \in CallTypes))
<1>1. PICK C \in SUBSET DOMAIN ev : C = Typed(ev, CallTypes)
  BY DEF Typed
<1>2. PICK B \in SUBSET DOMAIN ev : B = Heads(ev)
  BY DEF Heads
<1>3. IsFiniteSet(B) /\ IsFiniteSet(C) /\ Cardinality(C) \in Nat
  BY PlacesFinite
<1>4. PICK parts : parts = [r \in B |-> Batch(ev, r)]
  OBVIOUS
<1>5. ASSUME NEW r \in B
      PROVE  /\ parts[r] = Batch(ev, r) /\ parts[r] \in SUBSET C
             /\ IsFiniteSet(parts[r]) /\ Cardinality(parts[r]) = ev[r].size
             /\ \A j \in parts[r] : j \in Nat /\ ev[j].index = (j - r) + 1
             /\ ev[r].size \in Nat /\ r \in Nat
  <2>1. r \in Heads(ev)
    BY <1>2
  <2>2. /\ Batch(ev, r) \in SUBSET Typed(ev, CallTypes)
        /\ IsFiniteSet(Batch(ev, r)) /\ Cardinality(Batch(ev, r)) = ev[r].size
        /\ \A j \in Batch(ev, r) : j \in Nat /\ ev[j].index = (j - r) + 1
        /\ ev[r].size \in Nat
    BY <2>1, BatchIs
  <2>3. r \in Nat
    BY PlacesFinite
  <2> QED
    BY <1>1, <1>4, <2>2, <2>3
<1>6. PICK S : S = {x \in C : \E r \in B : x \in parts[r]}
  OBVIOUS
<1>7. Splits(S, B, parts)
  <2>1. S \in SUBSET C /\ IsFiniteSet(S)
    BY <1>3, <1>6, FS_Subset
  <2>2. \A r \in B : parts[r] \in SUBSET S
    BY <1>5, <1>6
  <2>3. parts \in [B -> SUBSET S]
    BY <1>4, <2>2
  <2>4. ASSUME NEW r \in B, NEW q \in B, NEW j, j \in parts[r], j \in parts[q] PROVE r = q
    <3>1. j \in Nat /\ r \in Nat /\ q \in Nat /\ ev[j].index = (j - r) + 1 /\ ev[j].index = (j - q) + 1
      BY <1>5, <2>4
    <3> QED
      BY <3>1
  <2>5. \A r, q \in B : r # q => parts[r] \cap parts[q] = {}
    BY <2>4
  <2> QED
    BY <1>3, <1>6, <2>1, <2>3, <2>5 DEF Splits
<1>8. PICK f : f = [x \in S |-> 1]
  OBVIOUS
<1>9. PICK part : part = [r \in DOMAIN ev |-> ev[r].size]
  OBVIOUS
<1>10. ASSUME NEW r \in B PROVE part[r] = SumFunctionOnSet(f, parts[r])
  <2>1. PICK p : p = parts[r]
    OBVIOUS
  <2>2. IsFiniteSet(p) /\ Cardinality(p) = ev[r].size /\ \A y \in p : y \in S
    BY <1>5, <1>6, <2>1
  <2>3. SumFunctionOnSet(f, p) = Cardinality(p)
    BY <1>8, <2>2, SumOfOnes
  <2> QED
    BY <1>9, <2>1, <2>2, <2>3
<1>11. SumFunctionOnSet(f, S) = SumFunctionOnSet(part, B)
  <2>1. \A x \in S : f[x] \in Int
    BY <1>8
  <2> QED
    BY <1>7, <1>10, <2>1, SumByParts
<1>12. SumFunctionOnSet(f, S) = Cardinality(S) /\ Cardinality(S) <= Cardinality(C)
  <2>1. IsFiniteSet(S) /\ Cardinality(S) <= Cardinality(C)
    BY <1>3, <1>6, FS_Subset
  <2>2. SumFunctionOnSet(f, S) = Cardinality(S)
    BY <1>8, <2>1, SumOfOnes
  <2> QED
    BY <2>1, <2>2
<1>13. PICK b : b = At(ev, B)
  OBVIOUS
<1>14. Renames(Ascending(B), DOMAIN b, B) /\ \A k \in DOMAIN b : b[k] = ev[Ascending(B)[k]]
  BY <1>13, FilterRenames
<1>15. PICK e : e = [k \in DOMAIN b |-> b[k].size]
  OBVIOUS
<1>16. SumFunctionOnSet(e, DOMAIN b) = SumFunctionOnSet(part, B)
  <2>1. \A x \in B : part[x] \in Int
    BY <1>5, <1>9
  <2>2. \A k \in DOMAIN b : Ascending(B)[k] \in B
    BY <1>14 DEF Renames
  <2>3. \A k \in DOMAIN b : e[k] = part[Ascending(B)[k]]
    BY <1>9, <1>14, <1>15, <2>2
  <2>4. PICK h : h = Ascending(B)
    OBVIOUS
  <2> QED
    BY <1>14, <2>1, <2>3, <2>4, SumRenamed
<1>17. SumOver(b, LAMBDA x : x.size) = SumFunctionOnSet(e, DOMAIN b)
  BY <1>15 DEF SumOver, SumEach
<1>18. b = Where(ev, LAMBDA x : x.size > 1 /\ x.index = 1)
  BY <1>2, <1>13 DEF Where, Heads
<1>19. Len(Where(ev, LAMBDA x : x.type \in CallTypes)) = Cardinality(C)
  BY <1>1, TypedLength
<1> QED
  BY <1>11, <1>12, <1>16, <1>17, <1>18, <1>19

(* A chip stands for one of the kinds of events the header counts, or for  *)
(* none of them; an event has one chip at most.                            *)
CountedChip == {"user", "tool", "result"}
TypesOf(c) == CASE c = "user" -> {"user_message"} [] c = "tool" -> CallTypes [] c = "result" -> {"tool_result"}

LEMMA ChipIs ==
  ASSUME NEW t
  PROVE  /\ \A c \in CountedChip : (c \in ChipOf(t) <=> t \in TypesOf(c))
         /\ ChipOf(t) \subseteq {"asst", "think"} \cup CountedChip
         /\ \A x, y \in ChipOf(t) : x = y
<1>1. /\ TypesOf("user") = {"user_message"} /\ TypesOf("tool") = {"tool_call", "agent_spawn"}
      /\ TypesOf("result") = {"tool_result"}
  BY DEF TypesOf, CallTypes
<1>2. /\ "user" \in ChipOf(t) <=> t = "user_message"
      /\ "tool" \in ChipOf(t) <=> t \in {"tool_call", "agent_spawn"}
      /\ "result" \in ChipOf(t) <=> t = "tool_result"
  BY DEF ChipOf
<1>3. ChipOf(t) \in {{"user"}, {"asst"}, {"think"}, {"tool"}, {"result"}, {}}
  BY DEF ChipOf
<1>4. \A x, y \in ChipOf(t) : x = y
  BY <1>3
<1>5. ChipOf(t) \subseteq {"asst", "think"} \cup CountedChip
  BY <1>3 DEF CountedChip
<1> QED
  BY <1>1, <1>2, <1>4, <1>5 DEF CountedChip

(* The places of the timeline's rows.                                      *)
Visible(ev, checked) == {i \in DOMAIN ev : ChipOf(ev[i].type) \subseteq checked}
LEMMA TimelineIs ==
  ASSUME NEW X, NEW ev \in Seq(X), NEW checked
  PROVE  /\ timeline(ev, checked) \in Seq(X)
         /\ Len(timeline(ev, checked)) = Cardinality(Visible(ev, checked))
         /\ \A e \in ToSet(timeline(ev, checked)) : ChipOf(e.type) \subseteq checked
<1>1. PICK V \in SUBSET DOMAIN ev : V = Visible(ev, checked)
  BY DEF Visible
<1>2. timeline(ev, checked) = At(ev, V)
  BY <1>1 DEF timeline, Where, Visible
<1>3. Len(At(ev, V)) = Cardinality(V)
  BY AtLength
<1>4. /\ Renames(Ascending(V), DOMAIN At(ev, V), V)
      /\ \A k \in DOMAIN At(ev, V) : At(ev, V)[k] = ev[Ascending(V)[k]]
      /\ At(ev, V) \in Seq(X)
  BY FilterRenames
<1>5. ASSUME NEW e \in ToSet(At(ev, V)) PROVE ChipOf(e.type) \subseteq checked
  <2>1. PICK k \in DOMAIN At(ev, V) : e = At(ev, V)[k]
    BY DEF ToSet
  <2>2. Ascending(V)[k] \in V
    BY <1>4 DEF Renames
  <2>3. PICK i \in V : e = ev[i]
    BY <1>4, <2>1, <2>2
  <2>4. ChipOf(ev[i].type) \subseteq checked
    BY <1>1 DEF Visible
  <2> QED
    BY <2>3, <2>4
<1> QED
  BY <1>1, <1>2, <1>3, <1>4, <1>5

(* With the two chips on that the header has no count for, what is hidden  *)
(* is what the header counts under the other chips that are off.           *)
LEMMA HiddenCounted ==
  ASSUME NEW X, NEW ev \in Seq(X), NEW checked, {"asst", "think"} \subseteq checked,
         NEW counted, \A c \in CountedChip : counted[c] = Cardinality(Typed(ev, TypesOf(c))),
         NEW hidden, hidden = CountedChip \ checked
  PROVE  Len(timeline(ev, checked)) = Len(ev) - SumFunctionOnSet([c \in hidden |-> counted[c]], hidden)
<1>1. PICK V \in SUBSET DOMAIN ev : V = Visible(ev, checked)
  BY DEF Visible
<1>2. PICK S \in SUBSET DOMAIN ev : S = DOMAIN ev \ V
  OBVIOUS
<1>3. /\ IsFiniteSet(S) /\ IsFiniteSet(V) /\ IsFiniteSet(DOMAIN ev) /\ Cardinality(DOMAIN ev) = Len(ev)
      /\ Cardinality(V) \in Nat /\ Cardinality(S) \in Nat
  BY PlacesFinite
<1>4. PICK parts : parts = [c \in hidden |-> Typed(ev, TypesOf(c))]
  OBVIOUS
<1>5. ASSUME NEW i \in DOMAIN ev
      PROVE  /\ i \in V => \A c \in hidden : i \notin parts[c]
             /\ i \notin V => \E c \in hidden : i \in parts[c]
  <2>1. PICK t : t = ev[i].type
    OBVIOUS
  <2>2. /\ \A c \in CountedChip : (c \in ChipOf(t) <=> t \in TypesOf(c))
        /\ ChipOf(t) \subseteq {"asst", "think"} \cup CountedChip
    BY ChipIs
  <2>3. i \in V <=> ChipOf(t) \subseteq checked
    BY <1>1, <2>1 DEF Visible
  <2>4. \A c \in hidden : i \in parts[c] <=> t \in TypesOf(c)
    BY <1>4, <2>1 DEF Typed
  <2>5. \A c \in hidden : c \in CountedChip /\ c \notin checked
    OBVIOUS
  <2>6. \A c \in hidden : i \in parts[c] <=> c \in ChipOf(t)
    BY <2>2, <2>4, <2>5
  <2>7. ASSUME i \notin V PROVE \E c \in hidden : i \in parts[c]
    <3>1. PICK c \in ChipOf(t) : c \notin checked
      BY <2>3, <2>7
    <3>2. c \in hidden
      BY <2>2, <3>1
    <3> QED
      BY <2>6, <3>2
  <2> QED
    BY <2>3, <2>5, <2>6, <2>7
<1>6. Splits(S, hidden, parts)
  <2>1. IsFiniteSet(hidden)
    <3>1. IsFiniteSet(CountedChip)
      <4>1. IsFiniteSet({"user"} \cup {"tool"} \cup {"result"})
        BY FS_Singleton, FS_Union
      <4>2. CountedChip = {"user"} \cup {"tool"} \cup {"result"}
        BY DEF CountedChip
      <4> QED
        BY <4>1, <4>2
    <3>2. hidden \in SUBSET CountedChip
      OBVIOUS
    <3> QED
      BY <3>1, <3>2, FS_Subset
  <2>2. \A c \in hidden : parts[c] \subseteq DOMAIN ev
    BY <1>4 DEF Typed
  <2>3. \A c \in hidden : parts[c] \subseteq S
    BY <1>2, <1>5, <2>2
  <2>4. parts \in [hidden -> SUBSET S]
    BY <1>4, <2>3
  <2>5. \A i \in S : \E c \in hidden : i \in parts[c]
    BY <1>2, <1>5
  <2>6. ASSUME NEW c \in hidden, NEW d \in hidden, NEW i, i \in parts[c], i \in parts[d] PROVE c = d
    <3>1. ev[i].type \in TypesOf(c) /\ ev[i].type \in TypesOf(d)
      BY <1>4, <2>6 DEF Typed
    <3>2. c \in ChipOf(ev[i].type) /\ d \in ChipOf(ev[i].type)
      BY <3>1, ChipIs
    <3> QED
      BY <3>2, ChipIs
  <2>7. \A c, d \in hidden : c # d => parts[c] \cap parts[d] = {}
    BY <2>6
  <2> QED
    BY <1>3, <2>1, <2>4, <2>5, <2>7 DEF Splits
<1>7. PICK f : f = [x \in S |-> 1]
  OBVIOUS
<1>8. PICK part : part = [c \in hidden |-> counted[c]]
  OBVIOUS
<1>9. ASSUME NEW c \in hidden PROVE part[c] = SumFunctionOnSet(f, parts[c])
  <2>1. PICK p : p = parts[c]
    OBVIOUS
  <2>2. p \in SUBSET S /\ p = Typed(ev, TypesOf(c))
    BY <1>4, <1>6, <2>1 DEF Splits
  <2>3. IsFiniteSet(p) /\ \A y \in p : f[y] = 1
    BY <1>3, <1>7, <2>2, FS_Subset
  <2>4. SumFunctionOnSet(f, p) = Cardinality(p)
    BY <2>3, SumOfOnes
  <2>5. part[c] = Cardinality(p)
    BY <1>8, <2>2
  <2> QED
    BY <2>1, <2>4, <2>5
<1>10. SumFunctionOnSet(f, S) = SumFunctionOnSet(part, hidden)
  <2>1. \A x \in S : f[x] \in Int
    BY <1>7
  <2> QED
    BY <1>6, <1>9, <2>1, SumByParts
<1>11. SumFunctionOnSet(f, S) = Cardinality(S)
  BY <1>3, <1>7, SumOfOnes
<1>12. Cardinality(S) = Cardinality(DOMAIN ev) - Cardinality(V)
  <2>1. Cardinality(DOMAIN ev \ V) = Cardinality(DOMAIN ev) - Cardinality(DOMAIN ev \cap V)
    BY <1>3, FS_Difference
  <2>2. DOMAIN ev \cap V = V
    OBVIOUS
  <2> QED
    BY <1>2, <2>1, <2>2
<1>13. SumFunctionOnSet([c \in hidden |-> counted[c]], hidden) = SumFunctionOnSet(part, hidden)
  BY <1>8
<1>14. Len(timeline(ev, checked)) = Cardinality(V)
  BY <1>1, TimelineIs
<1>15. Len(ev) \in Nat
  OBVIOUS
<1> QED
  <2>1. SumFunctionOnSet([c \in hidden |-> counted[c]], hidden) = Cardinality(S)
    BY <1>10, <1>11, <1>13
  <2>2. PICK v \in Nat : v = Cardinality(V)
    BY <1>3
  <2>3. PICK n \in Nat : n = Len(ev)
    OBVIOUS
  <2>4. Cardinality(S) = n - v
    BY <1>3, <1>12, <2>2, <2>3
  <2>5. v = n - (n - v)
    OBVIOUS
  <2>6. SumFunctionOnSet([c \in hidden |-> counted[c]], hidden) = n - v
    BY <2>1, <2>4
  <2> QED
    BY <1>14, <2>2, <2>3, <2>5, <2>6

(* The row selected is one of the timeline.                                *)
LEMMA SelectedVisible ==
  ASSUME NEW X, NEW ev \in Seq(X), NEW checked, NEW row
  PROVE  \A e \in ToSet(selected(ev, checked, row)) : ChipOf(e.type) \subseteq checked
<1>1. PICK t \in Seq(X) : t = timeline(ev, checked)
  BY TimelineIs
<1>2. \A e \in ToSet(t) : ChipOf(e.type) \subseteq checked
  BY <1>1, TimelineIs
<1>3. ASSUME NEW e \in ToSet(selected(ev, checked, row)) PROVE e \in ToSet(t)
  <2>1. PICK k \in DOMAIN selected(ev, checked, row) : e = selected(ev, checked, row)[k]
    BY DEF ToSet
  <2>2. row \in DOMAIN t /\ e = t[row]
    BY <1>1, <2>1 DEF selected
  <2> QED
    BY <2>2 DEF ToSet
<1> QED
  BY <1>2, <1>3

(***************************************************************************)
(* The Inspector's four readings of a transcript                           *)
(***************************************************************************)
(* The rows of the growth, by the records they show.                       *)
LEMMA RowsAre ==
  ASSUME NEW ev \in Seq(AnyEvent), NEW us \in Seq(AnyUse), NEW rows, rows = GrowthRows(us, ev)
  PROVE  \E ls \in Seq(AnyUse) :
           /\ Inside(ls, us) /\ rows = [i \in 1 .. Len(ls) |-> GrowthRow(ls, i)]
           /\ Len(rows) = Len(ls) /\ DOMAIN rows = 1 .. Len(ls)
           /\ \A i \in 1 .. Len(ls) : rows[i].use = ls[i] /\ rows[i].turnNum = i
<1>1. PICK ls \in Seq(AnyUse) : ls = GrowthUses(us, ev) /\ Inside(ls, us)
  BY GrowthInside
<1>2. PICK n \in Nat : n = Len(ls) /\ DOMAIN ls = 1 .. n
  OBVIOUS
<1>3. rows = [i \in 1 .. n |-> GrowthRow(ls, i)]
  BY <1>1, <1>2 DEF GrowthRows
<1>4. Len(rows) = n /\ DOMAIN rows = 1 .. n
  BY <1>3
<1>5. \A i \in 1 .. n : rows[i].use = ls[i] /\ rows[i].turnNum = i
  BY <1>3 DEF GrowthRow
<1> QED
  BY <1>1, <1>2, <1>3, <1>4, <1>5

(* The rows of the context growth against the header.                      *)
LEMMA RowsAgree ==
  ASSUME NEW f, Parsed(f), NEW rows, rows = computeTurnStats(OneFile(f)),
         NEW stats, stats = computeSessionStats(f.events, f.meta),
         NEW sum \in {growthSummary(rows, Cap) : r \in ToSet(rows)}
  PROVE  /\ sum.totalOutput <= stats.output /\ sum.totalInput <= stats.totalInput
         /\ 100 * sum.peak > 90 * Cap <=> \E r \in ToSet(rows) : severity(r, Cap) = "over"
<1>1. PICK us : us = Usages(f.meta, NoTime)
  OBVIOUS
<1>2. us \in Seq(AnyUse) /\ f.events \in Seq(AnyEvent) /\ rows = GrowthRows(us, f.events)
  BY <1>1, FileViews
<1>3. f.meta \in Seq(AnyMeta)
  BY ParsedIs
<1> DEFINE dated == Where(f.events, LAMBDA e : e.ts # NoTime)
           ts == IF dated = <<>> THEN NoTime ELSE dated[1].ts
<1>4. /\ stats.output = SumOver(Usages(f.meta, ts), LAMBDA u : u.tokens["output"])
      /\ stats.totalInput = SumOver(Usages(f.meta, ts), LAMBDA u : u.ctx)
  BY DEF computeSessionStats
<1> HIDE DEF ts
<1>5. PICK V : V = UseFrom(ts)
  OBVIOUS
<1>6. PICK vs \in Seq(V) : vs = Usages(f.meta, ts) /\ Reread(us, vs)
  BY <1>1, <1>3, <1>5, HeaderUses
<1>7. PICK ls \in Seq(AnyUse) :
        /\ Inside(ls, us) /\ rows = [i \in 1 .. Len(ls) |-> GrowthRow(ls, i)]
        /\ Len(rows) = Len(ls) /\ DOMAIN rows = 1 .. Len(ls)
        /\ \A i \in 1 .. Len(ls) : rows[i].use = ls[i] /\ rows[i].turnNum = i
  BY <1>2, RowsAre
<1>8. Len(rows) = Len(ls) /\ DOMAIN rows = DOMAIN ls /\ \A i \in DOMAIN ls : rows[i].use = ls[i]
  BY <1>7
<1>9. /\ sum.totalOutput = SumOver(rows, LAMBDA r : r.use.tokens["output"])
      /\ sum.totalInput = SumOver(rows, LAMBDA r : r.use.tokens["input"])
      /\ sum.peak = Max({r.use.ctx : r \in ToSet(rows)})
  <2>1. sum = growthSummary(rows, Cap)
    OBVIOUS
  <2> QED
    BY <2>1, Zenon DEF growthSummary
<1>10. /\ SumOver(rows, LAMBDA r : r.use.tokens["output"]) <= SumOver(vs, LAMBDA u : u.tokens["output"])
       /\ SumOver(rows, LAMBDA r : r.use.tokens["input"]) <= SumOver(vs, LAMBDA u : u.ctx)
  BY <1>2, <1>6, <1>7, <1>8, RowTokens
<1>11. PICK X : X = ToSet(rows)
  OBVIOUS
<1>12. rows \in Seq(X) /\ rows # <<>> /\ \A r \in ToSet(rows) : r.use.ctx \in Nat
  <2>1. PICK n \in Nat : n = Len(ls) /\ DOMAIN ls = 1 .. n
    OBVIOUS
  <2>2. rows = [i \in DOMAIN ls |-> GrowthRow(ls, i)]
    BY <1>7, <2>1
  <2>3. rows \in [1 .. n -> X]
    BY <1>11, <2>1, <2>2 DEF ToSet
  <2>4. rows \in Seq(X)
    BY <2>3
  <2>5. rows # <<>>
    BY DEF ToSet
  <2>6. ASSUME NEW i \in DOMAIN ls PROVE ls[i].ctx \in Nat
    <3>1. PICK k \in DOMAIN us : ls[i] = us[k]
      BY <1>7 DEF Inside, Within
    <3>2. us[k].tokens \in [Bucket -> Nat] /\ us[k].ctx = usageCtxInput(us[k].tokens)
      BY <1>6 DEF Reread
    <3> QED
      BY <3>1, <3>2, ContextIs
  <2>7. \A r \in ToSet(rows) : r.use.ctx \in Nat
    BY <1>8, <2>6 DEF ToSet
  <2> QED
    BY <2>4, <2>5, <2>7
<1>13. 100 * Max({r.use.ctx : r \in ToSet(rows)}) > 90 * Cap <=> \E r \in ToSet(rows) : severity(r, Cap) = "over"
  BY <1>12, PeakIs
<1> QED
  BY <1>4, <1>6, <1>9, <1>10, <1>13

LEMMA FewerRows ==
  ASSUME RatesNat, NEW f, Parsed(f), NEW rows, rows = computeTurnStats(OneFile(f)),
         NEW stats, stats = computeSessionStats(f.events, f.meta),
         NEW dash, dash = txToDashData(OneFile(f))
  PROVE  /\ Len(rows) <= stats.turns
         /\ SumOver(dash, LAMBDA e : e.cost) <= stats.cost
<1>1. PICK us : us = Usages(f.meta, NoTime)
  OBVIOUS
<1>2. /\ us \in Seq(AnyUse) /\ f.events \in Seq(AnyEvent) /\ rows = GrowthRows(us, f.events)
      /\ dash = Sorted(DashRows(us, Bounds(f.events), Live), TimeOf)
  BY <1>1, FileViews
<1>3. f.meta \in Seq(AnyMeta)
  BY ParsedIs
<1> DEFINE dated == Where(f.events, LAMBDA e : e.ts # NoTime)
           ts == IF dated = <<>> THEN NoTime ELSE dated[1].ts
<1>4. stats.turns = Len(Usages(f.meta, ts)) /\ stats.cost = SumOver(Usages(f.meta, ts), CostOf)
  BY DEF computeSessionStats
<1> HIDE DEF ts
<1>5. PICK V : V = UseFrom(ts)
  OBVIOUS
<1>6. PICK vs \in Seq(V) : vs = Usages(f.meta, ts) /\ Reread(us, vs)
  BY <1>1, <1>3, <1>5, HeaderUses
<1>7. PICK ls \in Seq(AnyUse) : ls = GrowthUses(us, f.events) /\ Inside(ls, us)
  BY <1>2, GrowthInside
<1>8. Len(rows) = Len(ls)
  BY <1>2, <1>7, GrowthList
<1>9. Len(ls) <= Len(us)
  BY <1>2, <1>7, InsideLength
<1>10. Len(vs) = Len(us)
  BY <1>6 DEF Reread
<1>11. dash \in Seq(AnyRow)
  <2>1. Live \in Sid
    BY DEF Sid
  <2>2. PICK r \in Seq(AnyRow) : r = DashRows(us, Bounds(f.events), Live)
    BY <1>2, <2>1, EventsType
  <2>3. Maps(TimeOf, AnyRow, Int)
    BY <2>1, RowMaps
  <2>4. Sorted(r, TimeOf) \in Seq(AnyRow)
    BY <2>3, SortedIs
  <2> QED
    BY <1>2, <2>2, <2>4
<1>12. SumOver(dash, LAMBDA e : e.cost) <= SumOver(vs, CostOf)
  BY <1>2, <1>6, <1>11, DashCostsLess
<1> QED
  BY <1>4, <1>6, <1>8, <1>9, <1>10, <1>12

LEMMA HoverAgrees ==
  ASSUME NEW f, Parsed(f), NEW rows, rows = computeTurnStats(OneFile(f)), NEW i \in DOMAIN rows
  PROVE  hoverRow(rows, i - 1, Max({1, Len(rows) - 1})).turnNum = i
<1>1. PICK us : us = Usages(f.meta, NoTime)
  OBVIOUS
<1>2. us \in Seq(AnyUse) /\ f.events \in Seq(AnyEvent) /\ rows = GrowthRows(us, f.events)
  BY <1>1, FileViews
<1>3. PICK ls \in Seq(AnyUse) :
        /\ Inside(ls, us) /\ rows = [k \in 1 .. Len(ls) |-> GrowthRow(ls, k)]
        /\ Len(rows) = Len(ls) /\ DOMAIN rows = 1 .. Len(ls)
        /\ \A k \in 1 .. Len(ls) : rows[k].use = ls[k] /\ rows[k].turnNum = k
  BY <1>2, RowsAre
<1>4. PICK n \in Nat : n = Len(ls)
  OBVIOUS
<1>5. n = Len(rows) /\ i \in 1 .. n /\ rows[i].turnNum = i
  BY <1>3, <1>4
<1>6. hoverRow(rows, i - 1, Max({1, Len(rows) - 1})) = rows[i]
  BY <1>4, <1>5, HoverFinds
<1> QED
  BY <1>5, <1>6

(* What the Inspector makes of a transcript, and what is said of it.       *)
Views(f, tx, stats, rows, dash, bounds, early, turns, dated, counted) ==
  /\ tx = OneFile(f) /\ stats = computeSessionStats(tx.events, tx.meta)
  /\ rows = computeTurnStats(tx) /\ dash = txToDashData(tx) /\ bounds = BoundaryLines(tx, Live)
  /\ early = Where(SortedBy(Usages(tx.meta, NoTime), LAMBDA u : u.line),
                  LAMBDA u : bounds # <<>> /\ u.line < bounds[1])
  /\ turns = (IF early = <<>> THEN <<>> ELSE <<Last(early)>>) \o Apply(rows, LAMBDA r : r.use)
  /\ dated = SortedBy(Where(turns, LAMBDA u : u.ts # NoTime /\ u.ctx # 0), LAMBDA u : u.ts)
  /\ counted = [user |-> stats.userMsgs, tool |-> stats.toolCalls, result |-> stats.toolResults]
Fit(tx, stats, rows, dash, bounds, dated, counted, checked, row) ==
  /\ IF bounds = <<>> THEN rows = <<>>
     ELSE Apply(dash, LAMBDA e : <<e.ts, e.model, e.ctx, e.cost>>)
            = Apply(dated, LAMBDA u : <<u.ts, u.model, u.ctx, CostOf(u)>>)
  /\ SumOver(dash, LAMBDA e : e.cost) <= stats.cost
  /\ Len(rows) <= stats.turns /\ stats.parallelCalls <= stats.toolCalls
  /\ \A sum \in {growthSummary(rows, Cap) : r \in ToSet(rows)} :
       /\ sum.totalOutput <= stats.output /\ sum.totalInput <= stats.totalInput
       /\ 100 * sum.peak > 90 * Cap <=> \E r \in ToSet(rows) : severity(r, Cap) = "over"
  /\ \A i \in DOMAIN rows : hoverRow(rows, i - 1, Max({1, Len(rows) - 1})).turnNum = i
  /\ {"asst", "think"} \subseteq checked =>
       Len(timeline(tx.events, checked))
         = Len(tx.events) - SumEach(DOMAIN counted \ checked, LAMBDA c : counted[c])
  /\ \A e \in ToSet(selected(tx.events, checked, row)) : ChipOf(e.type) \subseteq checked

(* What the header counts under the chips that are off.                    *)
CountedOff(counted, checked) ==
  SumFunctionOnSet([c \in DOMAIN counted \ checked |-> counted[c]], DOMAIN counted \ checked)

(* With the two chips on, what the header counts is what the others hide.  *)
LEMMA ChipsHide ==
  ASSUME NEW ev \in Seq(ParsedEvent), NEW meta, NEW stats, stats = computeSessionStats(ev, meta),
         NEW checked, {"asst", "think"} \subseteq checked,
         NEW counted, counted = [user |-> stats.userMsgs, tool |-> stats.toolCalls, result |-> stats.toolResults]
  PROVE  Len(timeline(ev, checked)) = Len(ev) - CountedOff(counted, checked)
<1>0. /\ stats.userMsgs = Len(Where(ev, LAMBDA e : e.type \in {"user_message"}))
      /\ stats.toolCalls = Len(Where(ev, LAMBDA e : e.type \in {"tool_call", "agent_spawn"}))
      /\ stats.toolResults = Len(Where(ev, LAMBDA e : e.type \in {"tool_result"}))
  BY DEF computeSessionStats
<1>1. DOMAIN counted = CountedChip
  BY DEF CountedChip
<1>2. \A c \in CountedChip : counted[c] = Cardinality(Typed(ev, TypesOf(c)))
  <2>1. /\ TypesOf("user") = {"user_message"} /\ TypesOf("result") = {"tool_result"}
        /\ TypesOf("tool") = {"tool_call", "agent_spawn"}
    BY DEF TypesOf, CallTypes
  <2>2. /\ counted["user"] = stats.userMsgs /\ counted["tool"] = stats.toolCalls
        /\ counted["result"] = stats.toolResults
    OBVIOUS
  <2>3. counted["user"] = Cardinality(Typed(ev, TypesOf("user")))
    <3>1. Len(Where(ev, LAMBDA e : e.type \in {"user_message"})) = Cardinality(Typed(ev, {"user_message"}))
      BY TypedLength
    <3> QED
      BY <1>0, <2>1, <2>2, <3>1
  <2>4. counted["tool"] = Cardinality(Typed(ev, TypesOf("tool")))
    <3>1. Len(Where(ev, LAMBDA e : e.type \in {"tool_call", "agent_spawn"}))
            = Cardinality(Typed(ev, {"tool_call", "agent_spawn"}))
      BY TypedLength
    <3> QED
      BY <1>0, <2>1, <2>2, <3>1
  <2>5. counted["result"] = Cardinality(Typed(ev, TypesOf("result")))
    <3>1. Len(Where(ev, LAMBDA e : e.type \in {"tool_result"})) = Cardinality(Typed(ev, {"tool_result"}))
      BY TypedLength
    <3> QED
      BY <1>0, <2>1, <2>2, <3>1
  <2>6. SUFFICES ASSUME NEW c \in CountedChip
                 PROVE  counted[c] = Cardinality(Typed(ev, TypesOf(c)))
    OBVIOUS
  <2>7. c = "user" \/ c = "tool" \/ c = "result"
    BY DEF CountedChip
  <2>8. CASE c = "user"
    BY <2>3, <2>8
  <2>9. CASE c = "tool"
    BY <2>4, <2>9
  <2>10. CASE c = "result"
    BY <2>5, <2>10
  <2> QED
    BY <2>7, <2>8, <2>9, <2>10
<1> PICK hidden : hidden = CountedChip \ checked
  OBVIOUS
<1>3. Len(timeline(ev, checked)) = Len(ev) - SumFunctionOnSet([c \in hidden |-> counted[c]], hidden)
  BY <1>2, HiddenCounted
<1> QED
  BY <1>1, <1>3 DEF CountedOff

(* Of the calls the header counts, some are in batches.                    *)
LEMMA BatchesCounted ==
  ASSUME NEW ev \in Seq(ParsedEvent), Batched(ev), NEW meta, NEW stats, stats = computeSessionStats(ev, meta)
  PROVE  stats.parallelCalls <= stats.toolCalls
<1>1. /\ stats.toolCalls = Len(Where(ev, LAMBDA e : e.type \in {"tool_call", "agent_spawn"}))
      /\ stats.parallelCalls = SumOver(Where(ev, LAMBDA e : e.size > 1 /\ e.index = 1), LAMBDA e : e.size)
  BY DEF computeSessionStats
<1>2. SumOver(Where(ev, LAMBDA e : e.size > 1 /\ e.index = 1), LAMBDA e : e.size)
        <= Len(Where(ev, LAMBDA e : e.type \in CallTypes))
  BY ParallelCalls
<1> QED
  BY <1>1, <1>2 DEF CallTypes

(* For one transcript, whatever its names are called.                      *)
LEMMA ReadingsAgree ==
  ASSUME RatesNat, NEW f, Parsed(f), Batched(f.events),
         NEW tx, NEW stats, NEW rows, NEW dash, NEW bounds, NEW early, NEW turns, NEW dated, NEW counted,
         Views(f, tx, stats, rows, dash, bounds, early, turns, dated, counted),
         NEW checked, NEW row
  PROVE  Fit(tx, stats, rows, dash, bounds, dated, counted, checked, row)
<1> SUFFICES ASSUME tx = OneFile(f),
                    stats = computeSessionStats(tx.events, tx.meta),
                    rows = computeTurnStats(tx),
                    dash = txToDashData(tx),
                    bounds = BoundaryLines(tx, Live),
                    early = Where(SortedBy(Usages(tx.meta, NoTime), LAMBDA u : u.line),
                                 LAMBDA u : bounds # <<>> /\ u.line < bounds[1]),
                    turns = (IF early = <<>> THEN <<>> ELSE <<Last(early)>>) \o Apply(rows, LAMBDA r : r.use),
                    dated = SortedBy(Where(turns, LAMBDA u : u.ts # NoTime /\ u.ctx # 0), LAMBDA u : u.ts),
                    counted = [user |-> stats.userMsgs, tool |-> stats.toolCalls, result |-> stats.toolResults]
             PROVE  /\ IF bounds = <<>> THEN rows = <<>>
                       ELSE Apply(dash, LAMBDA e : <<e.ts, e.model, e.ctx, e.cost>>)
                              = Apply(dated, LAMBDA u : <<u.ts, u.model, u.ctx, CostOf(u)>>)
                    /\ SumOver(dash, LAMBDA e : e.cost) <= stats.cost
                    /\ Len(rows) <= stats.turns /\ stats.parallelCalls <= stats.toolCalls
                    /\ \A sum \in {growthSummary(rows, Cap) : r \in ToSet(rows)} :
                         /\ sum.totalOutput <= stats.output /\ sum.totalInput <= stats.totalInput
                         /\ 100 * sum.peak > 90 * Cap <=> \E r \in ToSet(rows) : severity(r, Cap) = "over"
                    /\ \A i \in DOMAIN rows : hoverRow(rows, i - 1, Max({1, Len(rows) - 1})).turnNum = i
                    /\ {"asst", "think"} \subseteq checked =>
                         Len(timeline(tx.events, checked))
                           = Len(tx.events) - SumEach(DOMAIN counted \ checked, LAMBDA c : counted[c])
                    /\ \A e \in ToSet(selected(tx.events, checked, row)) : ChipOf(e.type) \subseteq checked
  BY Zenon DEF Views, Fit
<1> PICK us : us = Usages(f.meta, NoTime)
  OBVIOUS
<1>1. /\ us \in Seq(AnyUse) /\ f.events \in Seq(AnyEvent) /\ f.events \in Seq(ParsedEvent)
      /\ tx.meta = f.meta /\ tx.events = f.events
      /\ rows = GrowthRows(us, f.events) /\ bounds = Bounds(f.events)
  BY FileViews, ParsedIs
<1>2. stats = computeSessionStats(f.events, f.meta)
  BY <1>1
<1>3. early = Where(SortedBy(us, LAMBDA u : u.line),
                    LAMBDA u : Bounds(f.events) # <<>> /\ u.line < Bounds(f.events)[1])
  BY <1>1
<1>4. IF bounds = <<>> THEN rows = <<>>
      ELSE Apply(dash, LAMBDA e : <<e.ts, e.model, e.ctx, e.cost>>)
             = Apply(dated, LAMBDA u : <<u.ts, u.model, u.ctx, CostOf(u)>>)
  <2>1. CASE Breaks(f.events) = {}
    <3>1. bounds = <<>>
      BY <1>1, <2>1, BoundsNone
    <3>2. GrowthRows(us, f.events) = <<>>
      BY <1>1, <2>1, NoTextNoRow
    <3> QED
      BY <3>1, <3>2, <1>1, Zenon
  <2>2. CASE Breaks(f.events) # {}
    <3>1. bounds # <<>>
      BY <1>1, <2>2, BoundsNone
    <3>2. Apply(txToDashData(OneFile(f)), LAMBDA e : <<e.ts, e.model, e.ctx, e.cost>>)
            = Apply(SortedBy(Where(turns, LAMBDA u : u.ts # NoTime /\ u.ctx # 0), LAMBDA u : u.ts),
                    LAMBDA u : <<u.ts, u.model, u.ctx, CostOf(u)>>)
      BY <1>3, <2>2, DashTuples, Zenon
    <3> QED
      BY <3>1, <3>2, Zenon
  <2> QED
    BY <2>1, <2>2, Zenon
<1>5. /\ Len(rows) <= stats.turns
      /\ SumOver(dash, LAMBDA e : e.cost) <= stats.cost
  BY <1>2, FewerRows
<1>7. stats.parallelCalls <= stats.toolCalls
  BY <1>1, <1>2, BatchesCounted
<1>8. ASSUME NEW sum \in {growthSummary(rows, Cap) : r \in ToSet(rows)}
      PROVE  /\ sum.totalOutput <= stats.output /\ sum.totalInput <= stats.totalInput
             /\ 100 * sum.peak > 90 * Cap <=> \E r \in ToSet(rows) : severity(r, Cap) = "over"
  BY <1>2, RowsAgree
<1>9. ASSUME NEW i \in DOMAIN rows
      PROVE  hoverRow(rows, i - 1, Max({1, Len(rows) - 1})).turnNum = i
  BY HoverAgrees
<1>10. ASSUME {"asst", "think"} \subseteq checked
       PROVE  Len(timeline(f.events, checked))
                = Len(f.events) - SumEach(DOMAIN counted \ checked, LAMBDA c : counted[c])
  <2>1. Len(timeline(f.events, checked)) = Len(f.events) - CountedOff(counted, checked)
    BY <1>1, <1>2, <1>10, ChipsHide, SMTT(30)
  <2> QED
    BY <2>1 DEF SumEach, CountedOff
<1>11. \A e \in ToSet(selected(f.events, checked, row)) : ChipOf(e.type) \subseteq checked
  BY <1>1, SelectedVisible
<1> QED
  BY <1>1, <1>4, <1>5, <1>7, <1>8, <1>9, <1>10, <1>11, Zenon

(* Whatever transcript the Inspector has, what it shows of it in the four  *)
(* places fits together: the dashboard's data and the rows of the context  *)
(* growth, both of them with the header, the summary with the rows, the    *)
(* row under the cursor with its number, and the timeline with the header. *)
THEOREM InspectorAgreement == SpecPanels => []InspectorAgrees
<1>1. ASSUME TypeOKPanels, kind = "session" PROVE InspectorAgrees
  <2>1. kind \in Kind /\ body \in Answers[kind] \cup {Empty}
    BY BodyIs, <1>1 DEF TypeOKPanels
  <2>2. body.rows \in Seq(ParsedEvent) /\ body.meta \in Seq(ParsedMeta) /\ Batched(body.rows)
    BY <1>1, <2>1, PanelsAssumption
  <2>3. Parsed([events |-> body.rows, meta |-> body.meta])
    BY <2>2 DEF Parsed
  <2>4. RatesNat
    BY <1>1, <2>1, PanelsAssumption, Zenon DEF RatesNat
  <2>5. ASSUME NEW tx \in {OneFile([events |-> body.rows, meta |-> body.meta])},
               NEW stats \in {computeSessionStats(tx.events, tx.meta)}, NEW rows \in {computeTurnStats(tx)},
               NEW dash \in {txToDashData(tx)}, NEW bounds \in {BoundaryLines(tx, Live)},
               NEW early \in {Where(SortedBy(Usages(tx.meta, NoTime), LAMBDA u : u.line),
                                    LAMBDA u : bounds # <<>> /\ u.line < bounds[1])},
               NEW turns \in {(IF early = <<>> THEN <<>> ELSE <<Last(early)>>) \o Apply(rows, LAMBDA r : r.use)},
               NEW dated \in {SortedBy(Where(turns, LAMBDA u : u.ts # NoTime /\ u.ctx # 0), LAMBDA u : u.ts)},
               NEW counted \in {[user |-> stats.userMsgs, tool |-> stats.toolCalls, result |-> stats.toolResults]}
        PROVE  /\ IF bounds = <<>> THEN rows = <<>>
                  ELSE Apply(dash, LAMBDA e : <<e.ts, e.model, e.ctx, e.cost>>)
                         = Apply(dated, LAMBDA u : <<u.ts, u.model, u.ctx, CostOf(u)>>)
               /\ SumOver(dash, LAMBDA e : e.cost) <= stats.cost
               /\ Len(rows) <= stats.turns /\ stats.parallelCalls <= stats.toolCalls
               /\ \A sum \in {growthSummary(rows, Cap) : r \in ToSet(rows)} :
                    /\ sum.totalOutput <= stats.output /\ sum.totalInput <= stats.totalInput
                    /\ 100 * sum.peak > 90 * Cap <=> \E r \in ToSet(rows) : severity(r, Cap) = "over"
               /\ \A i \in DOMAIN rows : hoverRow(rows, i - 1, Max({1, Len(rows) - 1})).turnNum = i
               /\ {"asst", "think"} \subseteq BoxesChecked =>
                    Len(timeline(tx.events, BoxesChecked))
                      = Len(tx.events) - SumEach(DOMAIN counted \ BoxesChecked, LAMBDA c : counted[c])
               /\ \A e \in ToSet(selected(tx.events, BoxesChecked, picked)) : ChipOf(e.type) \subseteq BoxesChecked
    <3> PICK f : f = [events |-> body.rows, meta |-> body.meta]
      OBVIOUS
    <3>1. Parsed(f) /\ Batched(f.events)
      BY <2>2, <2>3
    <3>2. tx = OneFile(f)
      OBVIOUS
    <3>3. Views(f, tx, stats, rows, dash, bounds, early, turns, dated, counted)
      BY <3>2 DEF Views
    <3>4. Fit(tx, stats, rows, dash, bounds, dated, counted, BoxesChecked, picked)
      BY <2>4, <3>1, <3>3, ReadingsAgree
    <3> QED
      BY <3>4, Zenon DEF Fit
  <2> QED
    BY <2>5, <1>1, Zenon DEF InspectorAgrees
<1>2. TypeOKPanels => InspectorAgrees
  BY <1>1, Zenon DEF InspectorAgrees
<1> QED
  BY <1>2, PanelTypeCorrect, PTL
=============================================================================
