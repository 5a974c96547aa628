-------------------------------- MODULE Sums --------------------------------
(***************************************************************************)
(* Facts about SumFunctionOnSet (Functions, over MapThenFoldSet of Folds)  *)
(* that the proofs of the components use: bytes in a cache, fetches in     *)
(* flight, characters said.                                                *)
(*                                                                         *)
(* The operator is a recursive function under LET, that is a CHOOSE; that  *)
(* there is such a function and that it adds up in any order is proved by  *)
(* induction on the size of the set.  An induction here looks at the least *)
(* size of a counterexample: a set of numbers is no predicate and needs no *)
(* operator as a parameter.                                                *)
(***************************************************************************)
EXTENDS Integers, FiniteSets, Functions, FiniteSetTheorems, WellFoundedInduction, TLAPS

(* Every non-empty set of natural numbers has a least element.             *)
LEMMA LeastNat ==
  ASSUME NEW T \in SUBSET Nat, T # {}
  PROVE  \E n \in T : \A m \in T : n <= m
<1>1. IsWellFoundedOn({p \in Nat \X Nat : p[1] < p[2]}, Nat)
  BY NatLessThanWellFounded, Zenon DEF OpToRel
<1>2. PICK n \in T : \A m \in T : ~(<<m, n>> \in {p \in Nat \X Nat : p[1] < p[2]})
  BY <1>1, WFMin
<1>3. ASSUME NEW m \in T PROVE n <= m
  <2>1. m \in Nat /\ n \in Nat
    OBVIOUS
  <2>2. <<m, n>> \in {p \in Nat \X Nat : p[1] < p[2]} <=> m < n
    BY <2>1
  <2> QED
    BY <1>2, <2>1, <2>2
<1> QED
  BY <1>3

(* What the recursive function under SumFunctionOnSet says of a set s.     *)
Some(s) == CHOOSE y \in s : TRUE
Unrolled(f, g, s) == IF s = {} THEN 0 ELSE f[Some(s)] + g[s \ {Some(s)}]
Unrolls(f, S, g) == g = [s \in SUBSET S |-> Unrolled(f, g, s)]

(* The sum is the value of a function over the subsets.                    *)
LEMMA SumUnfolds ==
  ASSUME NEW f, NEW S
  PROVE  SumFunctionOnSet(f, S) = (CHOOSE g : Unrolls(f, S, g))[S]
BY DEF SumFunctionOnSet, FoldFunctionOnSet, MapThenFoldSet, Unrolls, Unrolled, Some

(* There is such a function.                                               *)
LEMMA UnrollsExists ==
  ASSUME NEW f, NEW S, IsFiniteSet(S)
  PROVE  \E g : Unrolls(f, S, g)
<1> DEFINE Upto(n) == {s \in SUBSET S : Cardinality(s) <= n}
           Part(n, g) == g = [s \in Upto(n) |-> Unrolled(f, g, s)]
           T == {n \in Nat : ~ \E g : Part(n, g)}
<1>0. ASSUME NEW s \in SUBSET S
      PROVE  /\ Cardinality(s) \in Nat /\ Cardinality(s) <= Cardinality(S)
             /\ s # {} => /\ Some(s) \in s /\ s \ {Some(s)} \in SUBSET S
                          /\ Cardinality(s \ {Some(s)}) = Cardinality(s) - 1
             /\ Cardinality(s) = 0 <=> s = {}
  <2>1. IsFiniteSet(s) /\ Cardinality(s) <= Cardinality(S)
    BY FS_Subset
  <2>2. s # {} => Some(s) \in s
    BY DEF Some
  <2> QED
    BY <2>1, <2>2, FS_RemoveElement, FS_EmptySet, FS_CardinalityType
<1>1. T = {}
  <2>1. SUFFICES ASSUME T # {} PROVE FALSE
    OBVIOUS
  <2>2. PICK n \in T : \A m \in T : n <= m
    BY <2>1, LeastNat
  <2>3. n # 0
    <3> DEFINE g == [s \in {{}} |-> 0]
    <3>0. ASSUME NEW s \in SUBSET S PROVE Cardinality(s) <= 0 <=> s = {}
      <4>1. Cardinality(s) \in Nat /\ (Cardinality(s) = 0 <=> s = {})
        BY <1>0
      <4> QED
        BY <4>1
    <3>1. Upto(0) = {{}}
      BY <3>0
    <3>2. \A s \in {{}} : Unrolled(f, g, s) = 0
      BY DEF Unrolled
    <3>3. Part(0, g)
      BY <3>1, <3>2
    <3> QED
      BY <3>3
  <2> HIDE DEF Part
  <2>4. n - 1 \in Nat /\ n - 1 \notin T
    <3>1. n \in Nat
      OBVIOUS
    <3>2. ~(n <= n - 1)
      BY <3>1
    <3> QED
      BY <3>1, <3>2, <2>2, <2>3
  <2>5. PICK g : Part(n - 1, g)
    BY <2>4
  <2> USE DEF Part
  <2> DEFINE h == [s \in Upto(n) |-> IF s \in Upto(n - 1) THEN g[s] ELSE Unrolled(f, g, s)]
  <2>6. ASSUME NEW s \in Upto(n) PROVE h[s] = Unrolled(f, h, s)
    <3>1. CASE s = {}
      <4>1. s \in Upto(n - 1)
        BY <3>1, <2>4, FS_EmptySet
      <4> QED
        BY <4>1, <2>5, <3>1 DEF Unrolled
    <3>2. CASE s # {}
      <4>1. s \ {Some(s)} \in Upto(n - 1) /\ s \ {Some(s)} \in Upto(n)
        BY <1>0, <3>2, <2>4
      <4>2. h[s \ {Some(s)}] = g[s \ {Some(s)}]
        BY <4>1
      <4>3. h[s] = Unrolled(f, g, s)
        BY <2>5
      <4> QED
        BY <4>2, <4>3, <3>2 DEF Unrolled
    <3> QED
      BY <3>1, <3>2
  <2>7. Part(n, h)
    BY <2>6
  <2> QED
    BY <2>7, <2>2
<1>2. Cardinality(S) \in Nat
  BY FS_CardinalityType
<1>3. PICK g : Part(Cardinality(S), g)
  BY <1>1, <1>2
<1>4. Upto(Cardinality(S)) = SUBSET S
  BY <1>0
<1> QED
  BY <1>3, <1>4 DEF Unrolls

(* Nothing adds up to zero.                                                *)
LEMMA SumOfNone ==
  ASSUME NEW f
  PROVE  SumFunctionOnSet(f, {}) = 0
<1> DEFINE g == CHOOSE u : Unrolls(f, {}, u)
<1>1. Unrolls(f, {}, g)
  BY UnrollsExists, FS_EmptySet
<1>2. g[{}] = Unrolled(f, g, {})
  BY <1>1 DEF Unrolls
<1> QED
  BY <1>2, SumUnfolds DEF Unrolled

(* Two such functions agree where both are defined.                        *)
LEMMA UnrolledAlike ==
  ASSUME NEW f, NEW e, NEW S, NEW R, IsFiniteSet(S), NEW g, NEW h, 
         Unrolls(f, S, g), Unrolls(e, R, h),
         NEW s \in SUBSET (S \cap R), \A x \in s : f[x] = e[x]
  PROVE  g[s] = h[s]
<1> DEFINE Bad(n) == \E t \in SUBSET s : Cardinality(t) = n /\ g[t] # h[t]
           T == {n \in Nat : Bad(n)}
<1>0. ASSUME NEW t \in SUBSET s
      PROVE  /\ Cardinality(t) \in Nat
             /\ g[t] = Unrolled(f, g, t) /\ h[t] = Unrolled(e, h, t)
             /\ t # {} => /\ Some(t) \in t /\ Cardinality(t \ {Some(t)}) = Cardinality(t) - 1
  <2>1. IsFiniteSet(t)
    BY FS_Subset
  <2>2. t # {} => Some(t) \in t
    BY DEF Some
  <2>3. t \in SUBSET S /\ t \in SUBSET R
    OBVIOUS
  <2>4. g[t] = Unrolled(f, g, t) /\ h[t] = Unrolled(e, h, t)
    BY <2>3 DEF Unrolls
  <2> QED
    BY <2>1, <2>2, <2>4, FS_RemoveElement, FS_CardinalityType
<1>1. T = {}
  <2>1. SUFFICES ASSUME T # {} PROVE FALSE
    OBVIOUS
  <2>2. PICK n \in T : \A m \in T : n <= m
    BY <2>1, LeastNat
  <2>3. PICK t \in SUBSET s : Cardinality(t) = n /\ g[t] # h[t]
    BY <2>2
  <2>4. CASE t = {}
    BY <2>4, <2>3, <1>0 DEF Unrolled
  <2>5. CASE t # {}
    <3> DEFINE u == t \ {Some(t)}
    <3>1. u \in SUBSET s /\ Cardinality(u) \in Nat /\ Cardinality(u) = n - 1
      BY <1>0, <2>3, <2>5
    <3>2. g[u] = h[u]
      BY <3>1, <2>2
    <3>3. f[Some(t)] = e[Some(t)]
      BY <1>0, <2>5
    <3> QED
      BY <1>0, <2>3, <2>5, <3>2, <3>3 DEF Unrolled
  <2> QED
    BY <2>4, <2>5
<1> QED
  BY <1>1, <1>0

(* The sum depends on the values on the set only.                          *)
LEMMA SumExtensional ==
  ASSUME NEW S, IsFiniteSet(S), NEW f, NEW e, \A x \in S : f[x] = e[x]
  PROVE  SumFunctionOnSet(f, S) = SumFunctionOnSet(e, S)
<1>1. Unrolls(f, S, CHOOSE g : Unrolls(f, S, g)) /\ Unrolls(e, S, CHOOSE g : Unrolls(e, S, g))
  BY UnrollsExists
<1> QED
  BY <1>1, UnrolledAlike, SumUnfolds

(* One element, and the sum of the rest.                                   *)
LEMMA SumUnrolled ==
  ASSUME NEW S, IsFiniteSet(S), NEW f, S # {}
  PROVE  /\ Some(S) \in S
         /\ SumFunctionOnSet(f, S) = f[Some(S)] + SumFunctionOnSet(f, S \ {Some(S)})
<1> DEFINE R == S \ {Some(S)}
           g == CHOOSE u : Unrolls(f, S, u)
           h == CHOOSE u : Unrolls(f, R, u)
<1>1. IsFiniteSet(R) /\ R \in SUBSET S /\ S \in SUBSET S
  BY FS_Subset
<1>2. Unrolls(f, S, g) /\ Unrolls(f, R, h)
  BY UnrollsExists, <1>1
<1>3. SumFunctionOnSet(f, S) = g[S] /\ SumFunctionOnSet(f, R) = h[R]
  BY SumUnfolds
<1> HIDE DEF g, h
<1>4. g[R] = h[R]
  BY <1>1, <1>2, UnrolledAlike
<1>5. g[S] = Unrolled(f, g, S)
  BY <1>2 DEF Unrolls
<1>6. Some(S) \in S
  BY DEF Some
<1> QED
  BY <1>3, <1>4, <1>5, <1>6 DEF Unrolled

(* Natural numbers add up to a natural number.                             *)
LEMMA SumType ==
  ASSUME NEW S, IsFiniteSet(S), NEW f, \A x \in S : f[x] \in Int
  PROVE  /\ SumFunctionOnSet(f, S) \in Int
         /\ (\A x \in S : f[x] >= 0) => SumFunctionOnSet(f, S) >= 0
<1> DEFINE Good(t) == /\ SumFunctionOnSet(f, t) \in Int
                      /\ (\A x \in S : f[x] >= 0) => SumFunctionOnSet(f, t) >= 0
           T == {n \in Nat : \E t \in SUBSET S : Cardinality(t) = n /\ ~Good(t)}
<1>1. T = {}
  <2>1. SUFFICES ASSUME T # {} PROVE FALSE
    OBVIOUS
  <2>2. PICK n \in T : \A m \in T : n <= m
    BY <2>1, LeastNat
  <2>3. PICK t \in SUBSET S : Cardinality(t) = n /\ ~Good(t)
    BY <2>2
  <2>4. t # {}
    BY <2>3, SumOfNone
  <2> DEFINE u == t \ {Some(t)}
  <2>5. IsFiniteSet(t)
    BY FS_Subset
  <2>6. Some(t) \in t /\ SumFunctionOnSet(f, t) = f[Some(t)] + SumFunctionOnSet(f, u)
    BY <2>4, <2>5, SumUnrolled
  <2>7. u \in SUBSET S /\ Cardinality(u) = n - 1 /\ Cardinality(u) \in Nat
    BY <2>3, <2>5, <2>6, FS_RemoveElement, FS_CardinalityType
  <2>8. Good(u)
    BY <2>7, <2>2
  <2> QED
    BY <2>3, <2>6, <2>8
<1>2. Cardinality(S) \in Nat /\ S \in SUBSET S
  BY FS_CardinalityType
<1> HIDE DEF Good
<1>3. Good(S)
  BY <1>1, <1>2
<1> QED
  BY <1>3 DEF Good

(* Whichever element is taken out, the rest is less by its value.          *)
LEMMA SumWithout ==
  ASSUME NEW S, IsFiniteSet(S), NEW f, \A y \in S : f[y] \in Int, NEW x \in S
  PROVE  SumFunctionOnSet(f, S) = f[x] + SumFunctionOnSet(f, S \ {x})
<1> DEFINE Sum(t) == SumFunctionOnSet(f, t)
           Bad(t) == \E y \in t : Sum(t) # f[y] + Sum(t \ {y})
           T == {n \in Nat : \E t \in SUBSET S : Cardinality(t) = n /\ Bad(t)}
<1>0. ASSUME NEW t \in SUBSET S
      PROVE  IsFiniteSet(t) /\ Sum(t) \in Int
  <2>1. IsFiniteSet(t)
    BY FS_Subset
  <2> QED
    BY <2>1, SumType
<1>1. T = {}
  <2>1. SUFFICES ASSUME T # {} PROVE FALSE
    OBVIOUS
  <2>2. PICK n \in T : \A m \in T : n <= m
    BY <2>1, LeastNat
  <2>3. PICK t \in SUBSET S : Cardinality(t) = n /\ Bad(t)
    BY <2>2
  <2>4. PICK y \in t : Sum(t) # f[y] + Sum(t \ {y})
    BY <2>3
  <2> DEFINE z == Some(t)
  <2>5. z \in t /\ Sum(t) = f[z] + Sum(t \ {z})
    BY <2>4, <1>0, SumUnrolled
  <2>6. z # y
    BY <2>4, <2>5
  <2> HIDE DEF z, Sum
  <2>7. ASSUME NEW v \in t
        PROVE  /\ t \ {v} \in SUBSET S 
               /\ ~Bad(t \ {v})
    <3>1. Cardinality(t \ {v}) = n - 1 /\ Cardinality(t \ {v}) \in Nat
      BY <1>0, <2>3, FS_RemoveElement, FS_CardinalityType
    <3>2. n \in Nat /\ ~(n <= n - 1)
      OBVIOUS
    <3> HIDE DEF Bad
    <3>3. n - 1 \notin T
      BY <3>2, <2>2
    <3> QED
      BY <3>1, <3>3
  <2>8. Sum(t \ {z}) = f[y] + Sum((t \ {z}) \ {y})
    BY <2>5, <2>6, <2>7
  <2>9. Sum(t \ {y}) = f[z] + Sum((t \ {y}) \ {z})
    BY <2>5, <2>6, <2>7
  <2>10. (t \ {z}) \ {y} = (t \ {y}) \ {z}
    OBVIOUS
  <2>11. Sum((t \ {z}) \ {y}) \in Int /\ f[z] \in Int /\ f[y] \in Int
    BY <1>0, <2>5
  <2>12. \A a, b, c \in Int : a + (b + c) = b + (a + c)
    OBVIOUS
  <2>13. Sum(t) = f[z] + (f[y] + Sum((t \ {z}) \ {y}))
    BY <2>5, <2>8, Zenon
  <2>14. f[y] + Sum(t \ {y}) = f[y] + (f[z] + Sum((t \ {z}) \ {y}))
    BY <2>9, <2>10, Zenon
  <2> QED
    BY <2>4, <2>11, <2>12, <2>13, <2>14, Zenon
<1>2. Cardinality(S) \in Nat /\ S \in SUBSET S
  BY FS_CardinalityType
<1> HIDE DEF Bad
<1>3. ~Bad(S)
  BY <1>1, <1>2
<1> QED
  BY <1>3 DEF Bad

(* One more element adds its value, whichever it is.                       *)
LEMMA SumWith ==
  ASSUME NEW S, IsFiniteSet(S), NEW f, \A y \in S : f[y] \in Int, NEW x, x \notin S, f[x] \in Int
  PROVE  SumFunctionOnSet(f, S \cup {x}) = f[x] + SumFunctionOnSet(f, S)
<1>1. IsFiniteSet(S \cup {x}) /\ x \in S \cup {x} /\ (S \cup {x}) \ {x} = S
  BY FS_AddElement
<1>2. \A y \in S \cup {x} : f[y] \in Int
  OBVIOUS
<1> DEFINE R == S \cup {x}
<1> HIDE DEF R
<1>3. SumFunctionOnSet(f, R) = f[x] + SumFunctionOnSet(f, R \ {x})
  BY <1>1, <1>2, SumWithout DEF R
<1> QED
  BY <1>1, <1>3 DEF R

(* Changing one value changes the sum by as much.                          *)
LEMMA SumChanged ==
  ASSUME NEW S, IsFiniteSet(S), NEW f, \A y \in S : f[y] \in Int,
         NEW x \in S, NEW e, e[x] \in Int, \A y \in S \ {x} : e[y] = f[y]
  PROVE  SumFunctionOnSet(e, S) = SumFunctionOnSet(f, S) + (e[x] - f[x])
<1>1. IsFiniteSet(S \ {x})
  BY FS_RemoveElement
<1>2. \A y \in S : e[y] \in Int
  OBVIOUS
<1>3. SumFunctionOnSet(e, S \ {x}) = SumFunctionOnSet(f, S \ {x})
  BY <1>1, SumExtensional
<1>4. SumFunctionOnSet(f, S) = f[x] + SumFunctionOnSet(f, S \ {x})
  BY SumWithout
<1>5. SumFunctionOnSet(e, S) = e[x] + SumFunctionOnSet(e, S \ {x})
  BY <1>2, SumWithout
<1>6. SumFunctionOnSet(f, S \ {x}) \in Int
  BY <1>1, SumType
<1> QED
  BY <1>2, <1>3, <1>4, <1>5, <1>6

(* Of numbers none of which is negative, none exceeds the sum.             *)
LEMMA SumAtLeast ==
  ASSUME NEW S, IsFiniteSet(S), NEW f, \A y \in S : f[y] \in Nat, NEW x \in S
  PROVE  SumFunctionOnSet(f, S) \in Nat /\ f[x] <= SumFunctionOnSet(f, S)
<1>1. IsFiniteSet(S \ {x})
  BY FS_RemoveElement
<1>2. SumFunctionOnSet(f, S) = f[x] + SumFunctionOnSet(f, S \ {x})
  BY SumWithout
<1>3. SumFunctionOnSet(f, S \ {x}) \in Int /\ SumFunctionOnSet(f, S \ {x}) >= 0
  BY <1>1, SumType
<1> QED
  BY <1>2, <1>3

(* Zeroes add up to zero.                                                  *)
LEMMA SumOfZeroes ==
  ASSUME NEW S, IsFiniteSet(S), NEW f, \A y \in S : f[y] = 0
  PROVE  SumFunctionOnSet(f, S) = 0
<1> DEFINE T == {n \in Nat : \E t \in SUBSET S : Cardinality(t) = n /\ SumFunctionOnSet(f, t) # 0}
<1>1. T = {}
  <2>1. SUFFICES ASSUME T # {} PROVE FALSE
    OBVIOUS
  <2>2. PICK n \in T : \A m \in T : n <= m
    BY <2>1, LeastNat
  <2>3. PICK t \in SUBSET S : Cardinality(t) = n /\ SumFunctionOnSet(f, t) # 0
    BY <2>2
  <2>4. IsFiniteSet(t) /\ t # {}
    BY <2>3, FS_Subset, SumOfNone
  <2> DEFINE u == t \ {Some(t)}
  <2>5. Some(t) \in t /\ SumFunctionOnSet(f, t) = f[Some(t)] + SumFunctionOnSet(f, u)
    BY <2>4, SumUnrolled
  <2>6. u \in SUBSET S /\ Cardinality(u) = n - 1 /\ Cardinality(u) \in Nat
    BY <2>3, <2>4, <2>5, FS_RemoveElement, FS_CardinalityType
  <2>7. SumFunctionOnSet(f, u) = 0
    BY <2>6, <2>2
  <2> QED
    BY <2>3, <2>5, <2>7
<1>2. Cardinality(S) \in Nat /\ S \in SUBSET S
  BY FS_CardinalityType
<1> QED
  BY <1>1, <1>2
(* A bounded set of natural numbers has a greatest.                        *)
LEMMA GreatestNat ==
  ASSUME NEW T \in SUBSET Nat, T # {}, NEW bound \in Nat, \A m \in T : m <= bound
  PROVE  \E n \in T : \A m \in T : m <= n
<1> DEFINE B == {b \in Nat : \A m \in T : m <= b}
<1>1. PICK b \in B : \A c \in B : b <= c
  <2>1. bound \in B
    OBVIOUS
  <2> QED
    BY <2>1, LeastNat
<1>2. b \in T
  <2>1. SUFFICES ASSUME b \notin T PROVE FALSE
    OBVIOUS
  <2>2. PICK m : m \in T
    OBVIOUS
  <2>3. \A n \in T : n \in Nat /\ n < b
    BY <2>1
  <2>4. b - 1 \in Nat /\ ~(b <= b - 1)
    BY <2>2, <2>3
  <2>5. b - 1 \in B
    BY <2>3, <2>4
  <2> QED
    BY <2>4, <2>5, <1>1
<1> QED
  BY <1>2

(* A sum computed by a function of its own for the subsets.                *)
LEMMA SumByFunction ==
  ASSUME NEW S, IsFiniteSet(S), NEW f, NEW g, Unrolls(f, S, g)
  PROVE  g[S] = SumFunctionOnSet(f, S)
<1> DEFINE h == CHOOSE u : Unrolls(f, S, u)
<1>1. Unrolls(f, S, h)
  BY Zenon
<1> HIDE DEF h
<1>2. g[S] = h[S]
  BY <1>1, UnrolledAlike
<1> QED
  BY <1>2, SumUnfolds DEF h

(* Two sums over sets without common elements.                             *)
LEMMA SumOfUnion ==
  ASSUME NEW S, IsFiniteSet(S), NEW f, \A x \in S : f[x] \in Int,
         NEW A \in SUBSET S, NEW B \in SUBSET S, A \cap B = {}
  PROVE  SumFunctionOnSet(f, A \cup B) = SumFunctionOnSet(f, A) + SumFunctionOnSet(f, B)
<1> DEFINE Sum(s) == SumFunctionOnSet(f, s)
           Bad(t) == Sum(A \cup t) # Sum(A) + Sum(t)
           T == {n \in Nat : \E t \in SUBSET B : Cardinality(t) = n /\ Bad(t)}
<1>0. ASSUME NEW t \in SUBSET S
      PROVE  IsFiniteSet(t) /\ Sum(t) \in Int /\ Cardinality(t) \in Nat
  <2>1. IsFiniteSet(t)
    BY FS_Subset
  <2> QED
    BY <2>1, SumType, FS_CardinalityType
<1>1. T = {}
  <2>1. SUFFICES ASSUME T # {} PROVE FALSE
    OBVIOUS
  <2>2. PICK n \in T : \A m \in T : n <= m
    BY <2>1, LeastNat
  <2>3. PICK t \in SUBSET B : Cardinality(t) = n /\ Bad(t)
    BY <2>2
  <2>4. t # {}
    <3>1. SUFFICES ASSUME t = {} PROVE FALSE
      OBVIOUS
    <3>2. A \cup t = A /\ Sum(t) = 0 /\ Sum(A) \in Int
      BY <3>1, <1>0, SumOfNone
    <3> QED
      BY <3>2, <2>3
  <2>5. PICK x : x \in t
    BY <2>4
  <2> DEFINE u == t \ {x}
  <2>6. u \in SUBSET B /\ Cardinality(u) = n - 1 /\ Cardinality(u) \in Nat
    BY <1>0, <2>3, <2>5, FS_RemoveElement
  <2>7. ~Bad(u)
    <3> HIDE DEF Bad
    <3>1. n \in Nat /\ ~(n <= n - 1)
      OBVIOUS
    <3> QED
      BY <3>1, <2>2, <2>6
  <2>8. (A \cup t) \ {x} = A \cup u
    BY <2>5
  <2>9. /\ Sum(t) = f[x] + Sum(u)
        /\ Sum(A \cup t) = f[x] + Sum((A \cup t) \ {x})
    BY <1>0, <2>5, SumWithout
  <2>10. f[x] \in Int /\ Sum(A) \in Int /\ Sum(u) \in Int
    BY <1>0, <2>5, <2>6
  <2> HIDE DEF Sum, u
  <2>11. Sum(A \cup t) = f[x] + (Sum(A) + Sum(u))
    BY <2>7, <2>8, <2>9
  <2> QED
    BY <2>3, <2>9, <2>10, <2>11
<1>2. Cardinality(B) \in Nat
  BY <1>0
<1> HIDE DEF Bad
<1>3. ~Bad(B)
  BY <1>1, <1>2
<1> QED
  BY <1>3 DEF Bad

(* The members of a set R name the parts of another.                       *)
Splits(S, R, parts) ==
  /\ IsFiniteSet(S) /\ IsFiniteSet(R) /\ parts \in [R -> SUBSET S]
  /\ \A x \in S : \E r \in R : x \in parts[r]
  /\ \A r, q \in R : r # q => parts[r] \cap parts[q] = {}

(* A sum over a set is the sum of the sums over its parts.                 *)
LEMMA SumByParts ==
  ASSUME NEW S, NEW R, NEW parts, Splits(S, R, parts),
         NEW f, \A x \in S : f[x] \in Int,
         NEW part, \A r \in R : part[r] = SumFunctionOnSet(f, parts[r])
  PROVE  SumFunctionOnSet(f, S) = SumFunctionOnSet(part, R)
<1> USE DEF Splits
<1> DEFINE In(t) == {x \in S : \E r \in t : x \in parts[r]}
           Bad(t) == SumFunctionOnSet(f, In(t)) # SumFunctionOnSet(part, t)
           T == {n \in Nat : \E t \in SUBSET R : Cardinality(t) = n /\ Bad(t)}
<1>0. ASSUME NEW t \in SUBSET R
      PROVE  IsFiniteSet(t) /\ Cardinality(t) \in Nat
  BY FS_Subset, FS_CardinalityType
<1>1. T = {}
  <2>1. SUFFICES ASSUME T # {} PROVE FALSE
    OBVIOUS
  <2>2. PICK n \in T : \A m \in T : n <= m
    BY <2>1, LeastNat
  <2>3. PICK t \in SUBSET R : Cardinality(t) = n /\ Bad(t)
    BY <2>2
  <2>4. t # {}
    <3>1. SUFFICES ASSUME t = {} PROVE FALSE
      OBVIOUS
    <3>2. In(t) = {} /\ t = {}
      BY <3>1
    <3>3. SumFunctionOnSet(f, In(t)) = 0 /\ SumFunctionOnSet(part, t) = 0
      BY <3>2, SumOfNone
    <3> QED
      BY <3>3, <2>3
  <2>5. PICK r : r \in t
    BY <2>4
  <2> DEFINE u == t \ {r}
             own == parts[r]
  <2>6. u \in SUBSET R /\ Cardinality(u) = n - 1 /\ Cardinality(u) \in Nat
    BY <1>0, <2>3, <2>5, FS_RemoveElement
  <2>7. ~Bad(u)
    <3> HIDE DEF Bad
    <3>1. n \in Nat /\ ~(n <= n - 1)
      OBVIOUS
    <3> QED
      BY <3>1, <2>2, <2>6
  <2>8. In(t) = own \cup In(u) /\ own \cap In(u) = {}
    BY <2>5
  <2>9. SumFunctionOnSet(f, In(t)) = SumFunctionOnSet(f, own) + SumFunctionOnSet(f, In(u))
    <3> DEFINE rest == In(u)
    <3>1. own \in SUBSET S /\ rest \in SUBSET S /\ own \cap rest = {} /\ In(t) = own \cup rest
      BY <2>8
    <3> HIDE DEF own, rest
    <3>2. SumFunctionOnSet(f, own \cup rest) = SumFunctionOnSet(f, own) + SumFunctionOnSet(f, rest)
      BY <3>1, SumOfUnion
    <3> QED
      BY <3>1, <3>2 DEF rest
  <2>10. \A q \in R : part[q] \in Int
    <3> SUFFICES ASSUME NEW q \in R PROVE part[q] \in Int
      OBVIOUS
    <3> DEFINE c == parts[q]
    <3>1. IsFiniteSet(c) /\ \A x \in c : f[x] \in Int
      BY FS_Subset
    <3> HIDE DEF c
    <3>2. SumFunctionOnSet(f, c) \in Int
      BY <3>1, SumType
    <3> QED
      BY <3>2 DEF c
  <2>11. SumFunctionOnSet(part, t) = part[r] + SumFunctionOnSet(part, u)
    <3>1. IsFiniteSet(t) /\ \A q \in t : part[q] \in Int
      BY <1>0, <2>10
    <3> QED
      BY <2>5, <3>1, SumWithout
  <2>12. part[r] = SumFunctionOnSet(f, own)
    BY <2>5
  <2> HIDE DEF own, In, u
  <2> QED
    BY <2>3, <2>7, <2>9, <2>11, <2>12
<1>2. Cardinality(R) \in Nat
  BY <1>0
<1>3. In(R) = S
  OBVIOUS
<1> HIDE DEF Bad, In
<1>4. ~Bad(R)
  BY <1>1, <1>2
<1> QED
  BY <1>3, <1>4 DEF Bad
(* Of numbers none of which is negative, the sum is zero if all are.       *)
LEMMA SumIsZero ==
  ASSUME NEW S, IsFiniteSet(S), NEW f, \A y \in S : f[y] \in Nat
  PROVE  SumFunctionOnSet(f, S) = 0 <=> \A y \in S : f[y] = 0
<1>1. ASSUME SumFunctionOnSet(f, S) = 0, NEW y \in S PROVE f[y] = 0
  <2>1. f[y] <= SumFunctionOnSet(f, S) /\ f[y] \in Nat
    BY SumAtLeast
  <2> QED
    BY <1>1, <2>1
<1> QED
  BY <1>1, SumOfZeroes

(* One element has its value as the sum.                                   *)
LEMMA SumOfOne ==
  ASSUME NEW f, NEW x, f[x] \in Int
  PROVE  SumFunctionOnSet(f, {x}) = f[x]
<1>1. IsFiniteSet({x}) /\ x \in {x} /\ {x} \ {x} = {}
  BY FS_Singleton
<1>2. SumFunctionOnSet(f, {x}) = f[x] + SumFunctionOnSet(f, {x} \ {x})
  BY <1>1, SumWithout
<1>3. SumFunctionOnSet(f, {x} \ {x}) = 0
  BY <1>1, SumOfNone
<1> QED
  BY <1>2, <1>3

(* The elements of T are other names of those of S.                        *)
Renames(h, T, S) ==
  /\ IsFiniteSet(S) /\ IsFiniteSet(T) /\ h \in [T -> S]
  /\ \A x \in S : \E t \in T : h[t] = x
  /\ \A t, u \in T : h[t] = h[u] => t = u

(* The same values under other names have the same sum.                    *)
LEMMA SumRenamed ==
  ASSUME NEW S, NEW T, NEW h, Renames(h, T, S),
         NEW f, \A x \in S : f[x] \in Int, NEW e, \A t \in T : e[t] = f[h[t]]
  PROVE  SumFunctionOnSet(e, T) = SumFunctionOnSet(f, S)
<1> DEFINE parts == [t \in T |-> {h[t]}]
<1>1. Splits(S, T, parts)
  BY DEF Splits, Renames
<1>2. \A t \in T : e[t] = SumFunctionOnSet(f, parts[t])
  <2> SUFFICES ASSUME NEW t \in T PROVE e[t] = SumFunctionOnSet(f, {h[t]})
    OBVIOUS
  <2>1. f[h[t]] \in Int
    BY DEF Renames
  <2> QED
    BY <2>1, SumOfOne
<1> HIDE DEF parts
<1> QED
  BY <1>1, <1>2, SumByParts

(* The sum of sums, element by element.                                    *)
LEMMA SumAdded ==
  ASSUME NEW S, IsFiniteSet(S), NEW f, \A x \in S : f[x] \in Int, NEW g, \A x \in S : g[x] \in Int,
         NEW e, \A x \in S : e[x] = f[x] + g[x]
  PROVE  SumFunctionOnSet(e, S) = SumFunctionOnSet(f, S) + SumFunctionOnSet(g, S)
<1> DEFINE Good(t) == SumFunctionOnSet(e, t) = SumFunctionOnSet(f, t) + SumFunctionOnSet(g, t)
           T == {n \in Nat : \E t \in SUBSET S : Cardinality(t) = n /\ ~Good(t)}
<1>0. ASSUME NEW t \in SUBSET S
      PROVE  /\ IsFiniteSet(t) /\ Cardinality(t) \in Nat
             /\ SumFunctionOnSet(f, t) \in Int /\ SumFunctionOnSet(g, t) \in Int
  <2>1. IsFiniteSet(t)
    BY FS_Subset
  <2> QED
    BY <2>1, SumType, FS_CardinalityType
<1>1. T = {}
  <2>1. SUFFICES ASSUME T # {} PROVE FALSE
    OBVIOUS
  <2>2. PICK n \in T : \A m \in T : n <= m
    BY <2>1, LeastNat
  <2>3. PICK t \in SUBSET S : Cardinality(t) = n /\ ~Good(t)
    BY <2>2
  <2>4. t # {}
    BY <2>3, SumOfNone
  <2>5. PICK x : x \in t
    BY <2>4
  <2>6. PICK u : u = t \ {x}
    OBVIOUS
  <2>7. u \in SUBSET S /\ Cardinality(u) = n - 1 /\ Cardinality(u) \in Nat
    BY <1>0, <2>3, <2>5, <2>6, FS_RemoveElement
  <2>8. Good(u)
    <3>1. n \in Nat /\ ~(n <= n - 1)
      OBVIOUS
    <3> HIDE DEF Good
    <3> QED
      BY <3>1, <2>2, <2>7
  <2>9. /\ SumFunctionOnSet(e, t) = e[x] + SumFunctionOnSet(e, u)
        /\ SumFunctionOnSet(f, t) = f[x] + SumFunctionOnSet(f, u)
        /\ SumFunctionOnSet(g, t) = g[x] + SumFunctionOnSet(g, u)
    <3>1. IsFiniteSet(t)
      BY <1>0
    <3>2. \A y \in t : e[y] \in Int /\ f[y] \in Int /\ g[y] \in Int
      OBVIOUS
    <3> QED
      BY <2>5, <2>6, <3>1, <3>2, SumWithout
  <2>10. /\ f[x] \in Int /\ g[x] \in Int /\ e[x] = f[x] + g[x]
         /\ SumFunctionOnSet(f, u) \in Int /\ SumFunctionOnSet(g, u) \in Int
    BY <1>0, <2>5, <2>7
  <2> QED
    BY <2>3, <2>8, <2>9, <2>10
<1>2. Cardinality(S) \in Nat
  BY <1>0
<1> HIDE DEF Good
<1>3. Good(S)
  BY <1>1, <1>2
<1> QED
  BY <1>3 DEF Good
=============================================================================
