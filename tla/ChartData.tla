------------------------------ MODULE ChartData ------------------------------
(***************************************************************************)
(* Sorting, grouping and ticking as the charts do it.                      *)
(*                                                                         *)
(* Array.prototype.sort is stable, a Map or an object keeps the order in   *)
(* which its keys were first set, and a Set does the same.                 *)
(***************************************************************************)
EXTENDS Integers, SequencesExt

(* The sequence s itself; TLC computes its elements once and for all.      *)
Computed(s) == SubSeq(s, 1, Len(s))

(* sort((a, b) => Rank(a) - Rank(b)), by the place where each one goes.    *)
Before(rank, i) == {j \in DOMAIN rank : rank[j] < rank[i] \/ (rank[j] = rank[i] /\ j <= i)}
Ordered(s, rank) ==
  LET place == Computed([i \in DOMAIN rank |-> Cardinality(Before(rank, i))])
  IN  Computed([k \in DOMAIN s |-> s[CHOOSE i \in DOMAIN s : place[i] = k]])
SortedBy(s, Rank(_)) == Ordered(s, Computed([i \in DOMAIN s |-> Rank(s[i])]))
Upto(S, v) == {u \in S : u <= v}
Ascending(S) ==
  Computed([k \in 1 .. Cardinality(S) |-> CHOOSE v \in S : Cardinality(Upto(S, v)) = k])

(* What stands at the places in S, in order.  filter keeps what passes, a  *)
(* Map or a Set the first of each value.                                   *)
At(s, S) == LET place == Ascending(S) IN Computed([k \in DOMAIN place |-> s[place[k]]])
Where(s, Test(_)) == At(s, {i \in DOMAIN s : Test(s[i])})
Distinct(s) == At(s, {i \in DOMAIN s : \A j \in 1 .. i - 1 : s[j] # s[i]})

First(s, n) == SubSeq(s, 1, Min({n, Len(s)}))
SumEach(S, Val(_)) == SumFunctionOnSet([x \in S |-> Val(x)], S)
SumOver(s, Val(_)) == SumEach(DOMAIN s, LAMBDA i : Val(s[i]))
SumWhere(s, Test(_), Val(_)) == SumEach({i \in DOMAIN s : Test(s[i])}, LAMBDA i : Val(s[i]))
Apply(s, Op(_)) == Computed([i \in DOMAIN s |-> Op(s[i])])
Abs(n) == IF n < 0 THEN -n ELSE n

(* The element of S with the least Dist, the first one on a tie.           *)
Nearest(S, Dist(_)) ==
  CHOOSE i \in S : \A j \in S : Dist(i) < Dist(j) \/ (Dist(i) = Dist(j) /\ i <= j)

(* What a row of checkboxes leaves checked: the default of the data on     *)
(* display, with the user's clicks of earlier data laid over it.           *)
Checked(default, overrides) ==
  LET clicked(on) == {k \in DOMAIN overrides : overrides[k] = on}
  IN  (default \ clicked("off")) \cup clicked("on")

(* Rows of the pseudo-model <synthetic> are dropped everywhere.            *)
Synthetic == "synthetic"
Real(rows) == Where(rows, LAMBDA r : r.model # Synthetic)

(* The model select of a panel: the models by requests, the most first.    *)
modelOpts(models) ==
  LET keys == Distinct(Apply(Real(models), LAMBDA m : m.model))
      n(k) == SumWhere(models, LAMBDA m : m.model = k, LAMBDA m : m.n)
  IN  SortedBy(keys, LAMBDA k : -n(k))
=============================================================================
