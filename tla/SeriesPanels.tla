----------------------------- MODULE SeriesPanels -----------------------------
(***************************************************************************)
(* The panels that draw one line for each model: ResponseSizesPanel and    *)
(* ReplyLatencyPanel over time, ContextGrowthPanel over the turns of a     *)
(* session.                                                                *)
(*                                                                         *)
(* The first two have a logarithmic axis, so a percentile is kept as its   *)
(* exponent, doubled to hold the half steps of the extrapolated ends, and  *)
(* an interpolated value as num / den.  The cursor is at a time x (times   *)
(* are doubled, too) and at an exponent y.                                 *)
(***************************************************************************)
EXTENDS ChartData

CONSTANTS
  Slack,  \* how far beside a line's ends the cursor still finds it (2 px)
  Reach   \* how far above or below a line (32 px)

ASSUME SeriesAssumption == Slack \in Nat /\ Reach \in Nat

Percentile == {"p10", "p50", "p90"}

(* What a row is.  No model is called like what else the tooltip tells.    *)
PercentileRows(rows) ==
  \A r \in ToSet(rows) :
    /\ r.ts \in Int /\ r.n \in Nat /\ \A k \in Percentile : r.at[k] \in Int
    /\ r.model \notin {"none", "outlier"}

(***************************************************************************)
(* Response sizes and reply latency                                        *)
(***************************************************************************)
Moved(p, ts) == [p EXCEPT !.ts = ts]
Projected(edge, next, ts) ==
  [edge EXCEPT !.ts = ts, !.at = [k \in Percentile |-> (3 * edge.at[k] - next.at[k]) \div 2]]

(* Half a bucket more at both ends, in the direction of the last two       *)
(* points, or flat when there is only one.                                 *)
extendBucketSeries(points, half) ==
  LET n == Len(points)
  IN  CASE n = 0 -> points
        [] n = 1 -> <<Moved(points[1], points[1].ts - half), points[1],
                      Moved(points[1], points[1].ts + half)>>
        [] n > 1 -> <<Projected(points[1], points[2], points[1].ts - half)>> \o points
                    \o <<Projected(points[n], points[n - 1], points[n].ts + half)>>

(* A row: bucket, model, number of responses, percentiles (exponents).     *)
Point(row) == [ts |-> 2 * row.ts, n |-> row.n, at |-> [k \in Percentile |-> 2 * row.at[k]]]
SeriesOf(rows, bucketMs) ==
  LET points(m) == SortedBy(Apply(Where(rows, LAMBDA r : r.model = m), Point),
                           LAMBDA p : p.ts)
      keys == Distinct(Apply(Real(rows), LAMBDA r : r.model))
      line(m) == [key |-> m, points |-> extendBucketSeries(points(m), bucketMs),
                  n |-> SumOver(points(m), LAMBDA p : p.n)]
  IN  SortedBy(Apply(keys, line), LAMBDA s : -s.n)

(* Rows without responses are dropped by one panel only.                   *)
responseSeries(rows, bucketMs) == SeriesOf(Where(rows, LAMBDA r : r.n > 0), bucketMs)
latencySeries(rows, bucketMs)  == SeriesOf(rows, bucketMs)

seriesSel(series, over) == Checked({series[i].key : i \in DOMAIN series}, over)
visible(series, over)   == Where(series, LAMBDA s : s.key \in seriesSel(series, over))
visibleOutliers(outliers, series, over) ==
  Where(outliers, LAMBDA o : o.model \in {s.key : s \in ToSet(visible(series, over))})

(* The segment under x and how far along it x is.                          *)
SegmentAt(points, x, along(_, _)) ==
  LET n == Len(points)
      i == Min({n} \cup {j \in 1 .. n - 1 : points[j + 1].ts >= x})
      a == points[i]
      b == points[Min({i + 1, n})]
  IN  [a |-> a, b |-> b, den |-> Max({1, b.ts - a.ts}), num |-> along(a, b)]
SegmentUnclamped(points, x) == SegmentAt(points, x, LAMBDA a, b : x - a.ts)    \* mutant
Segment(points, x) ==
  SegmentAt(points, x, LAMBDA a, b : Max({0, Min({b.ts - a.ts, x - a.ts})}))
(* The value there; the axis ends at floor.                                *)
lerpLog(s, k, floor) ==
  LET la == Max({floor, s.a.at[k]})
      lb == Max({floor, s.b.at[k]})
  IN  [num |-> la * s.den + s.num * (lb - la), den |-> s.den]
Off(v, y) == [num |-> Abs(v.num - y * v.den), den |-> v.den]
Closer(d, e) == d.num * e.den < e.num * d.den

(* onMove of both panels: the line whose median is nearest to the cursor,  *)
(* the first one on a tie, unless none is within reach.                    *)
HoverLine(lines, x, y, floor) ==
  LET under == {i \in DOMAIN lines :
                  LET p == lines[i].points
                  IN  p # <<>> /\ p[1].ts - Slack <= x /\ x <= p[Len(p)].ts + Slack}
      seg(i)  == Segment(lines[i].points, x)
      dist(i) == Off(lerpLog(seg(i), "p50", floor), y)
      best    == CHOOSE i \in under : \A j \in under :
                   Closer(dist(i), dist(j)) \/ (~Closer(dist(j), dist(i)) /\ i <= j)
  IN  IF under = {} \/ dist(best).num > Reach * dist(best).den
      THEN [key |-> "none"]
      ELSE [key |-> lines[best].key, segment |-> seg(best),
            at |-> [k \in Percentile |-> lerpLog(seg(best), k, floor)]]

(* An outlier's dot under the cursor comes before any line.                *)
HoverLatency(lines, outliers, x, y, floor) ==
  LET dots == {i \in DOMAIN outliers : 2 * outliers[i].ts = x /\ 2 * outliers[i].latency = y}
  IN  IF dots # {} THEN [key |-> "outlier", of |-> outliers[Min(dots)].model]
      ELSE HoverLine(lines, x, y, floor)

(***************************************************************************)
(* Context growth                                                          *)
(***************************************************************************)
Origin == [t |-> 0, ctx |-> 0]
ShiftedNot(turns) == [i \in DOMAIN turns |-> [t |-> i - 1, ctx |-> turns[i]]]  \* mutant
Shifted(turns) == [i \in DOMAIN turns |-> [t |-> i, ctx |-> turns[i]]]
Trace(points)   == <<Origin>> \o points

(* Events of a demo or of a dropped file, one trace for each session,      *)
(* under the model of most of its events.                                  *)
buildSessionTurns(events) ==
  LET ids     == Distinct(Apply(events, LAMBDA e : e.session))
      of(id)  == SortedBy(Where(events, LAMBDA e : e.session = id), LAMBDA e : e.turn)
      dom(id) == SortedBy(Distinct(Apply(of(id), LAMBDA e : e.model)),
                          LAMBDA m : -Len(Where(of(id), LAMBDA e : e.model = m)))[1]
  IN  Apply(ids, LAMBDA id :
        [model |-> dom(id),
         seq |-> Trace(Apply(of(id), LAMBDA e : [t |-> e.turn + 1, ctx |-> e.ctx]))])

(* The traces of a body, each with its model: those of files, or those of  *)
(* sessions (one for each model used), or those made of the events.  The   *)
(* dashboard's sessions come without turns and then there is nothing.      *)
TracesOf(body) ==
  LET files == Where(body.traces, LAMBDA t : t.turns # <<>>)
      sessions == Where(body.sessions, LAMBDA s : s.turns # <<>>)
      under(s) == Apply(Distinct(s.used), LAMBDA m :
                    [model |-> m,
                     seq |-> Trace(Apply(s.turns, LAMBDA p : [t |-> p.t + 1, ctx |-> p.ctx]))])
  IN  Real(CASE body.traces # <<>> ->
                  Apply(files, LAMBDA t : [model |-> t.model, seq |-> Trace(Shifted(t.turns))])
             [] body.traces = <<>> /\ body.sessions # <<>> ->
                  FlattenSeq(Apply(sessions, under))
             [] body.traces = <<>> /\ body.sessions = <<>> -> buildSessionTurns(body.events))

byModel(traces, m) == Where(traces, LAMBDA t : t.model = m)
ctxModels(traces) ==
  SortedBy(Distinct(Apply(traces, LAMBDA t : t.model)), LAMBDA m : -Len(byModel(traces, m)))
ctxSel(traces, over) == Checked(ToSet(First(ctxModels(traces), 2)), over)
cmpModels(traces, over) == Where(ctxModels(traces), LAMBDA m : m \in ctxSel(traces, over))

(* The sizes of one model's traces at each turn, and their quantiles.      *)
maxT(traces) == Max({0} \cup {p.t : p \in UNION {ToSet(t.seq) : t \in ToSet(traces)}})
AtTurn(traces, turn) ==
  SortedBy(FlattenSeq(Apply(traces, LAMBDA s :
             Apply(Where(s.seq, LAMBDA p : p.t = turn), LAMBDA p : p.ctx))), LAMBDA v : v)
pick(vals, num, den) == vals[Min({Len(vals), (Len(vals) * num) \div den + 1})]
NoStats == [count |-> 0]
perTurnStats(traces) ==
  [turn \in 0 .. maxT(traces) |->
     LET vals == AtTurn(traces, turn)
     IN  IF vals = <<>> THEN NoStats
         ELSE [count |-> Len(vals), median |-> vals[(Len(vals) \div 2) + 1],
               p25 |-> pick(vals, 1, 4), p75 |-> pick(vals, 3, 4), p90 |-> pick(vals, 9, 10)]]

(* A sub-panel: its cap, the end of its axis (both in parts of 10000), how *)
(* many traces are still active at a turn, the ribbon and the median where *)
(* there are any, everything cut off at the axis' end.                     *)
maxCtx(traces) == Max({0} \cup {p.ctx : p \in UNION {ToSet(t.seq) : t \in ToSet(traces)}})
capForModel(traces, cap) == Max({10000 * cap, 10500 * maxCtx(traces)})
yMaxOf(traces, cap) ==
  LET c == capForModel(traces, cap)
  IN  Min({(105 * c) \div 100, Max({11000 * maxCtx(traces), c \div 10})})
SubPanel(traces, cap) ==
  LET stats == perTurnStats(traces)
      drawn == {turn \in DOMAIN stats : stats[turn] # NoStats}
      yMax  == yMaxOf(traces, cap)
      cut(v) == IF 10000 * v <= yMax THEN v ELSE yMax \div 10000
  IN  [active |-> [turn \in DOMAIN stats |-> stats[turn].count],
       ribbon |-> [turn \in drawn |-> <<cut(stats[turn].p25), cut(stats[turn].p75)>>],
       median |-> [turn \in drawn |-> cut(stats[turn].median)],
       traces |-> Apply(traces, LAMBDA t : Apply(t.seq, LAMBDA p : [p EXCEPT !.ctx = cut(@)]))]
SubPanelTip(traces, turn) ==
  IF turn > Max({1, maxT(traces)}) THEN NoStats
  ELSE IF turn \in DOMAIN perTurnStats(traces) THEN perTurnStats(traces)[turn] ELSE NoStats

(* The comparison of the checked models goes on to the longest trace.      *)
ComparisonRow(traces, over) ==
  Apply(cmpModels(traces, over), LAMBDA m :
    [model |-> m, files |-> Len(byModel(traces, m)), stats |-> perTurnStats(byModel(traces, m))])
ComparisonTip(traces, over, turn) ==
  Apply(ComparisonRow(traces, over), LAMBDA s :
    [model |-> s.model, files |-> s.files,
     active |-> IF turn \in DOMAIN s.stats THEN s.stats[turn].count ELSE 0])

(***************************************************************************)
(* What is drawn over the turns                                            *)
(***************************************************************************)
(* A file's turns are its contexts, one after the other.  Those of a       *)
(* session are numbered from 0, each once, in order; so are its events,    *)
(* which stand among those of other sessions by their times.               *)
Turned(turns) ==
  /\ turns \in Seq(ToSet(turns))
  /\ \A i \in DOMAIN turns : turns[i].t = i - 1 /\ turns[i].ctx \in Nat
Numbered(events) ==
  /\ events \in Seq(ToSet(events))
  /\ \A i \in DOMAIN events : /\ events[i].turn \in Nat /\ events[i].ctx \in Nat
                              /\ \A turn \in 0 .. events[i].turn - 1 : \E j \in DOMAIN events :
                                   events[j].session = events[i].session /\ events[j].turn = turn
  /\ \A i, j \in DOMAIN events :
       events[i].session = events[j].session /\ events[i].turn = events[j].turn => i = j
ContextRows(b) ==
  /\ b.traces \in Seq(ToSet(b.traces)) /\ \A t \in ToSet(b.traces) : t.turns \in Seq(Nat)
  /\ b.sessions \in Seq(ToSet(b.sessions))
  /\ \A s \in ToSet(b.sessions) : Turned(s.turns) /\ s.used \in Seq(ToSet(s.used))
  /\ Numbered(b.events)
=============================================================================
