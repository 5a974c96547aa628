-------------------------------- MODULE Charts --------------------------------
(***************************************************************************)
(* What the dashboard computes from the answer of /api/dashboard: the      *)
(* summary, the time series, the bars and the burn rate of the sessions.   *)
(*                                                                         *)
(* A row is an event: its time (the middle of a server bucket), its model, *)
(* its tokens by kind, its cost and its requests.  Pixels are left out:    *)
(* the cursor is at a time.                                                *)
(***************************************************************************)
EXTENDS ChartData

CONSTANTS
  NiceBins,    \* widths of a bin, ascending, each a multiple of the one before
  MinBins,     \* MIN_BINS of dashboardBinMs
  SessionGap,  \* more idle time than this starts a session (30 minutes)
  WindowGap,   \* more than this, a usage window, too (5 hours)
  FilePad,     \* the least margin around the events of files (a minute)
  LeastTime,   \* the least duration a rate is computed with (a minute)
  Rate         \* price of a token, by model and kind

ASSUME ChartsAssumption ==
  /\ NiceBins \in Seq(Nat) /\ Len(NiceBins) > 0 /\ NiceBins[1] > 0
  /\ \A i \in 1 .. Len(NiceBins) - 1 :
       NiceBins[i] < NiceBins[i + 1] /\ NiceBins[i + 1] % NiceBins[i] = 0
  /\ MinBins \in Nat \ {0} /\ LeastTime \in Nat \ {0} /\ FilePad \in Nat \ {0}
  /\ SessionGap \in Nat /\ WindowGap \in Nat /\ SessionGap <= WindowGap

Token == {"input", "output", "read"}

(***************************************************************************)
(* The time series                                                         *)
(***************************************************************************)
(* Half a bucket on both sides of the events, which stand in the middle of *)
(* theirs; bucket 0 is a body without one.                                 *)
backendAggregateRange(events, bucket) ==
  LET first == events[1].ts
      last  == events[Len(events)].ts
  IN  IF bucket > 0 THEN [start |-> first - bucket \div 2, end |-> last + bucket \div 2]
      ELSE [start |-> first, end |-> last + 1]
(* A margin of a fiftieth around the events of dropped files.              *)
fileRange(events) ==
  LET first == events[1].ts
      last  == events[Len(events)].ts
      pad   == Max({FilePad, (last - first) \div 50})
  IN  [start |-> first - pad, end |-> last + pad]
rangeOf(body) ==
  IF body.bucket > 0 THEN backendAggregateRange(body.events, body.bucket) ELSE fileRange(body.events)

(* The widest bin that still gives MinBins, but never below the server's.  *)
dashboardBinOwn(range, bucket) ==                                     \* mutant
  Max({NiceBins[1]} \cup {b \in ToSet(NiceBins) : range.end - range.start >= MinBins * b})
dashboardBinMs(range, bucket) ==
  Max({NiceBins[1], bucket}
        \cup {b \in ToSet(NiceBins) : range.end - range.start >= MinBins * b})

boundedTimeIntervals(range, bin) ==
  LET n == (range.end - range.start + bin - 1) \div bin
  IN  [k \in 1 .. n |-> [start |-> range.start + (k - 1) * bin,
                         end   |-> Min({range.start + k * bin, range.end})]]

(* Both loops run a pointer through the events and stop it at the first    *)
(* one that is not before the end of the bin.                              *)
buildTimeSeriesData(events, range, bin, valueOf(_)) ==
  LET bins == boundedTimeIntervals(range, bin)
      upTo == [k \in 0 .. Len(bins) |->
                IF k = 0 THEN 0
                ELSE Max({j \in 0 .. Len(events) : \A i \in 1 .. j : events[i].ts < bins[k].end})]
      sum(from, to) == SumOver(SubSeq(events, from + 1, to), valueOf)
  IN  [bins  |-> [k \in DOMAIN bins |->
                   [start |-> bins[k].start, end |-> bins[k].end,
                    sum |-> sum(upTo[k - 1], upTo[k]), count |-> upTo[k] - upTo[k - 1]]],
       cum   |-> [k \in 0 .. Len(bins) |-> sum(0, upTo[k])],
       total |-> sum(0, upTo[Len(bins)])]

(* The last bin is closed at its end.                                      *)
timeBinIndexAtX(bins, ts) ==
  {k \in DOMAIN bins : /\ bins[k].start <= ts
                       /\ ts < bins[k].end \/ (k = Len(bins) /\ ts = bins[k].end)}
SeriesTip(data, ts) ==
  LET k == CHOOSE k \in timeBinIndexAtX(data.bins, ts) : TRUE
  IN  [period |-> data.bins[k].sum, cumulative |-> data.cum[k], requests |-> data.bins[k].count]

(* A panel: bars on a scale of the highest one, the line on its own.       *)
TimeSeries(events, range, bin, valueOf(_)) ==
  LET data == buildTimeSeriesData(events, range, bin, valueOf)
  IN  [data |-> data,
       maxBin |-> Max({1} \cup {data.bins[k].sum : k \in DOMAIN data.bins}),
       maxCum |-> Max({1, data.total})]

(***************************************************************************)
(* The summary and the bars                                                *)
(***************************************************************************)
totals(events) ==
  LET sum(k) == SumOver(events, LAMBDA e : e.tokens[k])
  IN  [tokens |-> [k \in Token |-> sum(k)],
       total  |-> sum("input") + sum("output") + sum("read"),
       cost   |-> SumOver(events, LAMBDA e : e.cost)]
churnTotals(churn) ==
  [added |-> SumOver(churn, LAMBDA c : c.added), deleted |-> SumOver(churn, LAMBDA c : c.deleted)]

(* The server's costs under the short names of the models (several of them *)
(* may have the same), or else the events'; models that cost nothing go.   *)
costByModel(body) ==
  LET rows  == IF body.costs # <<>> THEN body.costs ELSE body.events
      of(m) == SumWhere(rows, LAMBDA r : r.model = m, LAMBDA r : r.cost)
      all   == Apply(Distinct(Apply(rows, LAMBDA r : r.model)),
                     LAMBDA m : [label |-> m, value |-> of(m)])
  IN  SortedBy(Where(all, LAMBDA r : r.value > 0), LAMBDA r : -r.value)
(* A chart of its own while all projects are selected.                     *)
costByProject(body, project, nameOf) ==
  IF project # 0 THEN <<>>
  ELSE Apply(body.byProject, LAMBDA r : [label |-> nameOf[r.project], value |-> r.cost])

(* The token breakdown, of all events or of one model's.                   *)
breakdownModels(events) ==
  LET of(m) == SumWhere(events, LAMBDA e : e.model = m, LAMBDA e : e.cost)
  IN  SortedBy(Distinct(Apply(Real(events), LAMBDA e : e.model)), LAMBDA m : -of(m))
computeTokenBreakdown(events) ==
  LET row(k) == [label |-> k, value |-> totals(events).tokens[k],
                 cost  |-> SumOver(events, LAMBDA e : e.tokens[k] * Rate[e.model][k])]
      rows   == Where(Apply(<<"input", "output", "read">>, row), LAMBDA r : r.value > 0)
  IN  [byTokens |-> SortedBy(rows, LAMBDA r : -r.value), byCost |-> SortedBy(rows, LAMBDA r : -r.cost),
       tokenTotal |-> Max({1, SumOver(rows, LAMBDA r : r.value)}),
       costTotal  |-> Max({1, SumOver(rows, LAMBDA r : r.cost)})]
TokenBreakdown(events, activeModel) ==
  computeTokenBreakdown(IF activeModel = "" THEN events
                        ELSE Where(events, LAMBDA e : e.model = activeModel))

(* What both bar charts say of a row under the pointer.                    *)
BarTip(rows, i) ==
  [label |-> rows[i].label, value |-> rows[i].value, of |-> SumOver(rows, LAMBDA r : r.value)]

(* The label of a column: each line is the longest piece of at most        *)
(* maxChars that ends in a separator, or maxChars if there is none.        *)
Separators == {"/", "-", "_"}
wrapAxisLabel(label, maxChars) ==
  LET n == Max({1, maxChars})
      cut(s) == LET breaks == {i \in 1 .. n : s[i] \in Separators}
                IN  IF breaks = {} THEN n ELSE Max(breaks)
      lines[s \in {SubSeq(label, i, Len(label)) : i \in 1 .. Len(label) + 1}] ==
        IF Len(s) <= n THEN <<s>>
        ELSE <<SubSeq(s, 1, cut(s))>> \o lines[SubSeq(s, cut(s) + 1, Len(s))]
  IN  lines[label]

(***************************************************************************)
(* Sessions and the burn rate                                              *)
(***************************************************************************)
(* Events of dropped files: a gap ends a session, a longer one a window.   *)
computeSessions(events) ==
  LET sorted == SortedBy(events, LAMBDA e : e.ts)
      gap(i) == sorted[i].ts - sorted[i - 1].ts
      starts == Ascending({i \in DOMAIN sorted : i = 1 \/ gap(i) > SessionGap})
      end(k) == IF k = Len(starts) THEN Len(sorted) ELSE starts[k + 1] - 1
  IN  [sessions |-> [k \in DOMAIN starts |->
                      [start |-> sorted[starts[k]].ts, end |-> sorted[end(k)].ts,
                       events |-> SubSeq(sorted, starts[k], end(k))]],
       boundaries |-> {sorted[i].ts + sorted[i - 1].ts : i \in {j \in 2 .. Len(sorted) : gap(j) > WindowGap}}]

(* The sessions of the server, each with one event, come first.            *)
sessionsOf(body) ==
  IF body.sessions # <<>> THEN body.sessions ELSE computeSessions(body.events).sessions

Mid(s) == s.start + s.end                                            \* doubled
(* The envelope of what is drawn; one point alone has none.  Doubled.      *)
burnRange(sessions, limits, range) ==
  LET points == {Mid(s) : s \in ToSet(sessions)} \cup {2 * t : t \in limits}
  IN  IF Cardinality(points) < 2 THEN [start |-> 2 * range.start, end |-> 2 * range.end]
      ELSE [start |-> Min(points), end |-> Max(points)]

(* The server sends sessions by cost.                                      *)
sortedSessionsNot(sessions) == sessions                               \* mutant
sortedSessions(sessions) == SortedBy(sessions, Mid)
Primary(events) ==
  SortedBy(Distinct(Apply(events, LAMBDA e : e.model)),
           LAMBDA m : -Len(Where(events, LAMBDA e : e.model = m)))[1]
sessionData(sessions) ==
  LET sorted == sortedSessions(sessions)
  IN  [i \in DOMAIN sorted |->
        [idx |-> i, mid |-> Mid(sorted[i]), dur |-> Max({LeastTime, sorted[i].end - sorted[i].start}),
         primary |-> Primary(sorted[i].events), sums |-> totals(sorted[i].events)]]

(* The moving average with alpha = 3/20 of a rate, tokens over time.       *)
ema(data, k) ==
  LET out[i \in DOMAIN data] ==
        LET v == [num |-> data[i].sums.tokens[k], den |-> data[i].dur]
        IN  IF i = 1 THEN v
            ELSE [num |-> 3 * v.num * out[i - 1].den + 17 * out[i - 1].num * v.den,
                  den |-> 20 * v.den * out[i - 1].den]
  IN  out

(* Points between two sessions, as far as steps of 1 / steps; the tooltip  *)
(* of one speaks of the session that is nearer.                            *)
densify(data, steps) ==
  {p \in (DOMAIN data) \X (0 .. steps - 1) : p[1] < Len(data) \/ p[2] = 0}
srcIdx(point, steps) == IF 2 * point[2] < steps THEN point[1] ELSE point[1] + 1

(* The tooltip: a rate limit hit within 5 pixels, else a line that is both *)
(* near and clearly nearer than the nearest dot, else that dot.            *)
BurnTip(limitNear, line, dot, data, steps) ==
  CASE limitNear -> [of |-> "limit"]
    [] ~limitNear /\ line.d < 14 /\ line.d < dot.d - 4 ->
         [of |-> "line", session |-> data[srcIdx(line.at, steps)].idx]
    [] ~limitNear /\ ~(line.d < 14 /\ line.d < dot.d - 4) ->
         IF dot.d < 30 THEN [of |-> "dot", session |-> dot.at] ELSE [of |-> "none"]

(***************************************************************************)
(* What is charted                                                         *)
(***************************************************************************)
(* An answer comes in the order of its times, so do the events of dropped  *)
(* files and the edits; the sessions are in any order, and the limits are  *)
(* times.  A bucket of the server is as wide as a bin, a whole number of   *)
(* seconds in milliseconds, and its events stand in its middle.            *)
EventRows(events) ==
  /\ events \in Seq(ToSet(events))
  /\ \A e \in ToSet(events) : e.ts \in Int /\ e.cost \in Nat /\ \A k \in Token : e.tokens[k] \in Nat
EditRows(churn) ==
  /\ churn \in Seq(ToSet(churn))
  /\ \A c \in ToSet(churn) : c.ts \in Int /\ c.added \in Nat /\ c.deleted \in Nat
CostRows(rows) == rows \in Seq(ToSet(rows)) /\ \A r \in ToSet(rows) : r.cost \in Nat
ByTime(rows) == \A i, j \in DOMAIN rows : i < j => rows[i].ts <= rows[j].ts
ChartBody(b) ==
  /\ EventRows(b.events) /\ ByTime(b.events)
  /\ \A e \in ToSet(b.events) : \A k \in Token : Rate[e.model][k] \in Nat
  /\ EditRows(b.churn) /\ ByTime(b.churn)
  /\ CostRows(b.costs) /\ CostRows(b.byProject)
  /\ b.sessions \in Seq(ToSet(b.sessions))
  /\ \A s \in ToSet(b.sessions) : s.start \in Int /\ s.end \in Int /\ EventRows(s.events)
  /\ IsFiniteSet(b.limits) /\ b.limits \subseteq Int
  /\ b.bucket \in Nat /\ b.bucket % 2 = 0
  /\ b.bucket > 0 => /\ b.bucket \in ToSet(NiceBins)
                     /\ \A e \in ToSet(b.events) : (e.ts - b.bucket \div 2) % b.bucket = 0
===============================================================================
