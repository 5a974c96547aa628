------------------------------ MODULE ToolPanels ------------------------------
(***************************************************************************)
(* The panels that count tool calls and activity: ToolUsagePanel,          *)
(* ToolErrorRatePanel and ActivityHeatmapPanel.                            *)
(*                                                                         *)
(* A row of the first two counts the calls of one tool in one bucket; a    *)
(* share is kept as a numerator (weight) over a denominator (whole), so    *)
(* that nothing is rounded.  Colours and pixels are left out: the cursor   *)
(* is at a time and at a height of f / Heights of the plot.                *)
(***************************************************************************)
EXTENDS ChartData

CONSTANTS
  UsageTopN,   \* TOP_N of ToolUsagePanel
  ErrorTopN,   \* TOP_N of ToolErrorSubPanel
  ErrorOn,     \* how many of those are checked by default
  Heights      \* heights of the cursor

ASSUME ToolPanelAssumption ==
  /\ UsageTopN \in Nat \ {0} /\ ErrorTopN \in Nat \ {0}
  /\ ErrorOn \in 1 .. ErrorTopN /\ Heights \in Nat \ {0}

OtherTools == "__OTHER__"
AGGREGATE == "__AGG__"

(* Rows count calls, and no tool has the name of a checkbox.  A row of the *)
(* error rates has calls whose outcome is known.                           *)
ToolRows(rows) ==
  \A r \in ToSet(rows) : r.ts \in Int /\ r.n \in Nat /\ r.tool \notin {OtherTools, AGGREGATE}
ErrorRows(rows) == \A r \in ToSet(rows) : r.n > 0 /\ r.error \in 0 .. r.n

(***************************************************************************)
(* Tool Usage Ratio                                                        *)
(***************************************************************************)
Buckets(rows) == Ascending({r.ts : r \in ToSet(rows)})
ToolsOf(rows) == Distinct(Apply(rows, LAMBDA r : r.tool))
In(rows, ts)  == Where(rows, LAMBDA r : r.ts = ts)

perBucket(rows, ts, tool) ==
  SumWhere(rows, LAMBDA r : r.ts = ts /\ r.tool = tool, LAMBDA r : r.n)
totalsByTool(rows, tool) ==
  SumWhere(rows, LAMBDA r : r.tool = tool, LAMBDA r : r.n)

(* A tool gets a band of its own when it was in the top N of any bucket.   *)
promoted(rows) ==
  UNION {ToSet(First(SortedBy(ToolsOf(In(rows, ts)), LAMBDA t : -perBucket(rows, ts, t)),
                     UsageTopN)) : ts \in ToSet(Buckets(rows))}
MostCalled(rows, tools) == SortedBy(tools, LAMBDA t : -totalsByTool(rows, t))
promotedList(rows) ==
  MostCalled(rows, Where(ToolsOf(rows), LAMBDA t : t \in promoted(rows)))
otherToolsAll(rows) == MostCalled(rows, ToolsOf(rows))                \* mutant
otherTools(rows) ==
  MostCalled(rows, Where(ToolsOf(rows), LAMBDA t : t \notin promoted(rows)))

usageSel(rows, over) == Checked(promoted(rows) \cup {OtherTools}, over)

(* Every checked tool is a band, also one that is not promoted any more.   *)
bands(rows, over) ==
  LET sel  == usageSel(rows, over)
      kept == Where(promotedList(rows), LAMBDA t : t \in sel)
  IN  MostCalled(rows, kept \o SetToSeq(sel \ (ToSet(kept) \cup {OtherTools})))
showOther(rows, over) == otherTools(rows) # <<>> /\ OtherTools \in usageSel(rows, over)
layers(rows, over) == bands(rows, over) \o (IF showOther(rows, over) THEN <<OtherTools>> ELSE <<>>)

Members(rows, layer) == IF layer = OtherTools THEN ToSet(otherTools(rows)) ELSE {layer}
Calls(rows, ts, layer) ==
  SumEach(Members(rows, layer), LAMBDA t : perBucket(rows, ts, t))

(* The columns of the stack.  Shares are of what is checked, so that the   *)
(* layers fill the height; at both ends half a bucket is extrapolated from *)
(* the two nearest columns and normalised again.  Times are doubled.       *)
Column(ts, weight) ==
  [ts |-> ts, weight |-> weight, whole |-> SumOver(weight, LAMBDA w : w)]
RealColumn(rows, stack, ts) == Column(2 * ts, Apply(stack, LAMBDA l : Calls(rows, ts, l)))
EdgeColumn(near, next, ts) ==
  LET part(c) == Max({1, c.whole})
  IN  Column(ts, Computed([i \in DOMAIN near.weight |->
                    Max({0, 3 * near.weight[i] * part(next) - next.weight[i] * part(near)})]))
Grid(rows, stack, bucketMs) ==
  LET real == Apply(Buckets(rows), LAMBDA ts : RealColumn(rows, stack, ts))
      n    == Len(real)
  IN  IF n < 2 \/ bucketMs = 0 THEN real
      ELSE <<EdgeColumn(real[1], real[2], real[1].ts - bucketMs)>> \o real
           \o <<EdgeColumn(real[n], real[n - 1], real[n].ts + bucketMs)>>

(* The area of layer k in a column, in parts of the whole; the paths skip  *)
(* columns without any.                                                    *)
Bottom(column, k) == SumOver(SubSeq(column.weight, 1, k - 1), LAMBDA w : w)
Top(column, k)    == Bottom(column, k) + column.weight[k]
liveIdx(grid)     == {i \in DOMAIN grid : grid[i].whole > 0}

(* The tooltip counts again, from the bucket the nearest column stands     *)
(* for.  An edge column stands for none: its handler throws.               *)
Throws == [layer |-> "throws", calls |-> 0, of |-> 1]
NoTip  == [layer |-> "none", calls |-> 0, of |-> 1]
UsageTip(rows, stack, grid, x, f) ==
  LET column == grid[Nearest(DOMAIN grid, LAMBDA i : Abs(grid[i].ts - x))]
      hit    == {k \in DOMAIN stack : /\ Bottom(column, k) * Heights <= f * column.whole
                                      /\ f * column.whole < Top(column, k) * Heights}
      ts     == column.ts \div 2
      shown  == SumOver(stack, LAMBDA l : Calls(rows, ts, l))
      layer  == stack[CHOOSE k \in hit : TRUE]
  IN  IF grid = <<>> \/ hit = {} THEN NoTip
      ELSE IF \A b \in ToSet(Buckets(rows)) : 2 * b # column.ts THEN Throws
      ELSE [layer |-> layer, calls |-> Calls(rows, ts, layer), of |-> Max({1, shown})]

(* The checkboxes on display, and the buttons beside them.                 *)
UsageBoxes(rows) ==
  promoted(rows) \cup (IF otherTools(rows) # <<>> THEN {OtherTools} ELSE {})
setAll(rows, over, on) ==
  [k \in DOMAIN over |-> IF k \in promoted(rows) \cup {OtherTools} THEN on ELSE "default"]

(***************************************************************************)
(* Tool Error Rate: one sub-panel for each model                           *)
(***************************************************************************)
OfModel(rows, m) == Where(rows, LAMBDA r : r.model = m)
errorModels(rows) ==
  SortedBy(Distinct(Apply(Real(rows), LAMBDA r : r.model)),
           LAMBDA m : -SumOver(OfModel(rows, m), LAMBDA r : r.n))

(* The rows of one model from here on.                                     *)
sortedTools(rows)  == MostCalled(rows, ToolsOf(rows))
visibleTools(rows) == First(sortedTools(rows), ErrorTopN)
restTools(rows)    == SubSeq(sortedTools(rows), ErrorTopN + 1, Len(sortedTools(rows)))
ErrorBoxes(rows) ==
  {AGGREGATE} \cup ToSet(visibleTools(rows)) \cup (IF restTools(rows) # <<>> THEN {OtherTools} ELSE {})
errorSel(rows, over) ==
  Checked({AGGREGATE} \cup ToSet(First(visibleTools(rows), ErrorOn))
            \cup (IF restTools(rows) # <<>> THEN {OtherTools} ELSE {}), over)

(* The tools a key stands for, and its tally in one bucket.                *)
ErrorMembers(rows, key) ==
  CASE key = AGGREGATE -> ToSet(ToolsOf(rows))
    [] key = OtherTools     -> ToSet(restTools(rows))
    [] key \notin {AGGREGATE, OtherTools} -> {key}
TallyAt(rows, ts, key) ==
  LET counted == {i \in DOMAIN rows : rows[i].ts = ts /\ rows[i].tool \in ErrorMembers(rows, key)}
  IN  [total |-> SumEach(counted, LAMBDA i : rows[i].n),
       error |-> SumEach(counted, LAMBDA i : rows[i].error)]

(* The points of a line: the buckets in which its tools were called.       *)
ErrorSeries(rows, key) ==
  LET lines == ToSet(visibleTools(rows)) \cup {AGGREGATE, OtherTools}
  IN  IF key \notin lines THEN <<>>
      ELSE Where(Apply(Buckets(rows), LAMBDA ts : [ts |-> ts, at |-> TallyAt(rows, ts, key)]),
                 LAMBDA p : p.at.total > 0)

(* The moving average with ALPHA = 3/20 after each point, as a fraction.   *)
Ema(points) ==
  LET ema[i \in DOMAIN points] ==
        LET p == points[i].at
        IN  IF i = 1 THEN [num |-> p.error, den |-> p.total]
            ELSE [num |-> 3 * p.error * ema[i - 1].den + 17 * ema[i - 1].num * p.total,
                  den |-> 20 * p.total * ema[i - 1].den]
  IN  [i \in DOMAIN points |-> ema[i]]

(* The lines of the tooltip over the bucket nearest to the cursor: every   *)
(* checked key, whether or not it still has a line of its own.             *)
ErrorTip(rows, over, bucketMs, x) ==
  LET ts == Buckets(rows)[Nearest(DOMAIN Buckets(rows),
              LAMBDA i : Abs(2 * Buckets(rows)[i] + bucketMs - x))]
      said(k) == IF k = OtherTools THEN TallyAt(rows, ts, k).total > 0
                 ELSE k = AGGREGATE \/ k \in ToSet(ToolsOf(In(rows, ts)))
  IN  [ts |-> ts, lines |-> {k \in errorSel(rows, over) \cup {AGGREGATE} : said(k)}]

(***************************************************************************)
(* Activity Heatmap: weekday (1 .. 7) by hour (0 .. 23)                    *)
(***************************************************************************)
Metric == {"requests", "output_tokens", "cost_usd"}
(* The server groups by weekday and hour: a cell has at most one row.      *)
CellRows(rows) ==
  /\ \A i \in DOMAIN rows :
       rows[i].dow \in 1 .. 7 /\ rows[i].hour \in 0 .. 23 /\ rows[i].value \in [Metric -> Nat]
  /\ \A i, j \in DOMAIN rows :
       rows[i].dow = rows[j].dow /\ rows[i].hour = rows[j].hour => i = j

CellsOf(rows, dows, hours) == {i \in DOMAIN rows : rows[i].dow \in dows /\ rows[i].hour \in hours}

(* byCell keeps the last row of a cell, the margins add every row.         *)
byCell(rows, dow, hour) ==
  LET of == CellsOf(rows, {dow}, {hour})
  IN  [k \in Metric |-> IF of = {} THEN 0 ELSE rows[Max(of)].value[k]]
Margin(rows, dows, hours, k) ==
  SumEach(CellsOf(rows, dows, hours), LAMBDA i : rows[i].value[k])
rowTotals(rows, dow, k)  == Margin(rows, {dow}, 0 .. 23, k)
colTotalsShort(rows, hour, k) == Margin(rows, 1 .. 6, {hour}, k)      \* mutant
colTotals(rows, hour, k) == Margin(rows, 1 .. 7, {hour}, k)
grand(rows, k)           == Margin(rows, 1 .. 7, 0 .. 23, k)
maxVal(rows, k) == Max({0} \cup {c.value[k] : c \in ToSet(rows)})

(* The square of a cell's opacity, in parts of the scale's maximum; 0.08   *)
(* is the least opacity of a cell with anything in it.                     *)
fillFor(v, scaleMax) ==
  IF v = 0 \/ scaleMax <= 0 THEN [shade |-> "dark", v |-> 0, of |-> 1]
  ELSE [shade |-> IF 10000 * v < 64 * scaleMax THEN "least" ELSE "ramp",
        v |-> v, of |-> scaleMax]

(* What is drawn: the grid and both margins, each on a scale of its own.   *)
CellFill(rows, dow, hour, k) == fillFor(byCell(rows, dow, hour)[k], maxVal(rows, k))
RowFill(rows, dow, k) ==
  fillFor(rowTotals(rows, dow, k), Max({rowTotals(rows, d, k) : d \in 1 .. 7}))
ColFill(rows, hour, k) ==
  fillFor(colTotals(rows, hour, k), Max({colTotals(rows, h, k) : h \in 0 .. 23}))

(* The tooltips of a cell and of the margins.                              *)
onCellEnter(rows, dow, hour) ==
  IF CellsOf(rows, {dow}, {hour}) = {} THEN <<>>
  ELSE [k \in Metric |-> byCell(rows, dow, hour)[k]]
Share(v, whole) == IF whole > 0 THEN [num |-> v, den |-> whole] ELSE [num |-> 0, den |-> 1]
onSumColEnter(rows, dow, k) ==
  [total |-> rowTotals(rows, dow, k), share |-> Share(rowTotals(rows, dow, k), grand(rows, k))]
onSumRowEnter(rows, hour, k) ==
  [total |-> colTotals(rows, hour, k), share |-> Share(colTotals(rows, hour, k), grand(rows, k))]
=============================================================================
