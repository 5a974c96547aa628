-------------------------------- MODULE Panels --------------------------------
(***************************************************************************)
(* A panel of the page at work: it fetches (Fetching), computes what it    *)
(* shows from the body on display (ToolPanels, SeriesPanels, Charts), and  *)
(* keeps what the user has checked and picked while bodies come and go.    *)
(***************************************************************************)
EXTENDS Fetching, ToolPanels, SeriesPanels, Inspector

CONSTANTS
  Boxes,          \* the checkboxes that are clicked, by kind of panel
  Picks,          \* what can be picked in each kind, besides a model to fetch
  DefaultBucket,  \* width of a bucket before the first answer
  Times,          \* times of the cursor (doubled)
  Levels,         \* exponents of the cursor (doubled)
  Floor,          \* where the logarithmic axes end
  Cap,            \* context window of every model
  Models,         \* the answer of /api/models under short names
  Files,          \* what dropped files give the panels without a server, by kind
  ProjectName     \* names of the projects, as sequences of characters

(* Every body has a list of rows.  The rows of the heatmap are grouped by  *)
(* weekday and hour, and nothing in them is negative.  A page of the       *)
(* picker is a number, which a jump to a project that has gone makes       *)
(* negative.  Calls and errors are counted.  A file without an event of    *)
(* use gives no charts, and the name of a project is made of characters.   *)
ASSUME PanelsAssumption ==
  /\ DefaultBucket \in Nat
  /\ \A k \in Kind : \A b \in Answers[k] \cup {Empty} :
       b.bucket \in Nat /\ b.rows \in Seq(ToSet(b.rows))
  /\ \A k \in Kind : IsFiniteSet(Boxes[k])
  /\ "heat" \in Kind =>
       /\ Picks["heat"] \subseteq Metric
       /\ \A b \in Answers["heat"] \cup {Empty} : CellRows(b.rows)
  /\ "projects" \in Kind => Picks["projects"] \subseteq Int
  /\ \A k \in Kind \cap {"usage", "errors"} : \A b \in Answers[k] \cup {Empty} : ToolRows(b.rows)
  /\ "usage" \in Kind => \A b \in Answers["usage"] \cup {Empty} :
       {r.tool : r \in ToSet(b.rows)} \cup {OtherTools} \subseteq Boxes["usage"]
  /\ "errors" \in Kind => \A b \in Answers["errors"] \cup {Empty} : ErrorRows(b.rows)
  /\ \A k \in Kind \cap {"latency", "responses"} : \A b \in Answers[k] \cup {Empty} :
       PercentileRows(b.rows) /\ b.outliers \in Seq(ToSet(b.outliers))
  /\ "charts" \in Kind =>
       /\ \A b \in Answers["charts"] \cup {Empty} \cup Files["charts"] : ChartBody(b)
       /\ \A b \in Files["charts"] : b.events # <<>>
       /\ \A b \in Answers["charts"] \cup {Empty} \cup Files["charts"] : \A r \in ToSet(b.byProject) :
            ProjectName[r.project] \in Seq(ToSet(ProjectName[r.project]))
  /\ "context" \in Kind =>
       \A b \in Answers["context"] \cup {Empty} \cup Files["context"] : ContextRows(b)
  /\ "session" \in Kind =>
       /\ \A files \in Files["session"] : files \in Seq(ParsedFile) /\ files # <<>>
       /\ \A b \in Answers["session"] \cup {Empty} :
            b.rows \in Seq(ParsedEvent) /\ b.meta \in Seq(ParsedMeta) /\ Batched(b.rows)
       /\ \A m \in W!Label : \A k \in Bucket : Rate[m][k] \in Nat
  /\ Cap \in Nat /\ Floor \in Int /\ Times \subseteq Int /\ Levels \subseteq Int

VARIABLES
  over,      \* the user's clicks on checkboxes, laid over the defaults
  bucketMs,  \* width of a bucket, from the last answer that had one
  picked     \* the metric of the heatmap, the model of the token breakdown,
             \* the page of the project picker, the row of the timeline

pvars == <<vars, over, bucketMs, picked>>

body == shown.body
OverFresh == [b \in Boxes[kind] |-> "default"]
PickFresh ==
  CASE kind = "heat"     -> "cost_usd"
    [] kind = "projects" -> 0
    [] kind = "session"  -> 1
    [] OTHER             -> ""
Reset == over' = OverFresh /\ bucketMs' = DefaultBucket /\ picked' = PickFresh

TypeOKPanels ==
  /\ TypeOK
  /\ over \in [Boxes[kind] -> {"default", "on", "off"}]
  /\ bucketMs \in Nat /\ picked \in Picks[kind] \cup {PickFresh}

(***************************************************************************)
(* An answer lands                                                         *)
(***************************************************************************)
(* The panels of the dashboard's own answer are on the page only with      *)
(* events (dashData is null without), the response sizes with rows, too.   *)
OnPage(b) ==
  CASE kind = "responses" -> b.events # <<>> /\ b.rows # <<>>
    [] kind \in {"context", "charts"} -> b.events # <<>>
    [] OTHER -> TRUE

(* A model's sub-panel keeps its checkboxes while it stays in the same row *)
(* of two: React keeps a keyed child only under the same parent.           *)
SubPanelRow(b, m) ==
  LET at == {i \in DOMAIN errorModels(b.rows) : errorModels(b.rows)[i] = m}
  IN  IF at = {} THEN 0 ELSE (Max(at) + 1) \div 2
OverAfter(b) ==
  CASE kind = "errors" ->
         [k \in Boxes[kind] |->
            IF SubPanelRow(b, k[1]) = SubPanelRow(body, k[1]) THEN over[k] ELSE "default"]
    [] kind # "errors" -> IF OnPage(b) THEN over ELSE OverFresh
Digest(b) ==
  /\ over' = OverAfter(b)
  /\ bucketMs' = IF b.bucket > 0 THEN b.bucket ELSE bucketMs
  /\ picked' = IF OnPage(b) THEN picked ELSE PickFresh

(***************************************************************************)
(* Checkboxes and picks                                                    *)
(***************************************************************************)
series == IF kind = "responses" THEN responseSeries(body.rows, body.bucket)
          ELSE latencySeries(body.rows, bucketMs)
OverOf(m) == [b \in {k[2] : k \in {k \in Boxes[kind] : k[1] = m}} |-> over[<<m, b>>]]
SubPanels == ToSet(errorModels(body.rows))

BoxesShown ==
  CASE kind = "usage"   -> UsageBoxes(body.rows)
    [] kind = "errors"  -> UNION {{m} \X ErrorBoxes(OfModel(body.rows, m)) : m \in SubPanels}
    [] kind = "context" -> ToSet(ctxModels(TracesOf(body)))
    [] kind = "session" /\ shown # Nothing -> Chip
    [] kind \in {"latency", "responses"} -> {s.key : s \in ToSet(series)}
    [] OTHER -> {}
BoxesChecked ==
  CASE kind = "usage"   -> usageSel(body.rows, over)
    [] kind = "errors"  -> UNION {{m} \X errorSel(OfModel(body.rows, m), OverOf(m)) : m \in SubPanels}
    [] kind = "context" -> ctxSel(TracesOf(body), over)
    [] kind = "session" -> Checked(Chip, over)
    [] OTHER            -> seriesSel(series, over)

Toggle(b) ==
  /\ mounted /\ OnPage(body) /\ b \in BoxesShown
  /\ over' = [over EXCEPT ![b] = IF b \in BoxesChecked THEN "off" ELSE "on"]
  /\ UNCHANGED <<vars, bucketMs, picked>>
(* The buttons "all" and "none".                                           *)
ToggleAll(on) ==
  /\ mounted /\ kind = "usage"
  /\ over' = setAll(body.rows, over, on)
  /\ UNCHANGED <<vars, bucketMs, picked>>
Pick(p) ==
  /\ mounted /\ OnPage(body)
  /\ CASE kind = "charts"   -> p \in {""} \cup ToSet(breakdownModels(body.events))
       [] kind = "projects" -> p \in Turns(body.rows, picked, sel["project"])
       [] kind = "session"  -> p \in DOMAIN timeline(body.rows, BoxesChecked)
       [] OTHER             -> TRUE
  /\ picked' = p
  /\ UNCHANGED <<vars, over, bucketMs>>

(* The route changes away and back: the App keeps the answer, what shows   *)
(* it starts anew.                                                         *)
Reopen == kind \in OfDashboard \cup {"session"} /\ Reset /\ UNCHANGED vars

(* A project is selected by its chip, or all of them by the first button;  *)
(* a panel's own model by its place in the list, 0 is all of them.         *)
Offers(f, v) ==
  /\ kind = "projects" /\ f = "project" => v \in {0} \cup ToSet(chips(body.rows, picked))
  /\ kind \in OwnModel /\ f = "own" => v \in 0 .. Len(modelOpts(Models))

InitPanels == Init /\ over = OverFresh /\ bucketMs = DefaultBucket /\ picked = PickFresh

Keeps == UNCHANGED <<over, bucketMs, picked>>
NextPanels ==
  \/ /\ \/ \E f \in Field \ {"nonce"} : \E v \in Options[kind][f] : Offers(f, v) /\ Choose(f, v)
        \/ \E sid \in Options[kind]["own"] : Open(sid)
        \/ IngestDone \/ Return
        \/ \E r \in requests : Lose(r)
     /\ Keeps
  \/ Leave /\ Reset
  \/ \E r \in requests : \/ \E b \in Answers[kind] : Land(r, b) /\ Digest(b)
                         \/ Refuse(r) /\ IF kind \in OfCachePage THEN Keeps ELSE Digest(Empty)
  \/ \E b \in Boxes[kind] : Toggle(b)
  \/ \E on \in {"on", "off"} : ToggleAll(on)
  \/ \E p \in Picks[kind] : Pick(p)
  \/ Reopen

SpecPanels == InitPanels /\ [][NextPanels]_pvars

(***************************************************************************)
(* Properties                                                              *)
(***************************************************************************)
(* What a panel computes from: its body, or dropped files.                 *)
Drawn == Files[kind] \cup (IF OnPage(body) THEN {body} ELSE {})

(* With everything checked, the layers of the tool usage count every call  *)
(* of a bucket once -- unless a tool was checked by hand and has since     *)
(* sunk into Other, which still counts it.  The lines of the error rates   *)
(* split the aggregate line without a rest or an overlap.                  *)
CallsCountedOnce ==
  /\ kind = "usage" =>
       LET rows == body.rows
           on   == usageSel(rows, over)
       IN  on = promoted(rows) \cup {OtherTools} => \A ts \in ToSet(Buckets(rows)) :
             SumOver(layers(rows, over), LAMBDA l : Calls(rows, ts, l))
               = SumWhere(rows, LAMBDA r : r.ts = ts, LAMBDA r : r.n)
  /\ kind = "errors" => \A m \in SubPanels :
       LET rows  == OfModel(body.rows, m)
           lines == Append(visibleTools(rows), OtherTools)
       IN  \A ts \in ToSet(Buckets(rows)) :
             LET at == [i \in DOMAIN lines |-> TallyAt(rows, ts, lines[i])]
                 all == TallyAt(rows, ts, AGGREGATE)
             IN  /\ all.total = SumOver(at, LAMBDA t : t.total)
                 /\ all.error = SumOver(at, LAMBDA t : t.error)

(* The tooltips compute their numbers anew and must say what is drawn:     *)
(* the share of a layer at a real column of the tool usage, a point of     *)
(* each error line named, a value on the drawn stretch of a latency line,  *)
(* and in a time series the running total up to the end of the bin.        *)
UsageTipRight(rows, stack, bucket) ==
  \A grid \in {Grid(rows, stack, bucket)} : \A i \in DOMAIN grid, f \in 0 .. Heights :
    LET tip == UsageTip(rows, stack, grid, grid[i].ts, f)
    IN  tip \notin {NoTip, Throws} =>
          /\ i \in liveIdx(grid) /\ tip.of = grid[i].whole
          /\ \E k \in DOMAIN stack :
               stack[k] = tip.layer /\ grid[i].weight[k] = tip.calls /\ tip.calls > 0
ErrorTipRight(rows, checked, bucket, x) ==
  LET tip == ErrorTip(rows, checked, bucket, x)
  IN  \A k \in tip.lines \cap ErrorBoxes(rows) :
        LET points == ErrorSeries(rows, k)
        IN  \E i \in DOMAIN points : /\ points[i].ts = tip.ts
                                     /\ Ema(points)[i].num <= Ema(points)[i].den
LineTipRight(lines, dots, x, y) ==
  \A tip \in {HoverLatency(lines, dots, x, y, Floor)} :
    IF tip.key \in {"none", "outlier"}
    THEN tip.key = "outlier" => tip.of \in {l.key : l \in ToSet(lines)}
    ELSE \A k \in Percentile :
           LET ends == {Max({Floor, p.at[k]}) : p \in {tip.segment.a, tip.segment.b}}
               v    == tip.at[k]
           IN  Min(ends) * v.den <= v.num /\ v.num <= Max(ends) * v.den
SeriesTipRight(b) ==
  LET range == rangeOf(b)
      cost(e) == e.cost
      data  == TimeSeries(b.events, range, dashboardBinMs(range, b.bucket), cost).data
  IN  \A ts \in range.start .. range.end :
        LET tip == SeriesTip(data, ts)
            end == data.bins[CHOOSE k \in timeBinIndexAtX(data.bins, ts) : TRUE].end
        IN  tip.cumulative = SumWhere(b.events, LAMBDA e : e.ts < end, cost)
HoverAgreesWithDrawing ==
  /\ kind = "usage" => UsageTipRight(body.rows, layers(body.rows, over), bucketMs)
  /\ kind = "errors" => \A m \in SubPanels : \A x \in Times :
       ErrorTipRight(OfModel(body.rows, m), OverOf(m), bucketMs, x)
  /\ kind \in {"latency", "responses"} =>
       \A lines \in {visible(series, over)}, dots \in {visibleOutliers(body.outliers, series, over)} :
       \A x \in Times, y \in Levels : LineTipRight(lines, dots, x, y)
  /\ kind = "charts" /\ OnPage(body) => SeriesTipRight(body)

(* Every trace is counted at turn 0, none comes back later, the quantiles  *)
(* are in order, and the comparison counts what the sub-panel counts.      *)
TurnStatsOf(traces, m) ==
  LET mine  == byModel(traces, m)
      stats == perTurnStats(mine)
      panel == SubPanel(mine, Cap)
  IN  /\ stats[0].count = Len(mine) /\ stats[0].p90 = 0
      /\ \A turn \in 1 .. maxT(mine) : panel.active[turn] <= panel.active[turn - 1]
      /\ \A turn \in DOMAIN panel.median :
           LET s == stats[turn]
               c == ComparisonTip(traces, over, turn)
           IN  /\ s.p25 <= s.median /\ s.median <= s.p75 /\ s.p75 <= s.p90
               /\ panel.median[turn] = s.median
               /\ \A i \in DOMAIN c : c[i].model = m => c[i].active = SubPanelTip(mine, turn).count
TurnStatsSound ==
  kind = "context" =>
    \A b \in Drawn : \A m \in ToSet(ctxModels(TracesOf(b))) : TurnStatsOf(TracesOf(b), m)

(* The margins of the heatmap add up what the cells show, both ways, and a *)
(* margin is dark exactly when all its cells are.                          *)
MarginsAddUp ==
  kind = "heat" =>
    LET rows == body.rows
        dows  == 1 .. 7
        hours == 0 .. 23
        cell(d, h) == byCell(rows, d, h)[picked]
    IN  /\ \A d \in dows :
             /\ rowTotals(rows, d, picked) = SumEach(hours, LAMBDA h : cell(d, h))
             /\ RowFill(rows, d, picked).shade = "dark"
                  <=> \A h \in hours : CellFill(rows, d, h, picked).shade = "dark"
             /\ \A h \in hours : onCellEnter(rows, d, h) = <<>> => cell(d, h) = 0
        /\ \A h \in hours :
             /\ colTotals(rows, h, picked) = SumEach(dows, LAMBDA d : cell(d, h))
             /\ ColFill(rows, h, picked).shade = "dark"
                  <=> \A d \in dows : CellFill(rows, d, h, picked).shade = "dark"
             /\ onSumRowEnter(rows, h, picked).total <= grand(rows, picked)
        /\ grand(rows, picked) = SumEach(dows, LAMBDA d : onSumColEnter(rows, d, picked).total)

(* No bin splits a bucket of the server, and the totals of the charts and  *)
(* of the bars are the summary's, for edits as far as they lie before the  *)
(* last tokens.  A session left out of the list comes after those in it.   *)
(* A wrapped label loses no character.                                     *)
BucketsWhole(b) ==
  LET range == rangeOf(b)
      bins  == boundedTimeIntervals(range, dashboardBinMs(range, b.bucket))
      half  == b.bucket \div 2
  IN  \A i \in DOMAIN b.events : \E k \in DOMAIN bins :
        bins[k].start <= b.events[i].ts - half /\ b.events[i].ts + half <= bins[k].end
TotalsRight(b) ==
  LET range == rangeOf(b)
      sum   == totals(b.events)
      early == churnTotals(Where(b.churn, LAMBDA c : c.ts < range.end))
      total(events, val(_)) ==
        buildTimeSeriesData(events, range, dashboardBinMs(range, b.bucket), val).total
  IN  /\ \A k \in Token : total(b.events, LAMBDA e : e.tokens[k]) = sum.tokens[k]
      /\ total(b.events, LAMBDA e : e.cost) = sum.cost
      /\ total(b.churn, LAMBDA c : c.added) = early.added
      /\ total(b.churn, LAMBDA c : c.deleted) = early.deleted
BarsRight(b) ==
  LET some == TokenBreakdown(b.events, picked)
  IN  /\ \A rows \in {costByModel(b), some.byTokens, some.byCost} : \A i \in DOMAIN rows :
           BarTip(rows, i).value <= BarTip(rows, i).of
      /\ picked = "" /\ totals(b.events).total > 0 =>
           BarTip(some.byTokens, 1).of = totals(b.events).total
SessionsRight(b, sort) ==
  LET rows == SessionRows(b, sort)
      list == ToSet(SessionsList(b, sort))
  IN  /\ SumOver(rows, LAMBDA r : r.total) = SumOver(sessionsOf(b), LAMBDA s : totals(s.events).total)
      /\ \A r \in ToSet(rows) \ list, l \in list :
           CASE sort = "recent" -> r.start <= l.start
             [] sort = "cost"   -> r.cost <= l.cost
             [] sort = "tokens" -> r.total <= l.total
LabelRight(label, n) ==
  LET lines == wrapAxisLabel(label, n)
  IN  FlattenSeq(lines) = label /\ \A i \in DOMAIN lines : Len(lines[i]) <= n
ChartsMatchSummary ==
  kind = "charts" => \A b \in Drawn :
    /\ BucketsWhole(b) /\ TotalsRight(b) /\ BarsRight(b)
    /\ \A sort \in Order : SessionsRight(b, sort)
    /\ \A bar \in ToSet(costByProject(b, sel["project"], ProjectName)), n \in 1 .. 4 :
         LabelRight(bar.label, n)

(* Whatever order the server sends its sessions in, the burn rate goes     *)
(* from left to right within the plot, counts each session's tokens once,  *)
(* and a point of a line names the session it is nearest to.  Without      *)
(* sessions of the server, gaps of the events make them.                   *)
BurnInOrder(b) ==
  LET sessions == sessionsOf(b)
      data  == sessionData(sessions)
      range == burnRange(sessions, b.limits, rangeOf(b))
      steps == 4
      next(p) == data[Min({p[1] + 1, Len(data)})]
      at(p) == data[p[1]].mid * (steps - p[2]) + next(p).mid * p[2]
      far(i, p) == Abs(data[i].mid * steps - at(p))
  IN  /\ \A i \in 1 .. Len(data) - 1 : data[i].mid <= data[i + 1].mid
      /\ data[1].mid # data[Len(data)].mid =>
           range.start <= data[1].mid /\ data[Len(data)].mid <= range.end
      /\ SumOver(data, LAMBDA d : d.sums.total)
           = totals(FlattenSeq(Apply(sessions, LAMBDA s : s.events))).total
      /\ \A p \in densify(data, steps), i \in DOMAIN data :
           LET tip == BurnTip(FALSE, [d |-> 1, at |-> p], [d |-> 9, at |-> 1], data, steps)
           IN  far(tip.session, p) <= far(i, p)
      /\ b.sessions = <<>> =>
           /\ FlattenSeq(Apply(sessions, LAMBDA s : s.events)) = b.events
           /\ \A i \in 1 .. Len(sessions) - 1 :
                sessions[i + 1].start - sessions[i].end > SessionGap
BurnInTimeOrder == kind = "charts" => \A b \in Drawn : BurnInOrder(b)

(* The context growth, the dashboard made of the same file, its header and *)
(* its timeline read one transcript four ways.  A turn is its last record  *)
(* in both of the first; the dashboard adds what stands before the first   *)
(* text and drops what has no date; what it charges is never more than the *)
(* header's cost; and a chip hides what the header counts.                 *)
InspectorAgrees ==
  kind = "session" =>
    \A tx \in {OneFile([events |-> body.rows, meta |-> body.meta])} :
    \A stats \in {computeSessionStats(tx.events, tx.meta)}, rows \in {computeTurnStats(tx)},
       dash \in {txToDashData(tx)}, bounds \in {BoundaryLines(tx, Live)} :
    \A early \in {Where(SortedBy(Usages(tx.meta, NoTime), LAMBDA u : u.line),
                       LAMBDA u : bounds # <<>> /\ u.line < bounds[1])} :
    \A turns \in {(IF early = <<>> THEN <<>> ELSE <<Last(early)>>) \o Apply(rows, LAMBDA r : r.use)} :
    \A dated \in {SortedBy(Where(turns, LAMBDA u : u.ts # NoTime /\ u.ctx # 0), LAMBDA u : u.ts)},
       counted \in {[user |-> stats.userMsgs, tool |-> stats.toolCalls, result |-> stats.toolResults]} :
      /\ IF bounds = <<>> THEN rows = <<>>
         ELSE Apply(dash, LAMBDA e : <<e.ts, e.model, e.ctx, e.cost>>)
                = Apply(dated, LAMBDA u : <<u.ts, u.model, u.ctx, CostOf(u)>>)
      /\ SumOver(dash, LAMBDA e : e.cost) <= stats.cost
      /\ Len(rows) <= stats.turns /\ stats.parallelCalls <= stats.toolCalls
      /\ \A sum \in {growthSummary(rows, Cap) : r \in ToSet(rows)} :
           /\ sum.totalOutput <= stats.output /\ sum.totalInput <= stats.totalInput
           /\ 100 * sum.peak > 90 * Cap <=> \E r \in ToSet(rows) : severity(r, Cap) = "over"
      /\ \A i \in DOMAIN rows : hoverRow(rows, i - 1, Max({1, Len(rows) - 1})).turnNum = i
      /\ {"asst", "think"} \subseteq BoxesChecked =>
           Len(timeline(tx.events, BoxesChecked))
             = Len(tx.events) - SumEach(DOMAIN counted \ BoxesChecked, LAMBDA c : counted[c])
      /\ \A e \in ToSet(selected(tx.events, BoxesChecked, picked)) : ChipOf(e.type) \subseteq BoxesChecked

(* Files dropped together give the dashboard what each gives alone, as     *)
(* long as they have names that differ: no turn ends at another's text.    *)
Named(files) ==
  \A i, j \in DOMAIN files : files[i].name # "" /\ (files[i].name = files[j].name => i = j)
MergeIsUnion ==
  kind = "session" /\ shown = Nothing => \A files \in Files[kind] : Named(files) =>
    LET alone(f) == Apply(txToDashData(OneFile(f)), LAMBDA e : [e EXCEPT !.session = f.name])
    IN  txToDashData(loadFiles(files))
          = SortedBy(FlattenSeq(Apply(files, alone)), LAMBDA e : e.ts)

(* However the list of projects changes under the picker, its pages hold   *)
(* every project once, and one without any is shown only after a jump to a *)
(* project that had gone: then the stored page is negative.                *)
NoStrandedPage ==
  kind = "projects" /\ body.rows # <<>> =>
    LET rows == body.rows
    IN  /\ FlattenSeq([p \in 1 .. pageCount(rows) |-> chips(rows, p - 1)]) = rows
        /\ chips(rows, picked) = <<>> => picked < 0
===============================================================================
