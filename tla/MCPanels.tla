------------------------------- MODULE MCPanels -------------------------------
(***************************************************************************)
(* Small bodies for every kind of panel: a second answer moves tools into  *)
(* and out of the top, lets a model vanish, or has nothing in it.          *)
(***************************************************************************)
EXTENDS Panels

MCKind == {"usage", "errors", "latency", "responses", "heat", "context", "charts", "projects", "cache",
           "session"}
MCOptions ==
  [k \in MCKind |->
     CASE k = "projects" -> [project |-> {0, 1}, range |-> {0, 1}, own |-> {0}, nonce |-> {0}]
       [] k = "session"  -> [project |-> {0}, range |-> {0}, own |-> {0, 1}, nonce |-> {0}]
       [] k \in OwnModel -> [project |-> {0, 1}, range |-> {0}, own |-> 0 .. 2, nonce |-> {0}]
       [] k \in {"charts", "context", "cache"} ->
            [project |-> {0, 1}, range |-> {0}, own |-> {0}, nonce |-> {0}]
       [] k \in {"errors", "responses"} ->
            [project |-> {0}, range |-> {0, 1}, own |-> {0}, nonce |-> {0, 1}]]
MCStart   == [project |-> 0, range |-> 0, own |-> 0, nonce |-> 0]

MCEmpty == [rows |-> <<>>, outliers |-> <<>>, traces |-> <<>>, sessions |-> <<>>, events |-> <<>>,
            meta |-> <<>>, churn |-> <<>>, costs |-> <<>>, byProject |-> <<>>, limits |-> {}, bucket |-> 0]
Rows(rows, bucket) == [MCEmpty EXCEPT !.rows = rows, !.bucket = bucket]

Call(ts, tool, n) == [ts |-> ts, tool |-> tool, n |-> n]
UsageBodies ==
  {Rows(<<Call(1, "a", 3), Call(1, "b", 1), Call(3, "b", 2), Call(3, "a", 1), Call(3, "c", 1)>>, 2),
   Rows(<<Call(1, "c", 1), Call(1, "a", 4), Call(1, "b", 2)>>, 0)}

Outcome(ts, m, tool, n, error) == [ts |-> ts, model |-> m, tool |-> tool, n |-> n, error |-> error]
ErrorBodies ==
  {Rows(<<Outcome(1, "m1", "a", 3, 1), Outcome(1, "m1", "b", 1, 1), Outcome(3, "m1", "c", 2, 0),
          Outcome(3, "m1", "a", 1, 0), Outcome(1, "m2", "b", 2, 2), Outcome(1, "m3", "a", 1, 1)>>, 2),
   Rows(<<Outcome(1, "m1", "b", 3, 1), Outcome(1, "m1", "a", 2, 1), Outcome(3, Synthetic, "a", 9, 9),
          Outcome(1, "m2", "b", 7, 0), Outcome(1, "m3", "a", 6, 1)>>, 4)}

Line(ts, m, n, p10, p50, p90) ==
  [ts |-> ts, model |-> m, n |-> n, at |-> [p10 |-> p10, p50 |-> p50, p90 |-> p90]]
MCEvent(ts, m, i, o, r) ==
  [ts |-> ts, model |-> m, tokens |-> [input |-> i, output |-> o, read |-> r],
   cost |-> i + 2 * o, session |-> "s", turn |-> 0, ctx |-> i]
OneEvent == <<MCEvent(2, "m1", 1, 1, 0)>>
LatencyRows == {<<Line(3, "m1", 2, 1, 2, 4), Line(1, "m1", 3, 2, 3, 3), Line(1, "m2", 4, 0, 1, 3)>>,
                <<Line(2, "m2", 1, 1, 1, 2), Line(2, Synthetic, 5, 1, 1, 1)>>}
LatencyBodies ==
  {[Rows(rows, 2) EXCEPT !.outliers = <<[ts |-> 2, latency |-> 2, model |-> "m2"]>>] : rows \in LatencyRows}
ResponseBodies ==
  {[Rows(rows, 2) EXCEPT !.events = OneEvent] : rows \in LatencyRows \cup {<<Line(1, "m1", 0, 0, 0, 0)>>, <<>>}}

HeatCell(dow, hour, n, cost) ==
  [dow |-> dow, hour |-> hour, value |-> [requests |-> n, output_tokens |-> 2 * n, cost_usd |-> cost]]
HeatBodies ==
  {Rows(<<HeatCell(1, 0, 1, 500), HeatCell(1, 23, 2, 0), HeatCell(7, 23, 1, 1)>>, 0), MCEmpty}

ContextBody(traces, sessions) ==
  [MCEmpty EXCEPT !.traces = traces, !.sessions = sessions, !.events = OneEvent, !.bucket = 4]
MCTrace(m, turns) == [model |-> m, turns |-> turns]
NoTurns == [turns |-> <<>>, used |-> <<"m1">>]
ContextBodies ==
  {ContextBody(<<MCTrace("m1", <<3, 9>>), MCTrace("m2", <<5>>), MCTrace("m1", <<4>>),
                 MCTrace("m3", <<1, 2, 1>>), MCTrace("m1", <<>>)>>, <<NoTurns>>),
   ContextBody(<<MCTrace("m3", <<7, 8>>), MCTrace(Synthetic, <<1>>)>>, <<NoTurns>>),
   ContextBody(<<>>, <<NoTurns>>)}
Of(s, turn, m, ctx) == [MCEvent(turn, m, ctx, 1, 0) EXCEPT !.session = s, !.turn = turn]
ContextFiles ==
  {[MCEmpty EXCEPT !.events = <<Of("s", 0, "m1", 3), Of("t", 0, "m2", 4), Of("s", 1, "m2", 6),
                                Of("s", 2, "m1", 2), Of("t", 1, "m2", 5)>>]}

MCSession(start, end, m, i) == [start |-> start, end |-> end, events |-> <<MCEvent(start, m, i, 1, 1)>>]
Edit(ts, added) == [ts |-> ts, added |-> added, deleted |-> 1]
ChartBodies ==
  {[MCEmpty EXCEPT
      !.events = <<MCEvent(2, "m1", 3, 1, 4), MCEvent(2, "m2", 1, 0, 0), MCEvent(6, "m1", 2, 2, 0),
                   MCEvent(30, "m2", 0, 5, 1)>>,
      !.churn = <<Edit(2, 3), Edit(6, 1), Edit(34, 7)>>, !.limits = {5, 31}, !.bucket = 4,
      !.costs = <<[model |-> "m1", cost |-> 4], [model |-> "m2", cost |-> 6], [model |-> "m1", cost |-> 3]>>,
      !.byProject = <<[project |-> 1, cost |-> 9], [project |-> 2, cost |-> 1]>>,
      !.sessions = <<MCSession(20, 30, "m2", 5), MCSession(1, 7, "m1", 2), MCSession(2, 2, "m1", 7)>>],
   [MCEmpty EXCEPT !.events = OneEvent, !.bucket = 4, !.sessions = <<MCSession(1, 2, "m1", 1)>>],
   MCEmpty}
ChartFiles ==
  {[MCEmpty EXCEPT !.events = <<MCEvent(1, "m1", 3, 1, 4), MCEvent(2, "m1", 1, 0, 0),
                                MCEvent(6, "m2", 2, 2, 0), MCEvent(12, "m2", 0, 5, 1)>>]}

(* Transcripts: a record before the first text, two in a turn, one that    *)
(* ends with an empty context, one without a date, a text of blanks.       *)
Ev(line, type) ==
  [line |-> line, ts |-> line, type |-> type, text |-> TRUE, error |-> FALSE,
   size |-> 1, index |-> 1, sid |-> ""]
Use(line, ts, m, i, o) ==
  [line |-> line, ts |-> ts, type |-> "status_update", model |-> m, sid |-> "",
   tokens |-> [input |-> i, create |-> 1, read |-> 0, output |-> o]]
NoUse(line, ts, m) == [Use(line, ts, m, 0, 1) EXCEPT !.tokens["create"] = 0]
Turning == <<Ev(2, "user_message"), [Ev(4, "user_message") EXCEPT !.text = FALSE],
             [Ev(5, "tool_call") EXCEPT !.size = 2], [Ev(5, "tool_call") EXCEPT !.size = 2, !.index = 2],
             [Ev(6, "tool_result") EXCEPT !.error = TRUE], Ev(7, "user_message"), Ev(8, "thinking"),
             Ev(9, "assistant_text"), Ev(10, "user_message"), [Ev(12, "parse_error") EXCEPT !.ts = 0]>>
TurningUse == <<Use(1, 9, "none", 1, 1), Use(3, 3, "k3", 2, 1), Use(5, 5, "none", 7, 2),
                Use(8, 8, "none", 3, 1), NoUse(9, 9, "k3"), [Use(11, 0, "none", 4, 3) EXCEPT !.ts = 0]>>
Untexted    == <<Ev(1, "tool_call"), Ev(2, "tool_result")>>
UntextedUse == <<Use(3, 3, "none", 5, 1), Use(1, 7, "other", 1, 0), Use(2, 0, "none", 3, 1)>>
SessionBody(events, meta) == [MCEmpty EXCEPT !.rows = events, !.meta = meta]
SessionBodies == {SessionBody(Turning, TurningUse), SessionBody(Untexted, UntextedUse)}
MCFile(name, events, meta) == [name |-> name, events |-> events, meta |-> meta]
FilesOf(x, y) == <<MCFile("x", x[1], x[2]), MCFile("y", y[1], y[2])>>
Texted  == <<<<Ev(1, "user_message"), Ev(4, "user_message")>>, <<Use(2, 4, "k3", 1, 1), Use(3, 5, "k3", 1, 2)>>>>
DroppedFiles ==
  {FilesOf(<<Turning, TurningUse>>, Texted), FilesOf(Texted, <<Untexted, UntextedUse>>),
   FilesOf(<<Untexted, <<>>>>, Texted)}

(* The list of projects, by cost in the range.                             *)
ProjectBodies == {Rows(<<1, 2, 3>>, 0), Rows(<<4, 3, 2>>, 0), Rows(<<2>>, 0)}

MCAnswers ==
  [k \in MCKind |->
     CASE k = "usage"     -> UsageBodies
       [] k = "errors"    -> ErrorBodies
       [] k = "latency"   -> LatencyBodies
       [] k = "responses" -> ResponseBodies
       [] k = "heat"      -> HeatBodies
       [] k = "context"   -> ContextBodies
       [] k = "charts"    -> ChartBodies
       [] k = "session"   -> SessionBodies
       [] k = "projects"  -> ProjectBodies
       [] k = "cache"     -> {Rows(<<1>>, 0), Rows(<<2>>, 0)}]
MCModels == <<[model |-> "m1", n |-> 2], [model |-> Synthetic, n |-> 9], [model |-> "m1", n |-> 1]>>
MCFiles ==
  [k \in MCKind |-> CASE k = "context" -> ContextFiles
                      [] k = "charts"  -> ChartFiles
                      [] k = "session" -> DroppedFiles
                      [] OTHER         -> {}]
MCBoxes ==
  [k \in MCKind |->
     CASE k = "usage"  -> {"a", "b", "c", OtherTools}
       [] k = "errors" -> {<<"m1", AGGREGATE>>, <<"m1", "a">>, <<"m3", OtherTools>>, <<"m2", "b">>}
       [] k = "context" -> {"m1", "m2", "m3"}
       [] k \in {"latency", "responses"} -> {"m1", "m2"}
       [] k = "session" -> {"user", "result"}
       [] OTHER -> {}]
MCPicks ==
  [k \in MCKind |-> CASE k = "heat"   -> Metric
                      [] k = "charts" -> {"", "m1", "m2"}
                      [] k = "projects" -> -1 .. 1
                      [] k = "session"  -> {2, 7}
                      [] OTHER        -> {}]
MCMaxRequests ==
  [k \in MCKind |-> CASE k = "cache" -> 4
                      [] k \in {"heat", "projects"} -> 3
                      [] OTHER -> 2]
MCTimes  == -1 .. 9
MCLevels == {-1, 1, 3, 4, 6, 9}
MCNiceBins == <<2, 4, 8>>
MCRate == [m \in {"m1", "m2"} \cup W!Label |->
             [input |-> IF m = "kimi-k3" THEN 6 ELSE 2, create |-> 2, output |-> 3, read |-> 1]]
MCProjectName == <<<<"a", "/", "b", "c", "d", "-">>, <<"x", "y", "_", "z">>>>
===============================================================================
