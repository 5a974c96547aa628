---------------------------- MODULE BrowserParse ----------------------------
(***************************************************************************)
(* src/parser.js: the same transcript parsed by the Inspector in a page.   *)
(* It collects events and metaEvents first and builds its records from     *)
(* them after the last line.  Of the events only the first time stamp and  *)
(* the tool results (rows) are kept, of the metaEvents the first time      *)
(* stamp and the usage records (metas).  statusLines and                   *)
(* turnHasAssistantEvent are never read, and nothing on the page reads the *)
(* ctx_turns, turn_count and tool_uses of the result.                      *)
(***************************************************************************)
EXTENDS Wire

(* results is toolResultMap (or toolResultIsError), called the ids in      *)
(* toolCallMap.  turnId is <<>> for null, which no turn id equals, not     *)
(* even a missing one.                                                     *)
JsStart == [metas |-> <<>>, rows |-> <<>>,
            results |-> [c \in CallId |-> "open"], called |-> {},
            open |-> FALSE, turnId |-> <<>>, pending |-> NoTime, text |-> 0,
            eventTs |-> NoTime, metaTs |-> NoTime]

Event(st, ts) == [st EXCEPT !.eventTs = Stamped(@, ts)]
Meta(st, ts)  == [st EXCEPT !.metaTs = Stamped(@, ts)]

closeTurn(st, ts) == IF st.open THEN [Meta(st, ts) EXCEPT !.open = FALSE] ELSE st
startTurn(st) == [st EXCEPT !.open = TRUE, !.text = 0]

jsPrompt(st, l) ==
  Event([startTurn(closeTurn(st, l.ts)) EXCEPT !.pending = l.ts], l.ts)

(* A message or part that shows something is an event.                     *)
jsAssistant(st, l) ==
  LET spoken == [st EXCEPT !.text = @ + l.text]
  IN  IF l.text > 0 \/ l.calls # <<>> THEN Event(spoken, l.ts) ELSE spoken

jsPart(st, l) == Event([st EXCEPT !.text = @ + l.text], l.ts)

(* A result of the loop may spell its flag either way.                     *)
JsFailed(l) ==
  \/ l.kind \in {"tool", "tool.result"} /\ "isError" \in l.err
  \/ l.kind \in {"ToolResult", "tool.result"} /\ "is_error" \in l.err

jsToolResult(st, n, l) ==
  LET shown == [st EXCEPT !.rows = Append(@, [line |-> n, call |-> l.id, failed |-> JsFailed(l)])]
  IN  Event(IF l.id = NoId THEN shown
            ELSE [shown EXCEPT !.results[l.id] = IF JsFailed(l) THEN "error" ELSE "ok"], l.ts)

jsStepBegin(st, l) ==
  Meta(IF <<l.turn>> = st.turnId THEN st
       ELSE [startTurn(closeTurn(st, l.ts)) EXCEPT !.turnId = <<l.turn>>], l.ts)

jsUsage(st, n, l, latency) ==
  Meta([st EXCEPT !.metas = Append(@, [line |-> n, ts |-> l.ts, model |-> l.model,
                                       input |-> l.input, latency |-> latency])], l.ts)

jsLatency(st, ts) ==
  IF st.pending # NoTime /\ ts # NoTime /\ ts >= st.pending
  THEN ts - st.pending ELSE NoLatency

jsKcUsage(st, n, l) ==
  [jsUsage(st, n, l, jsLatency(st, l.ts)) EXCEPT !.pending = NoTime]

(* Legacy: no reply latency, and a StatusUpdate without token_usage counts *)
(* as one of zeroes.                                                       *)
jsTurnBegin(st, l) ==
  Meta(Event([startTurn(st) EXCEPT !.pending = l.ts], l.ts), l.ts)

jsTurnEnd(st, l) == Meta([st EXCEPT !.open = FALSE, !.pending = NoTime], l.ts)

jsLegacyToolCall(st, l) ==
  Event([st EXCEPT !.called = @ \cup (ToSet(l.calls) \ {NoId})], l.ts)

jsStatusUpdate(st, n, l) ==
  jsUsage(st, n, [l EXCEPT !.model = NoModel, !.input = IF l.usage THEN @ ELSE 0], NoLatency)

(***************************************************************************)
(* After the last line                                                     *)
(***************************************************************************)
FirstEventTs(st) == IF st.eventTs # NoTime THEN st.eventTs ELSE st.metaTs

(* Every record gets the text count left at the end of the file.           *)
JsRecords(st) ==
  [i \in DOMAIN st.metas |->
     LET m == st.metas[i] IN
     [line |-> m.line, ts |-> m.ts, input |-> m.input, text |-> st.text,
      latency |-> m.latency,
      model |-> modelFor(m.model, IF m.ts # NoTime THEN m.ts ELSE FirstEventTs(st))]]

(* The tool_result events as the page lists them: those linked to a call   *)
(* say what its last result says.                                          *)
ResultRows(st) ==
  [i \in DOMAIN st.rows |->
     LET r == st.rows[i]
     IN  IF r.call \in st.called THEN [r EXCEPT !.failed = st.results[r.call] = "error"] ELSE r]

JsFormat(wire) == FirstMark(wire, KimiMark)
=============================================================================
