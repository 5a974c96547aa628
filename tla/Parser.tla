------------------------------- MODULE Parser -------------------------------
(***************************************************************************)
(* The two transcript parsers, backend/parse.py and src/parser.js, reading *)
(* the same wire.jsonl line by line.                                       *)
(*                                                                         *)
(* Transcripts grow while a session runs and are uploaded and parsed again *)
(* from the start, so every prefix of a transcript is a file of its own,   *)
(* and each state holds what both parsers have made of such a file.  The   *)
(* results (records, context turns, tool uses) are operators over it.      *)
(***************************************************************************)
EXTENDS BackendParse, BrowserParse

CONSTANT Sources  \* transcripts to write: a format, the lines it may hold
                  \* and a bound on their number

ASSUME SourceAssumption ==
  \A s \in Sources :
    /\ s.format \in {"kimi-code", "legacy", "claude"} /\ s.longest \in Nat
    /\ \A l \in s.letters : IsLine(l, s.format)

VARIABLES
  source,  \* the transcript's kind
  wire,    \* its lines so far
  py,      \* _ParseState
  js       \* the locals of _parseKimiCode or _parseLegacy

vars == <<source, wire, py, js>>

Outcome == {"open", "ok", "error"}

(* Line numbers point into the file, turns do not end before they begin,   *)
(* latencies and labels are well formed.                                   *)
TypeOK ==
  /\ source \in Sources
  /\ ToSet(wire) \subseteq source.letters /\ Len(wire) <= source.longest
  /\ \A r \in ToSet(py.records) :
       r.line \in DOMAIN wire /\ r.model \in Label /\ r.latency \in Int /\ r.latency >= NoLatency
  /\ \A t \in ToSet(py.turns) : t.begin <= t.end
  /\ {py.results, js.results} \subseteq [CallId -> Outcome]
  /\ \A m \in ToSet(js.metas) : m.line \in DOMAIN wire

Init ==
  /\ source \in Sources
  /\ wire = <<>> /\ py = PyStart /\ js = JsStart

N == Len(wire) + 1

(* The next line is one of these kinds.                                    *)
Reads(l, kinds) ==
  /\ N <= source.longest
  /\ l \in source.letters /\ l.kind \in kinds
  /\ wire' = Append(wire, l)
  /\ UNCHANGED source

(***************************************************************************)
(* kimi-code: _kc_dispatch and the loop of _parseKimiCode                  *)
(***************************************************************************)
Prompt(l) ==
  /\ Reads(l, {"turn.prompt", "turn.steer"})
  /\ py' = TurnBoundary(EventTs(py, l), N, l.ts)
  /\ js' = jsPrompt(js, l)

(* An assistant message, or a tool.call of the loop.                       *)
Assistant(l) ==
  /\ Reads(l, {"assistant", "tool.call"})
  /\ py' = AssistantLine(EventTs(py, l), N, l)
  /\ js' = jsAssistant(js, l)

ContentPart(l) ==
  /\ Reads(l, {"content.part"})
  /\ py' = CountText(EventTs(py, l), l)
  /\ js' = jsPart(js, l)

(* A tool message, or a tool.result of the loop.                           *)
Result(l) ==
  /\ Reads(l, {"tool", "tool.result"})
  /\ py' = ToolResult(EventTs(py, l), l)
  /\ js' = jsToolResult(js, N, l)

UserMessage(l) ==
  /\ Reads(l, {"user"})
  /\ py' = EventTs(py, l)
  /\ js' = Event(js, l.ts)

StepBegin(l) ==
  /\ Reads(l, {"step.begin"})
  /\ py' = KcStepBegin(EventTs(py, l), N, l)
  /\ js' = jsStepBegin(js, l)

(* Informational in one parser, the end of the turn in the other.          *)
StepEnd(l) ==
  /\ Reads(l, {"step.end"})
  /\ py' = EventTs(py, l)
  /\ js' = closeTurn(js, l.ts)

Usage(l) ==
  /\ Reads(l, {"usage.record"})
  /\ py' = AppendUsageRecord(EventTs(py, l), N, l)
  /\ js' = jsKcUsage(js, N, l)

LlmError(l) ==
  /\ Reads(l, {"llm.error"})
  /\ py' = KcLlmError(EventTs(py, l), N, l)
  /\ UNCHANGED js

(***************************************************************************)
(* Legacy: _legacy_dispatch and the loop of _parseLegacy                   *)
(***************************************************************************)
TurnBegin(l) ==
  /\ Reads(l, {"TurnBegin"})
  /\ py' = TurnBoundary(EventTs(py, l), N, l.ts)
  /\ js' = jsTurnBegin(js, l)

TurnEnd(l) ==
  /\ Reads(l, {"TurnEnd"})
  /\ py' = LegacyTurnEnd(EventTs(py, l), N)
  /\ js' = jsTurnEnd(js, l)

LegacyContentPart(l) ==
  /\ Reads(l, {"ContentPart"})
  /\ py' = CountText(EventTs(py, l), l)
  /\ js' = jsPart(js, l)

LegacyToolCall(l) ==
  /\ Reads(l, {"ToolCall"})
  /\ py' = AssistantLine(EventTs(py, l), N, l)
  /\ js' = jsLegacyToolCall(js, l)

LegacyToolResult(l) ==
  /\ Reads(l, {"ToolResult"})
  /\ py' = ToolResult(EventTs(py, l), l)
  /\ js' = jsToolResult(js, N, l)

StatusUpdate(l) ==
  /\ Reads(l, {"StatusUpdate"})
  /\ py' = LegacyStatusUpdate(EventTs(py, l), N, l)
  /\ js' = jsStatusUpdate(js, N, l)

(***************************************************************************)
(* Lines of either format                                                  *)
(***************************************************************************)
(* created_at of a kimi-code header is the session's first time.           *)
Metadata(l) ==
  /\ Reads(l, {"metadata"})
  /\ py' = EventTs(py, l)
  /\ UNCHANGED js

(* A write cut short in front of a complete object: no JSON.  Only the     *)
(* browser's legacy parser, which a Claude transcript gets too, looks for  *)
(* the object inside (_iterJsonObjects).                                   *)
Torn(l) ==
  /\ Reads(l, {"torn"})
  /\ UNCHANGED py
  /\ js' = CASE source.format = "legacy"    -> jsStatusUpdate(js, N, l)
             [] source.format = "claude"    -> Meta(js, l.ts)
             [] source.format = "kimi-code" -> js

(* A line of a type neither parser handles, or of a Claude transcript.     *)
Unhandled(l) ==
  /\ Reads(l, {"other", "claude"})
  /\ py' = EventTs(py, l)
  /\ js' = IF source.format = "kimi-code" THEN js ELSE Meta(js, l.ts)

Next ==
  \E l \in source.letters :
    \/ Prompt(l) \/ Assistant(l) \/ ContentPart(l) \/ Result(l) \/ UserMessage(l)
    \/ StepBegin(l) \/ StepEnd(l) \/ Usage(l) \/ LlmError(l)
    \/ TurnBegin(l) \/ TurnEnd(l) \/ LegacyContentPart(l) \/ LegacyToolCall(l)
    \/ LegacyToolResult(l) \/ StatusUpdate(l)
    \/ Metadata(l) \/ Torn(l) \/ Unhandled(l)

Spec == Init /\ [][Next]_vars

(***************************************************************************)
(* What a transcript means, read off its lines                             *)
(***************************************************************************)
LastIn(S) == IF S = {} THEN 0 ELSE Max(S)

(* The elements of S, in order.                                            *)
InOrder(s, S) ==
  ToSet(s) = S /\ \A i, j \in DOMAIN s : i < j => s[i] < s[j]
LinesOf(s) == [k \in DOMAIN s |-> s[k].line]

Lines(kinds)  == {i \in DOMAIN wire : wire[i].kind \in kinds}
Prompts       == Lines({"turn.prompt", "turn.steer", "TurnBegin"})
Ends          == Lines({"TurnEnd"})
Billed        == Lines({"usage.record"}) \cup {i \in Lines({"StatusUpdate"}) : wire[i].usage}
Up(S, i)      == {j \in S : j <= i}

(* A step.begin opens a turn when it names another turn than the last one. *)
Starts ==
  Prompts \cup
  {i \in Lines({"step.begin"}) :
     LET before == LastIn(Up(Lines({"step.begin"}), i - 1))
     IN  wire[i].turn # (IF before = 0 THEN NoId ELSE wire[before].turn)}

(* The line that opened the turn line i belongs to, 0 between turns.       *)
TurnAt(i) ==
  LET s == LastIn(Up(Starts, i))
  IN  IF \E e \in Ends : s < e /\ e <= i THEN 0 ELSE s

(* The prompt the record at line i answers: the last one, unless a record  *)
(* or the end of the turn came first.                                      *)
Answers(i) ==
  LET p == LastIn(Up(Prompts, i))
  IN  IF \E j \in Billed \cup Ends : p < j /\ j < i THEN 0 ELSE p

Latency(i) ==
  LET p == Answers(i)
  IN  IF p # 0 /\ 0 < wire[p].ts /\ wire[p].ts <= wire[i].ts
      THEN wire[i].ts - wire[p].ts ELSE NoLatency

Text(i) ==
  LET said == {j \in Lines({"assistant", "content.part", "ContentPart"}) :
                 LastIn(Up(Starts, i)) <= j /\ j <= i}
  IN  SumFunctionOnSet([j \in DOMAIN wire |-> wire[j].text], said)

(* The time a record is labelled by.                                       *)
LabelTime(i) ==
  LET stamped == {j \in 1 .. i : wire[j].kind # "torn" /\ wire[j].ts # NoTime}
  IN  IF wire[i].ts # NoTime THEN wire[i].ts
      ELSE IF stamped = {} THEN NoTime ELSE wire[Min(stamped)].ts

(* Every billing line becomes one record, in order, and its latency, text  *)
(* and model are those the lines before it say: an anchor is used once and *)
(* never by a record of another turn, text does not leak between turns.    *)
RecordsMatchWire ==
  /\ InOrder(LinesOf(py.records), Billed)
  /\ \A r \in ToSet(py.records) :
       /\ r.ts = wire[r.line].ts /\ r.input = wire[r.line].input
       /\ r.latency = Latency(r.line)
       /\ r.text = Text(r.line)
       /\ r.model = ModelFor(wire[r.line].model, LabelTime(r.line))

(* The context trace shows each turn once, by its last record, and skips   *)
(* turns whose last record has no context (ctx_turns of the files table).  *)
TurnsMatchWire ==
  LET last == {i \in Billed : /\ TurnAt(i) # 0
                              /\ \A j \in Billed : TurnAt(j) = TurnAt(i) => j <= i}
  IN  InOrder(LinesOf(CtxTurns(py)), {i \in last : wire[i].input > 0})

(* Where the last result of call c stands, 0 if it has none.               *)
ResultLine(c) == LastIn({i \in Lines({"tool", "tool.result", "ToolResult"}) : wire[i].id = c})

(* What the page marks as failed of a call's last result; a legacy page    *)
(* marks every result of the call alike.                                   *)
MarkedFailed(c) ==
  {r.failed : r \in {q \in ToSet(ResultRows(js)) :
                       IF source.format = "legacy" THEN q.call = c ELSE q.line = ResultLine(c)}}

Calls == FlattenSeq([i \in DOMAIN wire |-> wire[i].calls])
Settled(c) == c # NoId /\ ResultLine(c) # 0

(* Only parser.js takes a loop result for failed that spells it is_error.  *)
AliasOnly(l) == l.kind = "tool.result" /\ l.err \cap {"isError", "is_error"} = {"is_error"}

(* A tool call gets the outcome its last result reports, wherever that     *)
(* stands in the file, a failed call changed no lines, and the page marks  *)
(* the result of a call as failed exactly when the backend books the call  *)
(* as failed, unless the result spells its flag the way only parser.js     *)
(* reads it.                                                               *)
ToolUsesMatchWire ==
  LET uses == ToolUses(py)
      outcome(c) == IF ~Settled(c) THEN "open"
                    ELSE IF PyFailed(wire[ResultLine(c)]) THEN "error" ELSE "ok"
  IN  /\ Len(uses) = Len(Calls)
      /\ \A k \in DOMAIN uses :
           /\ uses[k].outcome = outcome(Calls[k])
           /\ uses[k].churn = IF outcome(Calls[k]) = "error" THEN 0 ELSE 1
           /\ Settled(Calls[k]) /\ ~AliasOnly(wire[ResultLine(Calls[k])]) =>
                MarkedFailed(Calls[k]) = {uses[k].outcome = "error"}

(* parser.js books what the backend books: the same lines once, with the   *)
(* same context, and for a stamped line the same model; in kimi-code also  *)
(* the same latency.  What it has beyond that carries no tokens or is on   *)
(* a damaged line.                                                         *)
MirrorRecords ==
  LET page == JsRecords(js)
  IN  /\ InOrder(LinesOf(page), ToSet(LinesOf(page)))
      /\ \A r \in ToSet(py.records) : \E m \in ToSet(page) :
           /\ m.line = r.line /\ m.input = r.input
           /\ m.ts # NoTime => m.model = r.model
           /\ source.format = "kimi-code" => m.latency = r.latency
      /\ \A m \in ToSet(page) :
           m.line \in Billed \/ m.input = 0 \/ wire[m.line].kind = "torn"

(* A file with a billing line is read by the parser of its own format on   *)
(* both sides, however it begins, and a Claude transcript is refused, not  *)
(* booked as an empty parse.                                               *)
DetectionRight ==
  /\ Billed # {} => PyFormat(wire) = source.format /\ JsFormat(wire) = source.format
  /\ Lines({"claude"}) # {} /\ source.format = "claude" => PyFormat(wire) = "claude"

(* When a transcript grows, the parse of the longer file keeps every       *)
(* context turn but the last, which may still change or go.                *)
GrowthKeepsTurns ==
  [][LET ctx == CtxTurns(py)
     IN  ctx # <<>> => IsPrefix(Front(ctx), CtxTurns(py)')]_vars

(* parser.js calls itself a mirror of parse.py: the page marks a result as *)
(* failed exactly when the backend books its call as failed.               *)
MirrorOutcomes ==
  \A k \in DOMAIN ToolUses(py) :
    Settled(Calls[k]) => MarkedFailed(Calls[k]) = {ToolUses(py)[k].outcome = "error"}
=============================================================================
