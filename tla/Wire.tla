-------------------------------- MODULE Wire --------------------------------
(***************************************************************************)
(* The lines of a wire.jsonl transcript, as far as its two parsers tell    *)
(* them apart, and the ladder that names a record's model.                 *)
(*                                                                         *)
(* A line is a record: its kind; the time stamp (NoTime when it has none); *)
(* the turn id of a step.begin; the tool call ids an assistant line opens; *)
(* the id of a tool result and which error flags the result (or llm.error) *)
(* carries; the model id and context size of a usage record, and whether a *)
(* StatusUpdate carries usage at all; the length of a text part.           *)
(* Ids, texts and payloads are opaque.                                     *)
(***************************************************************************)
EXTENDS Integers, Sequences, FiniteSetsExt, SequencesExt

CONSTANTS
  CallId,      \* tool call ids
  NoId,        \* an absent turn or tool call id
  ModelCutoff, \* MODEL_CUTOFF_EPOCH
  K3Cutoff     \* K3_CUTOFF_EPOCH

ASSUME CutoffAssumption ==
  /\ ModelCutoff \in Nat \ {0} /\ K3Cutoff \in Nat
  /\ ModelCutoff <= K3Cutoff
ASSUME IdAssumption == NoId \notin CallId

NoTime == 0
NoLatency == -1
NoModel == "none"

(* A line that no parser acts on; every other line sets some of its fields.*)
Blank == [kind |-> "other", ts |-> NoTime, turn |-> NoId, calls |-> <<>>,
          id |-> NoId, err |-> {}, model |-> NoModel, input |-> 0,
          text |-> 0, usage |-> TRUE]

(* The names under which a line can say that something failed.             *)
ErrorFlag == {"isError", "is_error", "quota_exhausted"}

Label == {"kimi-k2-6", "kimi-k2-7-code", "kimi-k3"}

(* The model ladder.  Only "k3" settles a record alone; "kimi-for-coding"  *)
(* and ids nobody knows leave it to the date, which then never says k3.    *)
Ladder(model, ts, k3From) ==
  CASE model = "k3"                        -> "kimi-k3"
    [] model # "k3" /\ ts = NoTime         -> "kimi-k2-7-code"
    [] model # "k3" /\ ts \in 1 .. ModelCutoff - 1 -> "kimi-k2-6"
    [] model = NoModel /\ ts >= k3From     -> "kimi-k3"
    [] OTHER                               -> "kimi-k2-7-code"

(* Each parser has a ladder and constants of its own; they drifted once.   *)
LadderDrifted(model, ts) == Ladder(model, ts, K3Cutoff + 1)    \* mutant
ModelFor(model, ts) == Ladder(model, ts, K3Cutoff)             \* parse.py
modelFor(model, ts) == Ladder(model, ts, K3Cutoff)             \* parser.js

(* context.append_message by role, context.append_loop_event by event type *)
Message   == {"assistant", "tool", "user"}
LoopEvent == {"step.begin", "step.end", "content.part", "tool.call", "tool.result"}

(* The lines that give a format away.  A metadata line always does.        *)
KcMarker == Message \cup LoopEvent \cup {"usage.record", "turn.prompt", "turn.steer"}
LegacyMarker == {"StatusUpdate", "TurnBegin", "ToolCall", "ContentPart"}

KimiMark(l) ==
  CASE l.kind = "metadata" -> IF l.ts # NoTime THEN "kimi-code" ELSE "legacy"
    [] l.kind \in KcMarker -> "kimi-code"
    [] l.kind \in LegacyMarker /\ l.ts # NoTime -> "legacy"
    [] OTHER -> "none"

(* The first line that gives a format away decides, else legacy.           *)
FirstMark(wire, Mark(_)) ==
  LET marked == {i \in DOMAIN wire : Mark(wire[i]) # "none"}
  IN  IF marked = {} THEN "legacy" ELSE Mark(wire[Min(marked)])

(* The lines a transcript of each format holds: those its parser handles,  *)
(* those no parser does and those cut short.                               *)
KindsOf(format) ==
  {"torn", "other"} \cup
  CASE format = "kimi-code" -> KcMarker \cup {"metadata", "llm.error"}
    [] format = "legacy"    -> LegacyMarker \cup {"TurnEnd", "ToolResult", "metadata"}
    [] format = "claude"    -> {"claude"}

(* What a line of each kind can say.  Only a kimi-code header has a time,  *)
(* and legacy transcripts carry no model.                                  *)
IsLine(l, format) ==
  /\ DOMAIN l = DOMAIN Blank
  /\ l.kind \in KindsOf(format)
  /\ l.ts \in Nat /\ l.input \in Nat /\ l.text \in Nat
  /\ l.id \in CallId \cup {NoId} /\ l.calls \in Seq(CallId \cup {NoId})
  /\ l.err \subseteq ErrorFlag /\ l.usage \in BOOLEAN
  /\ l.calls # <<>> => l.kind \in {"assistant", "tool.call", "ToolCall"}
  /\ l.text # 0 => l.kind \in {"assistant", "content.part", "ContentPart"}
  /\ l.kind = "metadata" => (l.ts # NoTime <=> format = "kimi-code")
  /\ format = "legacy" => l.model = NoModel

Stamped(first, ts) == IF first = NoTime THEN ts ELSE first
=============================================================================
