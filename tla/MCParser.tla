------------------------------ MODULE MCParser ------------------------------
(***************************************************************************)
(* Transcripts for TLC, each with the lines that one part of the parsers   *)
(* tells apart.  Times 1, 2 and 3 fall before, between and after the two   *)
(* model cutoffs.                                                          *)
(***************************************************************************)
EXTENDS Parser

L(kind, ts) == [Blank EXCEPT !.kind = kind, !.ts = ts]
UsageLine(kind, ts, model, input) ==
  [L(kind, ts) EXCEPT !.model = model, !.input = input]
CallLine(kind, calls) == [L(kind, 2) EXCEPT !.calls = calls]
Reported(kind, id, err) == [L(kind, 2) EXCEPT !.id = id, !.err = err]
Said(kind, text) == [L(kind, 2) EXCEPT !.text = text]
Step(turn) == [L("step.begin", 1) EXCEPT !.turn = turn]

(* Turns, text and latency.                                                *)
TurnLines ==
  {L("turn.prompt", t) : t \in 0 .. 2} \cup {Step("t1"), Step("t2"), L("step.end", 2)}
  \cup {Said("content.part", 1)}
  \cup {UsageLine("usage.record", t, "k3", 1) : t \in {0, 1, 3}}
  \cup {UsageLine("usage.record", 2, "k3", 0)}

(* Model labels, with and without a time to go by.                         *)
ModelLines ==
  {UsageLine("usage.record", t, m, 1) : t \in 0 .. 3, m \in {"k3", "kimi-for-coding", NoModel}}
  \cup {L("metadata", 1), L("user", 3), L("other", 2)}

(* Tool calls, their results in any order, shared and missing ids.         *)
ToolLines ==
  {CallLine("tool.call", <<"c1">>), CallLine("tool.call", <<NoId>>),
   CallLine("assistant", <<"c1", "c2">>), Said("assistant", 2),
   Reported("tool.result", "c1", {"isError"}), Reported("tool.result", "c1", {"is_error"}),
   Reported("tool.result", "c1", {}),
   Reported("tool", "c2", {"isError"}), Reported("tool", NoId, {"isError"})}

(* How a file may begin.                                                   *)
HeadLines ==
  {L("metadata", 1), L("torn", 2), L("user", 2), L("turn.steer", 2), L("other", 0),
   [L("llm.error", 2) EXCEPT !.err = {"quota_exhausted"}], L("llm.error", 2),
   L("step.begin", 1),
   UsageLine("usage.record", 3, NoModel, 1)}

LegacyLines ==
  {L("TurnBegin", 0), L("TurnBegin", 1), L("TurnEnd", 2), Said("ContentPart", 1),
   CallLine("ToolCall", <<"c1">>), Reported("ToolResult", "c1", {"is_error"}),
   Reported("ToolResult", "c1", {}),
   UsageLine("StatusUpdate", 0, NoModel, 1), UsageLine("StatusUpdate", 3, NoModel, 1),
   UsageLine("torn", 2, NoModel, 1), [L("StatusUpdate", 2) EXCEPT !.usage = FALSE]}

Write(format, letters, longest) ==
  [format |-> format, letters |-> letters, longest |-> longest]

MCSources ==
  {Write("kimi-code", TurnLines, 5), Write("kimi-code", ModelLines, 3),
   Write("kimi-code", ToolLines, 5), Write("kimi-code", HeadLines, 4),
   Write("legacy", LegacyLines, 5),
   Write("claude", {L("claude", 2), L("torn", 2), L("other", 0)}, 4)}
=============================================================================
