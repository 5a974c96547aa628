---------------------------- MODULE BackendParse ----------------------------
(***************************************************************************)
(* backend/parse.py: the per-file parse state, the helpers both formats    *)
(* share and the handler of each kind of line.  n is the line's number.    *)
(* turn_has_assistant_event is left out: nothing reads it.                 *)
(***************************************************************************)
EXTENDS Wire

NoTurn == [begin |-> 0, end |-> 0, status |-> <<>>]

(* _ParseState of an empty file.  results maps a tool call id to what its  *)
(* last result said.                                                       *)
PyStart == [records |-> <<>>, uses |-> <<>>, hits |-> <<>>,
            results |-> [c \in CallId |-> "open"],
            turns |-> <<>>, turn |-> NoTurn, turnId |-> NoId,
            anchor |-> NoTime, text |-> 0, first |-> NoTime]

CloseTurnUndated(st, n) ==                                      \* mutant
  IF st.turn = NoTurn THEN st
  ELSE [st EXCEPT !.turns = Append(@, st.turn), !.turn = NoTurn]
CloseTurn(st, n) ==
  IF st.turn = NoTurn THEN st
  ELSE [st EXCEPT !.turns = Append(@, [st.turn EXCEPT !.end = n]), !.turn = NoTurn]

StartTurn(st, n) == [st EXCEPT !.turn = [NoTurn EXCEPT !.begin = n], !.text = 0]

TurnBoundary(st, n, ts) ==
  [StartTurn(CloseTurn(st, n), n) EXCEPT !.anchor = ts]

(* _consume_reply_latency: from the turn's anchor to its first record.     *)
ReplyLatency(anchor, ts) ==
  IF anchor # NoTime /\ ts # NoTime /\ ts >= anchor THEN ts - anchor ELSE NoLatency

(* Every call is an edit of one line, so its churn is one until it fails.  *)
AppendToolUses(st, n, calls) ==
  [st EXCEPT !.uses = @ \o [i \in 1 .. Len(calls) |->
                              [line |-> n, call |-> calls[i], churn |-> 1]]]

UsageRow(st, n, l) ==
  [line |-> n, ts |-> l.ts, input |-> l.input,
   model |-> ModelFor(l.model, IF l.ts # NoTime THEN l.ts ELSE st.first),
   text |-> st.text, latency |-> ReplyLatency(st.anchor, l.ts)]

UsageKeepsAnchor(st, n, l) ==                                   \* mutant
  [st EXCEPT !.records = Append(@, UsageRow(st, n, l)),
             !.turn.status = IF st.turn = NoTurn THEN @ ELSE Append(@, n)]
AppendUsageRecord(st, n, l) ==
  [st EXCEPT !.records = Append(@, UsageRow(st, n, l)),
             !.anchor = NoTime,
             !.turn.status = IF st.turn = NoTurn THEN @ ELSE Append(@, n)]

(* The flag a result is failed by: one name for each format.               *)
PyFailed(l) == (IF l.kind = "ToolResult" THEN "is_error" ELSE "isError") \in l.err

FirstResultWins(st, l) ==                                       \* mutant
  IF l.id = NoId \/ st.results[l.id] # "open" THEN st
  ELSE [st EXCEPT !.results[l.id] = IF PyFailed(l) THEN "error" ELSE "ok"]
ToolResult(st, l) ==
  IF l.id = NoId THEN st
  ELSE [st EXCEPT !.results[l.id] = IF PyFailed(l) THEN "error" ELSE "ok"]

CountText(st, l) == [st EXCEPT !.text = @ + l.text]

(* kimi-code: the handlers of _kc_dispatch.  A line's time becomes the     *)
(* first event time before its handler runs (EventTs).                     *)
EventTs(st, l) == [st EXCEPT !.first = Stamped(@, l.ts)]

AssistantLine(st, n, l) == AppendToolUses(CountText(st, l), n, l.calls)

KcStepBegin(st, n, l) ==
  IF l.turn = st.turnId THEN st
  ELSE [StartTurn(CloseTurn(st, n), n) EXCEPT !.turnId = l.turn]

KcLlmError(st, n, l) ==
  IF "quota_exhausted" \in l.err THEN [st EXCEPT !.hits = Append(@, n)] ELSE st

(* Legacy: TurnEnd closes the turn and drops an unused anchor; a           *)
(* StatusUpdate without token_usage is no billing record.                  *)
LegacyTurnEnd(st, n) ==
  IF st.turn = NoTurn THEN st
  ELSE [CloseTurn(st, n) EXCEPT !.anchor = NoTime]

LegacyStatusUpdate(st, n, l) ==
  IF l.usage THEN AppendUsageRecord(st, n, l) ELSE st

(***************************************************************************)
(* _finish_parse: the turn left open is closed, tool calls get the outcome *)
(* of their result, and each turn is represented by its last record.       *)
(***************************************************************************)
OpenTurnFirst(st) ==                                            \* mutant
  IF st.turn = NoTurn THEN st.turns ELSE <<st.turn>> \o st.turns
AllTurns(st) == CloseTurn(st, 0).turns

ToolUses(st) ==
  LET outcome(u) == IF u.call = NoId THEN "open" ELSE st.results[u.call]
  IN  [i \in DOMAIN st.uses |->
         [line |-> st.uses[i].line, outcome |-> outcome(st.uses[i]),
          churn |-> IF outcome(st.uses[i]) = "error" THEN 0 ELSE st.uses[i].churn]]

RecordAt(st, n) == CHOOSE r \in ToSet(st.records) : r.line = n

NoRecord == [line |-> 0, input |-> 0]

(* The loop of _ctx_turns_from_turns over the turns' records.              *)
NextCtx(ctx, rec) ==
  IF rec.input = 0 THEN ctx
  ELSE Append(ctx, [idx |-> Len(ctx) + 1, line |-> rec.line, input |-> rec.input,
                    delta |-> rec.input - (IF ctx = <<>> THEN 0 ELSE Last(ctx).input)])
CtxOf(recs) ==
  LET ctx[n \in 0 .. Len(recs)] ==
        IF n = 0 THEN <<>> ELSE NextCtx(ctx[n - 1], recs[n])
  IN  ctx[Len(recs)]

CtxTurnsOf(st, representative(_)) ==
  CtxOf([k \in DOMAIN AllTurns(st) |->
           IF AllTurns(st)[k].status = <<>> THEN NoRecord
           ELSE RecordAt(st, representative(AllTurns(st)[k]))])

CtxTurnsFirst(st) == CtxTurnsOf(st, LAMBDA t : t.status[1])      \* mutant
CtxTurns(st) == CtxTurnsOf(st, LAMBDA t : Last(t.status))

(***************************************************************************)
(* parse_file: which parser a file gets; "claude" raises.                  *)
(***************************************************************************)
ClaudeMark(l) == IF l.kind = "claude" THEN "claude" ELSE KimiMark(l)
FirstLineDecides(wire) ==                                       \* mutant
  IF wire = <<>> \/ ClaudeMark(wire[1]) = "none" THEN "legacy" ELSE ClaudeMark(wire[1])
PyFormat(wire) == FirstMark(wire, ClaudeMark)
=============================================================================
