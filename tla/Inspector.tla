------------------------------ MODULE Inspector ------------------------------
(***************************************************************************)
(* The Inspector: what it computes from a parsed transcript, and what the  *)
(* page makes of transcripts dropped on it instead of a server's answer.   *)
(*                                                                         *)
(* A transcript is [events, meta].  An event has its line, time (NoTime    *)
(* without one), type, whether a user's text is more than blanks, whether  *)
(* a result is an error, and its place in a batch of parallel calls.  A    *)
(* meta record may be a usage record, with the wire's model and its tokens *)
(* by bucket.  Rate limits are left out: the parser makes no such records. *)
(***************************************************************************)
EXTENDS Lists

CONSTANTS
  ModelCutoff, K3Cutoff  \* dates of the model ladder

W == INSTANCE Wire WITH CallId <- {}, NoId <- 0
NoTime == W!NoTime

Bucket == {"input", "create", "read", "output"}
Lines(s) == Apply(s, LAMBDA e : e.line)

(* What the parser makes of a file; no record has a session id of its own. *)
ParsedEvent == [line : Nat, ts : Int, type : STRING, text : BOOLEAN, error : BOOLEAN,
             size : Nat, index : Nat, sid : {""}]
ParsedMeta  == [line : Nat, ts : Int, type : STRING, model : STRING, tokens : [Bucket -> Nat], sid : {""}]
ParsedFile  == [name : STRING, events : Seq(ParsedEvent), meta : Seq(ParsedMeta)]
(* The calls of one message follow each other, numbered.                   *)
Batched(events) ==
  \A i \in DOMAIN events : events[i].size > 1 /\ events[i].index = 1 =>
    \A k \in 0 .. events[i].size - 1 :
      /\ i + k \in DOMAIN events /\ events[i + k].type \in {"tool_call", "agent_spawn"}
      /\ events[i + k].size = events[i].size /\ events[i + k].index = k + 1

(***************************************************************************)
(* Usage records                                                           *)
(***************************************************************************)
usageCtxInput(u) == u["input"] + u["create"] + u["read"]
asUsageRecord(m, fallbackTs) ==
  [line |-> m.line, ts |-> m.ts, sid |-> m.sid, tokens |-> m.tokens, ctx |-> usageCtxInput(m.tokens),
   model |-> W!modelFor(m.model, IF m.ts # NoTime THEN m.ts ELSE fallbackTs)]
Usages(meta, fallbackTs) ==
  Apply(Where(meta, LAMBDA m : m.type = "status_update"), LAMBDA m : asUsageRecord(m, fallbackTs))
CostOf(u) == SumEach(Bucket, LAMBDA k : u.tokens[k] * Rate[u.model][k])

(* The header of a session: undated records take the date of the first     *)
(* event here, and only here.                                              *)
computeSessionStats(events, meta) ==
  LET dated  == Where(events, LAMBDA e : e.ts # NoTime)
      us     == Usages(meta, IF dated = <<>> THEN NoTime ELSE dated[1].ts)
      n(types) == Len(Where(events, LAMBDA e : e.type \in types))
      batches == Where(events, LAMBDA e : e.size > 1 /\ e.index = 1)
      sum(k) == SumOver(us, LAMBDA u : u.tokens[k])
  IN  [span |-> IF dated = <<>> THEN 0
                ELSE Max({e.ts : e \in ToSet(dated)}) - Min({e.ts : e \in ToSet(dated)}),
       turns |-> Len(us), userMsgs |-> n({"user_message"}),
       toolCalls |-> n({"tool_call", "agent_spawn"}), toolResults |-> n({"tool_result"}),
       errorResults |-> Len(Where(events, LAMBDA e : e.type = "tool_result" /\ e.error)),
       parallelBatches |-> Len(batches), parallelCalls |-> SumOver(batches, LAMBDA e : e.size),
       output |-> sum("output"), totalInput |-> SumOver(us, LAMBDA u : u.ctx),
       cacheRead |-> sum("read"), cost |-> SumOver(us, CostOf)]

(***************************************************************************)
(* Context growth: the last usage record of each turn                      *)
(***************************************************************************)
UserTexts(events) == Where(events, LAMBDA e : e.type = "user_message" /\ e.text)

(* One walk over user texts and usage records in line order; records       *)
(* before the first text belong to no turn.                                *)
TurnStep(acc, item) ==
  IF item.of = <<>>
  THEN [open |-> TRUE, cur |-> <<>>,
        turns |-> IF acc.cur # <<>> THEN Append(acc.turns, acc.cur) ELSE acc.turns]
  ELSE IF acc.open THEN [acc EXCEPT !.cur = @ \o item.of] ELSE acc
TurnWalk(items) ==
  LET walk[i \in 0 .. Len(items)] ==
        IF i = 0 THEN [open |-> FALSE, cur |-> <<>>, turns |-> <<>>]
        ELSE TurnStep(walk[i - 1], items[i])
  IN  walk[Len(items)]
computeTurnStats(tx) ==
  LET texts == Apply(UserTexts(tx.events), LAMBDA e : [line |-> e.line, of |-> <<>>])
      used  == Apply(Usages(tx.meta, NoTime), LAMBDA u : [line |-> u.line, of |-> <<u>>])
      end   == TurnWalk(SortedBy(texts \o used, LAMBDA item : item.line))
      turns == IF end.cur # <<>> THEN Append(end.turns, end.cur) ELSE end.turns
      lasts == Where(Apply(turns, Last), LAMBDA u : u.ctx # 0)
  IN  [i \in DOMAIN lasts |->
        [turnNum |-> i, use |-> lasts[i], first |-> i = 1,
         delta |-> IF i = 1 THEN 0 ELSE lasts[i].ctx - lasts[i - 1].ctx]]

(* The summary above the chart and the share of the window on each row.    *)
growthSummary(rows, cap) ==
  LET models == Distinct(Apply(rows, LAMBDA r : r.use.model))
      count(m) == Len(Where(rows, LAMBDA r : r.use.model = m))
  IN  [model |-> SortedBy(models, LAMBDA m : -count(m))[1], turns |-> Len(rows), cap |-> cap,
       peak |-> Max({r.use.ctx : r \in ToSet(rows)}),
       totalInput  |-> SumOver(rows, LAMBDA r : r.use.tokens["input"]),
       totalOutput |-> SumOver(rows, LAMBDA r : r.use.tokens["output"])]
severity(row, cap) ==
  LET above(pct) == 100 * row.use.ctx > pct * cap
  IN  CASE above(90) -> "over"
        [] above(75) /\ ~above(90) -> "warn"
        [] above(50) /\ ~above(75) -> "mid"
        [] ~above(50) -> ""
(* The row under the cursor, at i / den of the plot's width: rounded, and  *)
(* kept within the rows.                                                   *)
hoverRow(rows, i, den) ==
  LET idx == (2 * i * (Len(rows) - 1) + den) \div (2 * den)
  IN  rows[Max({0, Min({idx, Len(rows) - 1})}) + 1]

(***************************************************************************)
(* Transcripts as the dashboard's data                                     *)
(***************************************************************************)
(* Records of one file have no session ids; those of merged files have one *)
(* each, and all their events are kept, by session.                        *)
Live == "live"
SidOf(u) == IF u.sid = "" THEN Live ELSE u.sid
Session(tx, sid) ==
  IF tx.merged THEN Where(tx.all, LAMBDA e : e.sid = sid) ELSE tx.events
BoundaryLinesAll(tx, sid) ==                                          \* mutant
  Ascending(ToSet(Lines(Where(Session(tx, sid), LAMBDA e : e.type = "user_message"))))
BoundaryLines(tx, sid) == Ascending(ToSet(Lines(UserTexts(Session(tx, sid)))))

(* Of records in line order, the last of each turn: the last of all, or    *)
(* the next one is at or past another boundary.  Without boundaries every  *)
(* record is a turn.                                                       *)
TurnUsages(usages, bounds) ==
  LET passed(u) == Cardinality({i \in DOMAIN bounds : bounds[i] <= u.line})
      ends == {i \in DOMAIN usages : i < Len(usages) => passed(usages[i]) < passed(usages[i + 1])}
  IN  IF bounds = <<>> THEN usages ELSE At(usages, ends)

txToDashData(tx) ==
  LET all    == Usages(tx.meta, NoTime)
      of(sid) == SortedBy(Where(all, LAMBDA u : SidOf(u) = sid), LAMBDA u : u.line)
      events(sid) ==
        LET kept == Where(TurnUsages(of(sid), BoundaryLines(tx, sid)),
                          LAMBDA u : u.ts # NoTime /\ u.ctx # 0)
        IN  [i \in DOMAIN kept |->
              [ts |-> kept[i].ts, session |-> sid, turn |-> i - 1, model |-> kept[i].model,
               tokens |-> [k \in Token |-> kept[i].tokens[k]], cost |-> CostOf(kept[i]),
               ctx |-> kept[i].ctx]]
  IN  SortedBy(FlattenSeq(Apply(Distinct(Apply(all, SidOf)), events)), LAMBDA e : e.ts)

(* loadFile, and loadFiles: the metas of all files, tagged with the name   *)
(* of their own, the events by name, and the first file to inspect.        *)
OneFile(file) ==
  [events |-> file.events, meta |-> file.meta, merged |-> FALSE, all |-> <<>>]
Tagged(s, sid) == Apply(s, LAMBDA r : [r EXCEPT !.sid = sid])
Pool(files, name(_)) ==
  [events |-> files[1].events, merged |-> TRUE,
   meta |-> FlattenSeq(Apply(files, LAMBDA f : Tagged(f.meta, name(f)))),
   all  |-> FlattenSeq(Apply(files, LAMBDA f : Tagged(f.events, name(f))))]
MergedFirst(files) == Pool(files, LAMBDA f : files[1].name)           \* mutant
loadFiles(files)   == Pool(files, LAMBDA f : f.name)

(***************************************************************************)
(* The timeline: what the chips leave visible, and the row selected in it  *)
(***************************************************************************)
Chip == {"user", "asst", "think", "tool", "result"}
ChipOf(type) ==
  CASE type = "user_message"   -> {"user"}
    [] type = "assistant_text" -> {"asst"}
    [] type = "thinking"       -> {"think"}
    [] type \in {"tool_call", "agent_spawn"} -> {"tool"}
    [] type = "tool_result"    -> {"result"}
    [] OTHER                   -> {}
timeline(events, chips_) == Where(events, LAMBDA e : ChipOf(e.type) \subseteq chips_)
selected(events, chips_, row) ==
  IF row \in DOMAIN timeline(events, chips_) THEN <<timeline(events, chips_)[row]>> ELSE <<>>
=============================================================================
