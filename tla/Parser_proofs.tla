---------------------------- MODULE Parser_proofs ----------------------------
(***************************************************************************)
(* For every transcript, of any lines and length, the parse states say     *)
(* what the lines say: every billing line one record with its latency,     *)
(* text and model, every turn once in the context trace, every tool call   *)
(* its last outcome, and the page books what the backend books.            *)
(*                                                                         *)
(* First each handler is shown to do to the fields of a state what one     *)
(* table says (PyAfter, JsAfter), so that every step is Line(l).  Then     *)
(* the sets of lines that give a transcript its meaning are followed as a  *)
(* line is added: old lines keep their turn, latency and text (Stable),    *)
(* the new one finds its own in the state (Newest).  The inductive         *)
(* invariant Understood says of each field what it holds of the lines so   *)
(* far; the properties follow from it.  What a recursive function returns  *)
(* for a longer sequence (FlattenGrown, CtxGrown) is proved from the least *)
(* place at which two such functions could differ.                         *)
(***************************************************************************)
EXTENDS Parser, Sums

(***************************************************************************)
(* The greatest and the least of a set of line numbers                     *)
(***************************************************************************)
LEMMA LastInRange ==
  ASSUME NEW m \in Nat, NEW S \in SUBSET (1 .. m)
  PROVE  /\ LastIn(S) \in 0 .. m
         /\ S # {} => LastIn(S) \in S
         /\ \A j \in S : j <= LastIn(S)
         /\ S = {} => LastIn(S) = 0
<1>1. CASE S = {}
  BY <1>1 DEF LastIn
<1>2. CASE S # {}
  <2> DEFINE T == {m - j : j \in S}
  <2>1. T \in SUBSET Nat /\ T # {}
    <3>1. \A j \in S : m - j \in Nat
      OBVIOUS
    <3> QED
      BY <3>1, <1>2
  <2>2. PICK d \in T : \A e \in T : d <= e
    BY <2>1, LeastNat
  <2>3. PICK x \in S : d = m - x
    OBVIOUS
  <2>4. \A y \in S : x >= y
    BY <2>2, <2>3
  <2>5. Max(S) \in S /\ \A y \in S : Max(S) >= y
    BY <2>4 DEF Max
  <2>6. LastIn(S) = Max(S)
    BY <1>2 DEF LastIn
  <2>7. \A j \in S : j \in 1 .. m
    OBVIOUS
  <2>8. LastIn(S) \in S /\ \A j \in S : LastIn(S) >= j
    BY <2>5, <2>6
  <2>9. LastIn(S) \in 0 .. m
    <3>1. LastIn(S) \in 1 .. m
      BY <2>7, <2>8, Zenon
    <3> QED
      BY <3>1
  <2>10. ASSUME NEW j \in S PROVE j <= LastIn(S)
    <3>1. LastIn(S) >= j /\ j \in Nat /\ LastIn(S) \in Nat
      BY <2>7, <2>8, <2>9
    <3> QED
      BY <3>1
  <2> QED
    BY <2>8, <2>9, <2>10, <1>2
<1> QED
  BY <1>1, <1>2

(* A newest line is the last of any set it joins.                          *)
LEMMA LastInGrown ==
  ASSUME NEW m \in Nat, NEW S \in SUBSET (1 .. m)
  PROVE  LastIn(S \cup {m + 1}) = m + 1
<1>1. S \cup {m + 1} \in SUBSET (1 .. m + 1)
  OBVIOUS
<1>2. LastIn(S \cup {m + 1}) \in 0 .. m + 1 /\ m + 1 <= LastIn(S \cup {m + 1})
  BY <1>1, LastInRange
<1> QED
  BY <1>2

(* A set of line numbers has a least one.                                  *)
LEMMA MinRange ==
  ASSUME NEW S \in SUBSET Nat, S # {}
  PROVE  Min(S) \in S /\ \A j \in S : Min(S) <= j
BY LeastNat DEF Min

(* Adding a greater element does not change the least one.                 *)
LEMMA MinGrown ==
  ASSUME NEW m \in Nat, NEW S \in SUBSET (1 .. m), S # {}
  PROVE  Min(S \cup {m + 1}) = Min(S)
<1>1. Min(S) \in S /\ \A j \in S : Min(S) <= j
  BY MinRange
<1>2. Min(S \cup {m + 1}) \in S \cup {m + 1} /\ \A j \in S \cup {m + 1} : Min(S \cup {m + 1}) <= j
  <2>1. S \cup {m + 1} \in SUBSET Nat
    OBVIOUS
  <2> QED
    BY <2>1, MinRange
<1>3. Min(S) \in 1 .. m /\ m + 1 \in Nat
  <2>1. \A j \in S : j \in 1 .. m
    OBVIOUS
  <2>2. Min(S) \in 1 .. m
    BY <2>1, <1>1, Zenon
  <2> QED
    BY <2>2
<1>4. Min(S \cup {m + 1}) \in S
  <2>1. Min(S \cup {m + 1}) <= Min(S)
    BY <1>1, <1>2
  <2>2. Min(S \cup {m + 1}) # m + 1
    BY <2>1, <1>3
  <2> QED
    BY <2>2, <1>2
<1>5. Min(S \cup {m + 1}) \in 1 .. m
  BY <1>4
<1>6. Min(S) <= Min(S \cup {m + 1}) /\ Min(S \cup {m + 1}) <= Min(S)
  BY <1>1, <1>2, <1>4
<1> QED
  BY <1>3, <1>5, <1>6

(* The least of a single line.                                             *)
LEMMA OnlyOne == ASSUME NEW m \in Nat PROVE Min({m}) = m
BY MinRange

(***************************************************************************)
(* Sequences in order                                                      *)
(***************************************************************************)
LEMMA InOrderGrown ==
  ASSUME NEW m \in Nat, NEW S \in SUBSET (1 .. m), NEW s \in Seq(Nat), InOrder(s, S)
  PROVE  InOrder(Append(s, m + 1), S \cup {m + 1})
<1> DEFINE t == Append(s, m + 1)
<1>1. DOMAIN t = 1 .. Len(s) + 1 /\ t[Len(s) + 1] = m + 1 /\ \A i \in 1 .. Len(s) : t[i] = s[i]
  OBVIOUS
<1>2. \A i \in 1 .. Len(s) : s[i] \in S
  BY DEF InOrder, ToSet
<1>3. ToSet(t) = S \cup {m + 1}
  <2>1. ToSet(t) \subseteq S \cup {m + 1}
    BY <1>1, <1>2 DEF ToSet
  <2>2. \A x \in S : \E i \in 1 .. Len(s) : s[i] = x
    BY DEF InOrder, ToSet
  <2>3. S \cup {m + 1} \subseteq ToSet(t)
    BY <1>1, <2>2 DEF ToSet
  <2> QED
    BY <2>1, <2>3
<1>4. ASSUME NEW i \in DOMAIN t, NEW j \in DOMAIN t, i < j PROVE t[i] < t[j]
  <2>1. i \in 1 .. Len(s)
    BY <1>1, <1>4
  <2>2. CASE j \in 1 .. Len(s)
    BY <2>1, <2>2, <1>1, <1>4 DEF InOrder
  <2>3. CASE j = Len(s) + 1
    BY <2>1, <2>3, <1>1, <1>2
  <2> QED
    BY <2>2, <2>3, <1>1
<1> QED
  BY <1>3, <1>4 DEF InOrder

(* What an appended element adds to the range.                             *)
LEMMA ToSetGrown ==
  ASSUME NEW R, NEW s \in Seq(R), NEW r
  PROVE  ToSet(Append(s, r)) = ToSet(s) \cup {r}
<1>1. /\ DOMAIN Append(s, r) = 1 .. Len(s) + 1 /\ Append(s, r)[Len(s) + 1] = r
      /\ Len(s) \in Nat /\ DOMAIN s = 1 .. Len(s)
      /\ \A i \in 1 .. Len(s) : Append(s, r)[i] = s[i]
  OBVIOUS
<1> QED
  BY <1>1 DEF ToSet

(* What an appended record adds to the lines.                              *)
LEMMA LinesOfGrown ==
  ASSUME NEW R, NEW s \in Seq(R), NEW r
  PROVE  LinesOf(Append(s, r)) = Append(LinesOf(s), r.line)
<1>1. DOMAIN Append(s, r) = 1 .. Len(s) + 1
  OBVIOUS
<1>2. Len(LinesOf(s)) = Len(s)
  BY DEF LinesOf
<1> QED
  BY <1>1, <1>2 DEF LinesOf

(***************************************************************************)
(* What a line does to the two parse states, field by field                *)
(***************************************************************************)
Prompting(l) == l.kind \in {"turn.prompt", "turn.steer", "TurnBegin"}
Bills(l)     == l.kind = "usage.record" \/ (l.kind = "StatusUpdate" /\ l.usage)
Calling(l)   == l.kind \in {"assistant", "tool.call", "ToolCall"}
Answering(l) == l.kind \in {"tool", "tool.result", "ToolResult"} /\ l.id # NoId
Opens(st, l) == Prompting(l) \/ (l.kind = "step.begin" /\ l.turn # st.turnId)
Closes(st, l) == (Opens(st, l) \/ l.kind = "TurnEnd") /\ st.turn # NoTurn

CallsAt(n, calls) == [i \in 1 .. Len(calls) |-> [line |-> n, call |-> calls[i], churn |-> 1]]
Answered(results, l) == [results EXCEPT ![l.id] = IF PyFailed(l) THEN "error" ELSE "ok"]

PyAfter(st, n, l) ==
  [records |-> IF Bills(l) THEN Append(st.records, UsageRow(EventTs(st, l), n, l)) ELSE st.records,
   uses    |-> IF Calling(l) THEN st.uses \o CallsAt(n, l.calls) ELSE st.uses,
   hits    |-> IF l.kind = "llm.error" /\ "quota_exhausted" \in l.err THEN Append(st.hits, n) ELSE st.hits,
   results |-> IF Answering(l) THEN Answered(st.results, l) ELSE st.results,
   turns   |-> IF Closes(st, l) THEN Append(st.turns, [st.turn EXCEPT !.end = n]) ELSE st.turns,
   turn    |-> IF Opens(st, l) THEN [NoTurn EXCEPT !.begin = n]
               ELSE IF l.kind = "TurnEnd" THEN NoTurn
               ELSE IF Bills(l) /\ st.turn # NoTurn
                    THEN [st.turn EXCEPT !.status = Append(st.turn.status, n)]
               ELSE st.turn,
   turnId  |-> IF l.kind = "step.begin" THEN l.turn ELSE st.turnId,
   anchor  |-> IF Prompting(l) THEN l.ts
               ELSE IF Bills(l) \/ (l.kind = "TurnEnd" /\ st.turn # NoTurn) THEN NoTime
               ELSE st.anchor,
   text    |-> IF Opens(st, l) THEN 0 ELSE st.text + l.text,
   first   |-> IF l.kind = "torn" THEN st.first ELSE Stamped(st.first, l.ts)]

Record  == [line : Nat, ts : Nat, input : Nat, model : Label, text : Nat, latency : Int]
Use     == [line : Nat, call : CallId \cup {NoId}, churn : {1}]
Turn    == [begin : Nat, end : Nat, status : Seq(Nat)]
TurnIds == {NoId} \cup UNION {{l.turn : l \in s.letters} : s \in Sources}
Models  == {NoModel} \cup UNION {{l.model : l \in s.letters} : s \in Sources}

PyState ==
  [records : Seq(Record), uses : Seq(Use), hits : Seq(Nat), results : [CallId -> Outcome],
   turns : Seq(Turn), turn : Turn, turnId : TurnIds,
   anchor : Nat, text : Nat, first : Nat]

(* A line of a transcript says what its kind can say.                      *)
LEMMA LineFacts ==
  ASSUME NEW s \in Sources, NEW l \in s.letters
  PROVE  /\ IsLine(l, s.format) /\ l.turn \in TurnIds /\ l.model \in Models
         /\ l.ts \in Nat /\ l.input \in Nat /\ l.text \in Nat
         /\ l.id \in CallId \cup {NoId} /\ l.calls \in Seq(CallId \cup {NoId})
         /\ l.err \subseteq ErrorFlag /\ l.usage \in BOOLEAN
<1>1. IsLine(l, s.format)
  BY SourceAssumption
<1> QED
  BY <1>1 DEF IsLine, TurnIds, Models

(* The ladder always names one of the three models.                        *)
LEMMA LadderLabels ==
  ASSUME NEW model, NEW ts
  PROVE  ModelFor(model, ts) \in Label
BY DEF ModelFor, Ladder, Label

(* A parse state by its fields, so that each helper is a change of some.   *)
St(records, uses, hits, results, turns, turn, turnId, anchor, text, first) ==
  [records |-> records, uses |-> uses, hits |-> hits, results |-> results,
   turns |-> turns, turn |-> turn, turnId |-> turnId,
   anchor |-> anchor, text |-> text, first |-> first]

Closed(e, f, n) == IF f # NoTurn THEN Append(e, [f EXCEPT !.end = n]) ELSE e

(* Closing a turn changes the list of turns and the turn.                  *)
LEMMA CloseTurnFields ==
  ASSUME NEW a, NEW b, NEW c, NEW d, NEW e, NEW f, NEW g, NEW h, NEW i, NEW j, NEW n
  PROVE  CloseTurn(St(a, b, c, d, e, f, g, h, i, j), n)
           = St(a, b, c, d, Closed(e, f, n), NoTurn, g, h, i, j)
<1>1. CASE f = NoTurn
  BY <1>1 DEF St, CloseTurn, Closed
<1>2. CASE f # NoTurn
  <2> DEFINE x == Closed(e, f, n)
             y == NoTurn
  <2>1. CloseTurn(St(a, b, c, d, e, f, g, h, i, j), n)
        = [[St(a, b, c, d, e, f, g, h, i, j) EXCEPT !.turns = x] EXCEPT !.turn = y]
    BY <1>2 DEF St, CloseTurn, Closed
  <2> HIDE DEF x, y
  <2>2. [St(a, b, c, d, e, f, g, h, i, j) EXCEPT !.turns = x] = St(a, b, c, d, x, f, g, h, i, j)
    BY DEF St
  <2>3. [St(a, b, c, d, x, f, g, h, i, j) EXCEPT !.turn = y] = St(a, b, c, d, x, y, g, h, i, j)
    BY DEF St
  <2> QED
    BY <2>1, <2>2, <2>3, <1>2, Zenon DEF x, y
<1> QED
  BY <1>1, <1>2

(* Starting a turn changes the turn and the text.                          *)
LEMMA StartTurnFields ==
  ASSUME NEW a, NEW b, NEW c, NEW d, NEW e, NEW f, NEW g, NEW h, NEW i, NEW j, NEW n
  PROVE  StartTurn(St(a, b, c, d, e, f, g, h, i, j), n)
           = St(a, b, c, d, e, [NoTurn EXCEPT !.begin = n], g, h, 0, j)
<1> DEFINE x == [NoTurn EXCEPT !.begin = n]
           y == 0
<1>1. StartTurn(St(a, b, c, d, e, f, g, h, i, j), n)
      = [[St(a, b, c, d, e, f, g, h, i, j) EXCEPT !.turn = x] EXCEPT !.text = y]
  BY DEF St, StartTurn
<1> HIDE DEF x, y
<1>2. [St(a, b, c, d, e, f, g, h, i, j) EXCEPT !.turn = x] = St(a, b, c, d, e, x, g, h, i, j)
  BY DEF St
<1>3. [St(a, b, c, d, e, x, g, h, i, j) EXCEPT !.text = y] = St(a, b, c, d, e, x, g, h, y, j)
  BY DEF St
<1> QED
  BY <1>1, <1>2, <1>3, Zenon DEF x, y

(* A stamped line changes the first time.                                  *)
LEMMA EventTsFields ==
  ASSUME NEW a, NEW b, NEW c, NEW d, NEW e, NEW f, NEW g, NEW h, NEW i, NEW j, NEW l
  PROVE  EventTs(St(a, b, c, d, e, f, g, h, i, j), l)
           = St(a, b, c, d, e, f, g, h, i, Stamped(j, l.ts))
<1> DEFINE x == Stamped(j, l.ts)
<1>1. EventTs(St(a, b, c, d, e, f, g, h, i, j), l)
      = [St(a, b, c, d, e, f, g, h, i, j) EXCEPT !.first = x]
  BY DEF St, EventTs
<1> HIDE DEF x
<1>2. [St(a, b, c, d, e, f, g, h, i, j) EXCEPT !.first = x] = St(a, b, c, d, e, f, g, h, i, x)
  BY DEF St
<1> QED
  BY <1>1, <1>2, Zenon DEF x

(* A text changes the text.                                                *)
LEMMA CountTextFields ==
  ASSUME NEW a, NEW b, NEW c, NEW d, NEW e, NEW f, NEW g, NEW h, NEW i, NEW j, NEW l
  PROVE  CountText(St(a, b, c, d, e, f, g, h, i, j), l)
           = St(a, b, c, d, e, f, g, h, i + l.text, j)
BY DEF St, CountText

(* Calls are added to the tool uses.                                       *)
LEMMA ToolUsesFields ==
  ASSUME NEW a, NEW b, NEW c, NEW d, NEW e, NEW f, NEW g, NEW h, NEW i, NEW j, NEW n, NEW calls
  PROVE  AppendToolUses(St(a, b, c, d, e, f, g, h, i, j), n, calls)
           = St(a, b \o CallsAt(n, calls), c, d, e, f, g, h, i, j)
<1> DEFINE x == b \o CallsAt(n, calls)
<1>1. AppendToolUses(St(a, b, c, d, e, f, g, h, i, j), n, calls)
      = [St(a, b, c, d, e, f, g, h, i, j) EXCEPT !.uses = x]
  BY DEF St, AppendToolUses, CallsAt
<1> HIDE DEF x
<1>2. [St(a, b, c, d, e, f, g, h, i, j) EXCEPT !.uses = x] = St(a, x, c, d, e, f, g, h, i, j)
  BY DEF St
<1> QED
  BY <1>1, <1>2, Zenon DEF x

(* An error may be a hit of the rate limit.                                *)
LEMMA KcLlmErrorFields ==
  ASSUME NEW a, NEW b, NEW c, NEW d, NEW e, NEW f, NEW g, NEW h, NEW i, NEW j, NEW n, NEW l
  PROVE  KcLlmError(St(a, b, c, d, e, f, g, h, i, j), n, l)
           = St(a, b, IF "quota_exhausted" \in l.err THEN Append(c, n) ELSE c, d, e, f, g, h, i, j)
<1>1. CASE "quota_exhausted" \notin l.err
  BY <1>1 DEF KcLlmError
<1>2. CASE "quota_exhausted" \in l.err
  <2> DEFINE x == Append(c, n)
  <2>1. KcLlmError(St(a, b, c, d, e, f, g, h, i, j), n, l)
        = [St(a, b, c, d, e, f, g, h, i, j) EXCEPT !.hits = x]
    BY <1>2 DEF St, KcLlmError
  <2> HIDE DEF x
  <2>2. [St(a, b, c, d, e, f, g, h, i, j) EXCEPT !.hits = x] = St(a, b, x, d, e, f, g, h, i, j)
    BY DEF St
  <2> QED
    BY <2>1, <2>2, <1>2, Zenon DEF x
<1> QED
  BY <1>1, <1>2

(* A result changes the outcomes.                                          *)
LEMMA ToolResultFields ==
  ASSUME NEW a, NEW b, NEW c, NEW d, NEW e, NEW f, NEW g, NEW h, NEW i, NEW j, NEW l
  PROVE  ToolResult(St(a, b, c, d, e, f, g, h, i, j), l)
           = St(a, b, c, IF l.id # NoId THEN Answered(d, l) ELSE d, e, f, g, h, i, j)
<1>1. CASE l.id = NoId
  BY <1>1 DEF ToolResult
<1>2. CASE l.id # NoId
  <2> DEFINE x == Answered(d, l)
  <2>1. ToolResult(St(a, b, c, d, e, f, g, h, i, j), l)
        = [St(a, b, c, d, e, f, g, h, i, j) EXCEPT !.results = x]
    BY <1>2 DEF St, ToolResult, Answered
  <2> HIDE DEF x
  <2>2. [St(a, b, c, d, e, f, g, h, i, j) EXCEPT !.results = x] = St(a, b, c, x, e, f, g, h, i, j)
    BY DEF St
  <2> QED
    BY <2>1, <2>2, <1>2, Zenon DEF x
<1> QED
  BY <1>1, <1>2

Booked(f, n) == IF f # NoTurn THEN [f EXCEPT !.status = Append(f.status, n)] ELSE f

(* A billing line changes records, anchor and turn.                        *)
LEMMA UsageFields ==
  ASSUME NEW a, NEW b, NEW c, NEW d, NEW e, NEW f, NEW g, NEW h, NEW i, NEW j, NEW n, NEW l, f \in Turn
  PROVE  AppendUsageRecord(St(a, b, c, d, e, f, g, h, i, j), n, l)
           = St(Append(a, UsageRow(St(a, b, c, d, e, f, g, h, i, j), n, l)), b, c, d, e, Booked(f, n), g, NoTime, i, j)
<1> DEFINE x == Append(a, UsageRow(St(a, b, c, d, e, f, g, h, i, j), n, l))
           y == NoTime
           z == Booked(f, n)
<1>1. AppendUsageRecord(St(a, b, c, d, e, f, g, h, i, j), n, l)
      = [[[St(a, b, c, d, e, f, g, h, i, j) EXCEPT !.records = x] EXCEPT !.anchor = y] EXCEPT !.turn = z]
  BY DEF St, AppendUsageRecord, Booked, Turn
<1> HIDE DEF x, y, z
<1>2. [St(a, b, c, d, e, f, g, h, i, j) EXCEPT !.records = x] = St(x, b, c, d, e, f, g, h, i, j)
  BY DEF St
<1>3. [St(x, b, c, d, e, f, g, h, i, j) EXCEPT !.anchor = y] = St(x, b, c, d, e, f, g, y, i, j)
  BY DEF St
<1>4. [St(x, b, c, d, e, f, g, y, i, j) EXCEPT !.turn = z] = St(x, b, c, d, e, z, g, y, i, j)
  BY DEF St
<1> QED
  BY <1>1, <1>2, <1>3, <1>4, Zenon DEF x, y, z

(* The anchor alone.                                                       *)
LEMMA SetAnchor ==
  ASSUME NEW a, NEW b, NEW c, NEW d, NEW e, NEW f, NEW g, NEW h, NEW i, NEW j, NEW v
  PROVE  [St(a, b, c, d, e, f, g, h, i, j) EXCEPT !.anchor = v] = St(a, b, c, d, e, f, g, v, i, j)
BY DEF St

(* The turn id alone.                                                      *)
LEMMA SetTurnId ==
  ASSUME NEW a, NEW b, NEW c, NEW d, NEW e, NEW f, NEW g, NEW h, NEW i, NEW j, NEW v
  PROVE  [St(a, b, c, d, e, f, g, h, i, j) EXCEPT !.turnId = v] = St(a, b, c, d, e, f, v, h, i, j)
BY DEF St

(* Every handler of parse.py makes of a state what PyAfter says.           *)
LEMMA PyLine ==
  ASSUME NEW st \in PyState, NEW n \in Nat, NEW l, NEW s \in Sources, l \in s.letters
  PROVE  /\ Prompting(l) => TurnBoundary(EventTs(st, l), n, l.ts) = PyAfter(st, n, l)
         /\ Calling(l) => AssistantLine(EventTs(st, l), n, l) = PyAfter(st, n, l)
         /\ l.kind \in {"content.part", "ContentPart"} => CountText(EventTs(st, l), l) = PyAfter(st, n, l)
         /\ l.kind \in {"tool", "tool.result", "ToolResult"} => ToolResult(EventTs(st, l), l) = PyAfter(st, n, l)
         /\ l.kind \in {"user", "step.end", "metadata", "other", "claude"} => EventTs(st, l) = PyAfter(st, n, l)
         /\ l.kind = "step.begin" => KcStepBegin(EventTs(st, l), n, l) = PyAfter(st, n, l)
         /\ l.kind = "usage.record" => AppendUsageRecord(EventTs(st, l), n, l) = PyAfter(st, n, l)
         /\ l.kind = "llm.error" => KcLlmError(EventTs(st, l), n, l) = PyAfter(st, n, l)
         /\ l.kind = "TurnEnd" => LegacyTurnEnd(EventTs(st, l), n) = PyAfter(st, n, l)
         /\ l.kind = "StatusUpdate" => LegacyStatusUpdate(EventTs(st, l), n, l) = PyAfter(st, n, l)
         /\ l.kind = "torn" => st = PyAfter(st, n, l)
<1>0. PICK a \in Seq(Record), b \in Seq(Use), c \in Seq(Nat), d \in [CallId -> Outcome],
           e \in Seq(Turn), f \in Turn, g \in TurnIds, h \in Nat, i \in Nat, j \in Nat :
        st = St(a, b, c, d, e, f, g, h, i, j)
  BY DEF PyState, St
<1> DEFINE x == Closed(e, f, n)
           o == [NoTurn EXCEPT !.begin = n]
           z == Stamped(j, l.ts)
           r == UsageRow(EventTs(st, l), n, l)
<1>1. /\ st.records = a /\ st.uses = b /\ st.hits = c /\ st.results = d /\ st.turns = e
      /\ st.turn = f /\ st.turnId = g /\ st.anchor = h /\ st.text = i /\ st.first = j
  BY <1>0 DEF St
<1>2. l.text \in Nat /\ IsLine(l, s.format)
  BY LineFacts
<1>3. EventTs(st, l) = St(a, b, c, d, e, f, g, h, i, z)
  BY <1>0, EventTsFields
<1>4. l.kind \notin {"assistant", "content.part", "ContentPart"} => i + l.text = i
  BY <1>2 DEF IsLine
<1> HIDE DEF o, z, r
<1>5. CloseTurn(EventTs(st, l), n) = St(a, b, c, d, x, NoTurn, g, h, i, z)
  BY <1>3, CloseTurnFields
<1> HIDE DEF x
<1> USE DEF o
<1>6. StartTurn(CloseTurn(EventTs(st, l), n), n) = St(a, b, c, d, x, o, g, h, 0, z)
  BY <1>5, StartTurnFields
<1> HIDE DEF o
<1>11. ASSUME Prompting(l) PROVE TurnBoundary(EventTs(st, l), n, l.ts) = PyAfter(st, n, l)
  <2>1. TurnBoundary(EventTs(st, l), n, l.ts)
          = St(a, b, c, d, x, o, g, l.ts, 0, z)
    BY <1>6, SetAnchor DEF TurnBoundary
  <2>2. /\ Prompting(l) /\ ~Calling(l) /\ ~Bills(l) /\ ~Answering(l) /\ Opens(st, l)
        /\ l.kind \notin {"torn", "llm.error", "step.begin", "TurnEnd"}
    BY <1>11 DEF Prompting, Opens, Calling, Bills, Answering
  <2>4. l.kind \notin {"assistant", "content.part", "ContentPart"}
    BY <1>11 DEF Prompting
  <2> QED
    BY <1>1, <1>4, <1>11, <2>1, <2>2, <2>4, Zenon DEF PyAfter, St, Closes, Closed, x, o, z
<1>12. ASSUME Calling(l) PROVE AssistantLine(EventTs(st, l), n, l) = PyAfter(st, n, l)
  <2>1. AssistantLine(EventTs(st, l), n, l)
          = St(a, b \o CallsAt(n, l.calls), c, d, e, f, g, h, i + l.text, z)
    BY <1>3, CountTextFields, ToolUsesFields DEF AssistantLine
  <2>2. /\ ~Prompting(l) /\ Calling(l) /\ ~Bills(l) /\ ~Answering(l) /\ ~Opens(st, l)
        /\ l.kind \notin {"torn", "llm.error", "step.begin", "TurnEnd"}
    BY <1>12 DEF Prompting, Opens, Calling, Bills, Answering
  <2> QED
    BY <1>1, <1>12, <2>1, <2>2, Zenon DEF PyAfter, St, Closes, Closed, x, o, z
<1>13. ASSUME l.kind \in {"content.part", "ContentPart"} PROVE CountText(EventTs(st, l), l) = PyAfter(st, n, l)
  <2>1. CountText(EventTs(st, l), l)
          = St(a, b, c, d, e, f, g, h, i + l.text, z)
    BY <1>3, CountTextFields
  <2>2. /\ ~Prompting(l) /\ ~Calling(l) /\ ~Bills(l) /\ ~Answering(l) /\ ~Opens(st, l)
        /\ l.kind \notin {"torn", "llm.error", "step.begin", "TurnEnd"}
    BY <1>13 DEF Prompting, Opens, Calling, Bills, Answering
  <2> QED
    BY <1>1, <1>13, <2>1, <2>2, Zenon DEF PyAfter, St, Closes, Closed, x, o, z
<1>14. ASSUME l.kind \in {"tool", "tool.result", "ToolResult"} PROVE ToolResult(EventTs(st, l), l) = PyAfter(st, n, l)
  <2>1. ToolResult(EventTs(st, l), l)
          = St(a, b, c, IF Answering(l) THEN Answered(d, l) ELSE d, e, f, g, h, i, z)
    BY <1>14, <1>3, ToolResultFields DEF Answering
  <2>2. /\ ~Prompting(l) /\ ~Calling(l) /\ ~Bills(l) /\ ~Opens(st, l)
        /\ l.kind \notin {"torn", "llm.error", "step.begin", "TurnEnd"}
    BY <1>14 DEF Prompting, Opens, Calling, Bills, Answering
  <2>4. l.kind \notin {"assistant", "content.part", "ContentPart"}
    BY <1>14 DEF Prompting
  <2> QED
    BY <1>1, <1>4, <1>14, <2>1, <2>2, <2>4, Zenon DEF PyAfter, St, Closes, Closed, x, o, z
<1>15. ASSUME l.kind \in {"user", "step.end", "metadata", "other", "claude"} PROVE EventTs(st, l) = PyAfter(st, n, l)
  <2>1. EventTs(st, l)
          = St(a, b, c, d, e, f, g, h, i, z)
    BY <1>3
  <2>2. /\ ~Prompting(l) /\ ~Calling(l) /\ ~Bills(l) /\ ~Answering(l) /\ ~Opens(st, l)
        /\ l.kind \notin {"torn", "llm.error", "step.begin", "TurnEnd"}
    BY <1>15 DEF Prompting, Opens, Calling, Bills, Answering
  <2>4. l.kind \notin {"assistant", "content.part", "ContentPart"}
    BY <1>15 DEF Prompting
  <2> QED
    BY <1>1, <1>4, <1>15, <2>1, <2>2, <2>4, Zenon DEF PyAfter, St, Closes, Closed, x, o, z
<1>16. ASSUME l.kind = "step.begin" /\ l.turn = st.turnId PROVE KcStepBegin(EventTs(st, l), n, l) = PyAfter(st, n, l)
  <2>1. KcStepBegin(EventTs(st, l), n, l)
          = St(a, b, c, d, e, f, l.turn, h, i, z)
    BY <1>16, <1>1, <1>3 DEF KcStepBegin, St
  <2>2. /\ ~Prompting(l) /\ ~Calling(l) /\ ~Bills(l) /\ ~Answering(l) /\ ~Opens(st, l)
        /\ l.kind \notin {"torn", "llm.error", "TurnEnd"}
    BY <1>16 DEF Prompting, Opens, Calling, Bills, Answering
  <2>4. l.kind \notin {"assistant", "content.part", "ContentPart"}
    BY <1>16 DEF Prompting
  <2> QED
    BY <1>1, <1>4, <1>16, <2>1, <2>2, <2>4, Zenon DEF PyAfter, St, Closes, Closed, x, o, z
<1>17. ASSUME l.kind = "step.begin" /\ l.turn # st.turnId PROVE KcStepBegin(EventTs(st, l), n, l) = PyAfter(st, n, l)
  <2>1. KcStepBegin(EventTs(st, l), n, l)
          = St(a, b, c, d, x, o, l.turn, h, 0, z)
    <3>1. KcStepBegin(EventTs(st, l), n, l)
            = [StartTurn(CloseTurn(EventTs(st, l), n), n) EXCEPT !.turnId = l.turn]
      BY <1>17, <1>1, <1>3 DEF KcStepBegin, St
    <3>2. [St(a, b, c, d, x, o, g, h, 0, z) EXCEPT !.turnId = l.turn]
            = St(a, b, c, d, x, o, l.turn, h, 0, z)
      BY SetTurnId
    <3> QED
      BY <3>1, <3>2, <1>6, Zenon
  <2>2. /\ ~Prompting(l) /\ ~Calling(l) /\ ~Bills(l) /\ ~Answering(l) /\ Opens(st, l)
        /\ l.kind \notin {"torn", "llm.error", "TurnEnd"}
    BY <1>17 DEF Prompting, Opens, Calling, Bills, Answering
  <2>4. l.kind \notin {"assistant", "content.part", "ContentPart"}
    BY <1>17 DEF Prompting
  <2> QED
    BY <1>1, <1>4, <1>17, <2>1, <2>2, <2>4, Zenon DEF PyAfter, St, Closes, Closed, x, o, z
<1>18. ASSUME l.kind = "usage.record" PROVE AppendUsageRecord(EventTs(st, l), n, l) = PyAfter(st, n, l)
  <2>1. AppendUsageRecord(EventTs(st, l), n, l)
          = St(Append(a, r), b, c, d, e, Booked(f, n), g, NoTime, i, z)
    BY <1>3, UsageFields DEF r
  <2>2. /\ ~Prompting(l) /\ ~Calling(l) /\ Bills(l) /\ ~Answering(l) /\ ~Opens(st, l)
        /\ l.kind \notin {"torn", "llm.error", "step.begin", "TurnEnd"}
    BY <1>18 DEF Prompting, Opens, Calling, Bills, Answering
  <2>4. l.kind \notin {"assistant", "content.part", "ContentPart"}
    BY <1>18 DEF Prompting
  <2> QED
    BY <1>1, <1>4, <1>18, <2>1, <2>2, <2>4, Zenon DEF PyAfter, St, Closes, Closed, x, o, z, r, Booked
<1>19. ASSUME l.kind = "llm.error" PROVE KcLlmError(EventTs(st, l), n, l) = PyAfter(st, n, l)
  <2>1. KcLlmError(EventTs(st, l), n, l)
          = St(a, b, IF "quota_exhausted" \in l.err THEN Append(c, n) ELSE c, d, e, f, g, h, i, z)
    BY <1>3, KcLlmErrorFields
  <2>2. /\ ~Prompting(l) /\ ~Calling(l) /\ ~Bills(l) /\ ~Answering(l) /\ ~Opens(st, l)
        /\ l.kind \notin {"torn", "step.begin", "TurnEnd"}
    BY <1>19 DEF Prompting, Opens, Calling, Bills, Answering
  <2>4. l.kind \notin {"assistant", "content.part", "ContentPart"}
    BY <1>19 DEF Prompting
  <2> QED
    BY <1>1, <1>4, <1>19, <2>1, <2>2, <2>4, Zenon DEF PyAfter, St, Closes, Closed, x, o, z
<1>20. ASSUME l.kind = "TurnEnd" PROVE LegacyTurnEnd(EventTs(st, l), n) = PyAfter(st, n, l)
  <2>1. LegacyTurnEnd(EventTs(st, l), n)
          = St(a, b, c, d, x, NoTurn, g, IF f # NoTurn THEN NoTime ELSE h, i, z)
    <3>0. EventTs(st, l).turn = f
      BY <1>3 DEF St
    <3>1. CASE f = NoTurn
      BY <3>0, <3>1, <1>3 DEF LegacyTurnEnd, x, Closed
    <3>2. CASE f # NoTurn
      <4>1. LegacyTurnEnd(EventTs(st, l), n) = [CloseTurn(EventTs(st, l), n) EXCEPT !.anchor = NoTime]
        BY <3>0, <3>2 DEF LegacyTurnEnd
      <4> QED
        BY <4>1, <3>2, <1>5, SetAnchor
    <3> QED
      BY <3>1, <3>2
  <2>2. /\ ~Prompting(l) /\ ~Calling(l) /\ ~Bills(l) /\ ~Answering(l) /\ ~Opens(st, l)
        /\ l.kind \notin {"torn", "llm.error", "step.begin"}
    BY <1>20 DEF Prompting, Opens, Calling, Bills, Answering
  <2>4. l.kind \notin {"assistant", "content.part", "ContentPart"}
    BY <1>20 DEF Prompting
  <2> QED
    BY <1>1, <1>4, <1>20, <2>1, <2>2, <2>4, Zenon DEF PyAfter, St, Closes, Closed, x, o, z
<1>21. ASSUME l.kind = "StatusUpdate" PROVE LegacyStatusUpdate(EventTs(st, l), n, l) = PyAfter(st, n, l)
  <2>1. LegacyStatusUpdate(EventTs(st, l), n, l)
          = St(IF l.usage THEN Append(a, r) ELSE a, b, c, d, e, IF l.usage THEN Booked(f, n) ELSE f, g, IF l.usage THEN NoTime ELSE h, i, z)
    <3>1. CASE l.usage
      <4>1. LegacyStatusUpdate(EventTs(st, l), n, l) = AppendUsageRecord(EventTs(st, l), n, l)
        BY <3>1 DEF LegacyStatusUpdate
      <4>2. AppendUsageRecord(EventTs(st, l), n, l) = St(Append(a, r), b, c, d, e, Booked(f, n), g, NoTime, i, z)
        BY <1>3, UsageFields DEF r
      <4> QED
        BY <3>1, <4>1, <4>2
    <3>2. CASE ~l.usage
      BY <3>2, <1>3 DEF LegacyStatusUpdate
    <3> QED
      BY <3>1, <3>2
  <2>2. /\ ~Prompting(l) /\ ~Calling(l) /\ ~Answering(l) /\ ~Opens(st, l)
        /\ l.kind \notin {"torn", "llm.error", "step.begin", "TurnEnd"}
    BY <1>21 DEF Prompting, Opens, Calling, Bills, Answering
  <2>3. Bills(l) <=> l.usage
    BY <1>21 DEF Bills
  <2>4. l.kind \notin {"assistant", "content.part", "ContentPart"}
    BY <1>21 DEF Prompting
  <2> QED
    BY <1>1, <1>4, <1>21, <2>1, <2>2, <2>3, <2>4, Zenon DEF PyAfter, St, Closes, Closed, x, o, z, r, Booked
<1>22. ASSUME l.kind = "torn" PROVE st = PyAfter(st, n, l)
  <2>1. st
          = St(a, b, c, d, e, f, g, h, i, j)
    BY <1>0
  <2>2. /\ ~Prompting(l) /\ ~Calling(l) /\ ~Bills(l) /\ ~Answering(l) /\ ~Opens(st, l)
        /\ l.kind \notin {"llm.error", "step.begin", "TurnEnd"}
    BY <1>22 DEF Prompting, Opens, Calling, Bills, Answering
  <2>4. l.kind \notin {"assistant", "content.part", "ContentPart"}
    BY <1>22 DEF Prompting
  <2> QED
    BY <1>1, <1>4, <1>22, <2>1, <2>2, <2>4, Zenon DEF PyAfter, St, Closes, Closed, x, o, z
<1> QED
  BY <1>11, <1>12, <1>13, <1>14, <1>15, <1>16, <1>17, <1>18, <1>19, <1>20, <1>21, <1>22, Zenon

(* No turn at all has the type of a turn.                                  *)
LEMMA EmptyTurn == NoTurn \in Turn
BY DEF NoTurn, Turn

(* No line spoils the types of the backend's state.                        *)
LEMMA PyAfterTyped ==
  ASSUME NEW st \in PyState, NEW n \in Nat, NEW l, NEW s \in Sources, l \in s.letters
  PROVE  PyAfter(st, n, l) \in PyState
<1> DEFINE p == PyAfter(st, n, l)
<1>1. /\ st.records \in Seq(Record) /\ st.uses \in Seq(Use) /\ st.hits \in Seq(Nat)
      /\ st.results \in [CallId -> Outcome] /\ st.turns \in Seq(Turn) /\ st.turn \in Turn
      /\ st.turnId \in TurnIds /\ st.anchor \in Nat /\ st.text \in Nat /\ st.first \in Nat
  BY DEF PyState
<1>2. /\ l.turn \in TurnIds /\ l.ts \in Nat /\ l.input \in Nat /\ l.text \in Nat
      /\ l.id \in CallId \cup {NoId} /\ l.calls \in Seq(CallId \cup {NoId})
      /\ l.model \in Models
  BY LineFacts
<1>3. EventTs(st, l).text = st.text /\ EventTs(st, l).anchor = st.anchor
  BY DEF EventTs, PyState
<1>4. UsageRow(EventTs(st, l), n, l) \in Record
  <2>1. ReplyLatency(st.anchor, l.ts) \in Int
    BY <1>1, <1>2 DEF ReplyLatency, NoLatency
  <2> QED
    BY <1>1, <1>2, <1>3, <2>1, LadderLabels DEF UsageRow, Record
<1>5. CallsAt(n, l.calls) \in Seq(Use)
  <2>1. ASSUME NEW k \in 1 .. Len(l.calls)
        PROVE  [line |-> n, call |-> l.calls[k], churn |-> 1] \in Use
    <3>1. l.calls[k] \in CallId \cup {NoId}
      BY <1>2
    <3> QED
      BY <3>1 DEF Use
  <2>2. Len(l.calls) \in Nat
    BY <1>2
  <2> QED
    BY <2>1, <2>2 DEF CallsAt
<1>6. [st.turn EXCEPT !.end = n] \in Turn
  BY <1>1 DEF Turn
<1>7. [st.turn EXCEPT !.status = Append(st.turn.status, n)] \in Turn
  <2>1. Append(st.turn.status, n) \in Seq(Nat)
    BY <1>1 DEF Turn
  <2> QED
    BY <1>1, <2>1 DEF Turn
<1>8. [NoTurn EXCEPT !.begin = n] \in Turn
  BY EmptyTurn DEF Turn
<1>9. Stamped(st.first, l.ts) \in Nat
  BY <1>1, <1>2 DEF Stamped
<1>10. Answering(l) => Answered(st.results, l) \in [CallId -> Outcome]
  BY <1>1, <1>2 DEF Answering, Answered, Outcome
<1> HIDE DEF Record, Use, Turn
<1>11. p.records \in Seq(Record) /\ p.uses \in Seq(Use) /\ p.hits \in Seq(Nat)
  BY <1>1, <1>4, <1>5 DEF PyAfter
<1>12. p.results \in [CallId -> Outcome]
  BY <1>1, <1>10 DEF PyAfter
<1>13. p.turns \in Seq(Turn)
  BY <1>1, <1>6 DEF PyAfter
<1>14. p.turn \in Turn
  BY <1>1, <1>7, <1>8, EmptyTurn DEF PyAfter
<1>15. p.turnId \in TurnIds /\ p.anchor \in Nat /\ p.text \in Nat /\ p.first \in Nat
  BY <1>1, <1>2, <1>9 DEF PyAfter, NoTime
<1>16. p = [records |-> p.records, uses |-> p.uses, hits |-> p.hits, results |-> p.results,
            turns |-> p.turns, turn |-> p.turn, turnId |-> p.turnId,
            anchor |-> p.anchor, text |-> p.text, first |-> p.first]
  BY DEF PyAfter
<1> HIDE DEF p
<1>17. [records |-> p.records, uses |-> p.uses, hits |-> p.hits, results |-> p.results,
        turns |-> p.turns, turn |-> p.turn, turnId |-> p.turnId,
        anchor |-> p.anchor, text |-> p.text, first |-> p.first] \in PyState
  BY <1>11, <1>12, <1>13, <1>14, <1>15, Zenon DEF PyState
<1>18. p \in PyState
  BY <1>16, <1>17, Zenon
<1> QED
  BY <1>18 DEF p

(***************************************************************************)
(* The page's parser: the fields its records and result rows come from     *)
(***************************************************************************)
Meta1 == [line : Nat, ts : Nat, model : Models, input : Nat, latency : Int]
Row == [line : Nat, call : CallId \cup {NoId}, failed : BOOLEAN]
JsFields == DOMAIN JsStart

JsState(st) ==
  /\ DOMAIN st = JsFields
  /\ st.metas \in Seq(Meta1) /\ st.rows \in Seq(Row)
  /\ st.results \in [CallId -> Outcome] /\ st.called \subseteq CallId /\ st.pending \in Nat

MetaAt(n, l, model, input, latency) ==
  [line |-> n, ts |-> l.ts, model |-> model, input |-> input, latency |-> latency]
Resulting(l) == l.kind \in {"tool", "tool.result", "ToolResult"}
RowAt(n, l) == [line |-> n, call |-> l.id, failed |-> JsFailed(l)]
JsAnswered(results, l) == [results EXCEPT ![l.id] = IF JsFailed(l) THEN "error" ELSE "ok"]
Named(calls) == ToSet(calls) \ {NoId}

JsAfter(st, st2, n, l, format) ==
  /\ DOMAIN st2 = JsFields
  /\ st2.metas =
       IF l.kind = "usage.record"
         THEN Append(st.metas, MetaAt(n, l, l.model, l.input, jsLatency(st, l.ts)))
       ELSE IF l.kind = "StatusUpdate" \/ (l.kind = "torn" /\ format = "legacy")
         THEN Append(st.metas, MetaAt(n, l, NoModel, IF l.usage THEN l.input ELSE 0, NoLatency))
       ELSE st.metas
  /\ st2.rows = IF Resulting(l) THEN Append(st.rows, RowAt(n, l)) ELSE st.rows
  /\ st2.results = IF Answering(l) THEN JsAnswered(st.results, l) ELSE st.results
  /\ st2.called = IF l.kind = "ToolCall" THEN st.called \cup Named(l.calls) ELSE st.called
  /\ st2.pending = IF Prompting(l) THEN l.ts
                   ELSE IF l.kind \in {"usage.record", "TurnEnd"} THEN NoTime
                   ELSE st.pending

(* A change of the fields the records and rows do not come from.           *)
JsSame(st, st2) ==
  /\ DOMAIN st2 = JsFields
  /\ st2.metas = st.metas /\ st2.rows = st.rows
  /\ st2.results = st.results /\ st2.called = st.called /\ st2.pending = st.pending

(* What the handlers that book nothing leave alone.                        *)
LEMMA JsQuiet ==
  ASSUME NEW st, DOMAIN st = JsFields, NEW ts, NEW l
  PROVE  /\ JsSame(st, Event(st, ts)) /\ JsSame(st, Meta(st, ts))
         /\ JsSame(st, startTurn(st)) /\ JsSame(st, closeTurn(st, ts))
         /\ JsSame(st, jsPart(st, l)) /\ JsSame(st, jsStepBegin(st, l))
<1>1. ASSUME NEW st1, DOMAIN st1 = JsFields, NEW t PROVE JsSame(st1, Event(st1, t))
  BY <1>1 DEF JsSame, Event, JsFields, JsStart
<1>2. ASSUME NEW st1, DOMAIN st1 = JsFields, NEW t PROVE JsSame(st1, Meta(st1, t))
  BY <1>2 DEF JsSame, Meta, JsFields, JsStart
<1>3. ASSUME NEW st1, DOMAIN st1 = JsFields PROVE JsSame(st1, startTurn(st1))
  BY <1>3 DEF JsSame, startTurn, JsFields, JsStart
<1>4. ASSUME NEW st1, DOMAIN st1 = JsFields, NEW t PROVE JsSame(st1, closeTurn(st1, t))
  <2>0. DOMAIN Meta(st1, t) = JsFields /\ JsSame(st1, Meta(st1, t))
    BY <1>2, <1>4 DEF JsSame
  <2>1. JsSame(Meta(st1, t), [Meta(st1, t) EXCEPT !.open = FALSE])
    BY <2>0 DEF JsSame, JsFields, JsStart
  <2>2. JsSame(st1, st1)
    BY <1>4 DEF JsSame
  <2> QED
    BY <2>0, <2>1, <2>2 DEF closeTurn, JsSame
<1>5. JsSame(st, jsPart(st, l))
  <2> DEFINE u == [st EXCEPT !.text = st.text + l.text]
  <2>1. JsSame(st, u)
    BY DEF JsSame, JsFields, JsStart
  <2>2. jsPart(st, l) = Event(u, l.ts)
    BY DEF jsPart
  <2> HIDE DEF u
  <2> QED
    BY <2>1, <2>2, <1>1 DEF JsSame
<1>6. JsSame(st, jsStepBegin(st, l))
  <2> DEFINE u == IF <<l.turn>> = st.turnId THEN st
                  ELSE [startTurn(closeTurn(st, l.ts)) EXCEPT !.turnId = <<l.turn>>]
  <2>1. JsSame(st, startTurn(closeTurn(st, l.ts)))
    BY <1>3, <1>4 DEF JsSame
  <2>2. JsSame(st, [startTurn(closeTurn(st, l.ts)) EXCEPT !.turnId = <<l.turn>>])
    BY <2>1 DEF JsSame, JsFields, JsStart
  <2>3. JsSame(st, u)
    BY <2>2 DEF JsSame
  <2>4. jsStepBegin(st, l) = Meta(u, l.ts)
    BY DEF jsStepBegin
  <2> HIDE DEF u
  <2> QED
    BY <2>3, <2>4, <1>2 DEF JsSame
<1> QED
  BY <1>1, <1>2, <1>3, <1>4, <1>5, <1>6

(* What each line does to the page's parse state.                          *)
LEMMA JsLine ==
  ASSUME NEW st, JsState(st), NEW n \in Nat, NEW l, NEW s \in Sources, l \in s.letters
  PROVE  LET After(st2) == JsAfter(st, st2, n, l, s.format)
         IN
         /\ l.kind \in {"turn.prompt", "turn.steer"} => After(jsPrompt(st, l))
         /\ l.kind \in {"assistant", "tool.call"} => After(jsAssistant(st, l))
         /\ l.kind \in {"content.part", "ContentPart"} => After(jsPart(st, l))
         /\ l.kind \in {"tool", "tool.result", "ToolResult"} => After(jsToolResult(st, n, l))
         /\ l.kind = "user" => After(Event(st, l.ts))
         /\ l.kind = "ToolCall" => After(jsLegacyToolCall(st, l))
         /\ l.kind = "step.begin" => After(jsStepBegin(st, l))
         /\ l.kind = "step.end" => After(closeTurn(st, l.ts))
         /\ l.kind = "usage.record" => After(jsKcUsage(st, n, l))
         /\ l.kind \in {"llm.error", "metadata", "other", "claude"} => After(st)
         /\ l.kind = "TurnBegin" => After(jsTurnBegin(st, l))
         /\ l.kind = "TurnEnd" => After(jsTurnEnd(st, l))
         /\ l.kind = "StatusUpdate" => After(jsStatusUpdate(st, n, l))
         /\ l.kind = "torn" /\ s.format = "legacy" => After(jsStatusUpdate(st, n, l))
         /\ l.kind = "torn" /\ s.format # "legacy" => After(st) /\ After(Meta(st, l.ts))
         /\ l.kind \in {"other", "claude"} => After(Meta(st, l.ts))
<1>0. DOMAIN st = JsFields /\ JsSame(st, st)
  BY DEF JsState, JsSame
<1>1. \A ts : /\ JsSame(st, Event(st, ts)) /\ JsSame(st, Meta(st, ts))
              /\ JsSame(st, startTurn(st)) /\ JsSame(st, closeTurn(st, ts))
              /\ JsSame(st, jsPart(st, l)) /\ JsSame(st, jsStepBegin(st, l))
  BY <1>0, JsQuiet
<1>2. ASSUME NEW st2, JsSame(st, st2),
             l.kind \in {"assistant", "tool.call", "content.part", "ContentPart", "user", "step.begin", "step.end",
                         "llm.error", "metadata", "other", "claude"}
               \/ (l.kind = "torn" /\ s.format # "legacy")
      PROVE  JsAfter(st, st2, n, l, s.format)
  BY <1>2 DEF JsSame, JsAfter, Answering, Resulting, Prompting
<1>3. ASSUME NEW u, NEW ts, DOMAIN u = JsFields
      PROVE  JsSame(u, Event(u, ts)) /\ JsSame(u, Meta(u, ts)) /\ JsSame(u, startTurn(u))
  BY <1>3, JsQuiet
<1>4. ASSUME l.kind \in {"turn.prompt", "turn.steer"} PROVE JsAfter(st, jsPrompt(st, l), n, l, s.format)
  <2> DEFINE u == startTurn(closeTurn(st, l.ts))
             v == [u EXCEPT !.pending = l.ts]
  <2>1. JsSame(st, u)
    BY <1>1, <1>3 DEF JsSame
  <2>2. jsPrompt(st, l) = Event(v, l.ts)
    BY DEF jsPrompt
  <2> HIDE DEF u
  <2>3. /\ DOMAIN v = JsFields /\ v.metas = u.metas /\ v.rows = u.rows /\ v.results = u.results
        /\ v.called = u.called /\ v.pending = l.ts
    BY <2>1 DEF JsSame, JsFields, JsStart
  <2> HIDE DEF v
  <2>4. JsSame(v, Event(v, l.ts))
    BY <2>3, <1>3
  <2> QED
    BY <1>4, <2>1, <2>2, <2>3, <2>4 DEF JsSame, JsAfter, Answering, Resulting, Prompting
<1>5. ASSUME l.kind \in {"assistant", "tool.call"} PROVE JsAfter(st, jsAssistant(st, l), n, l, s.format)
  <2> DEFINE v == [st EXCEPT !.text = st.text + l.text]
  <2>1. jsAssistant(st, l) \in {v, Event(v, l.ts)}
    BY DEF jsAssistant
  <2>2. JsSame(st, v)
    BY <1>0 DEF JsSame, JsFields, JsStart
  <2> HIDE DEF v
  <2>3. JsSame(v, Event(v, l.ts))
    BY <2>2, <1>3 DEF JsSame
  <2>4. JsSame(st, Event(v, l.ts))
    BY <2>2, <2>3 DEF JsSame
  <2> QED
    BY <1>5, <1>2, <2>1, <2>2, <2>4
<1>6. ASSUME Resulting(l) PROVE JsAfter(st, jsToolResult(st, n, l), n, l, s.format)
  <2> DEFINE r == RowAt(n, l)
             u == [st EXCEPT !.rows = Append(st.rows, r)]
             a == JsAnswered(st.results, l)
             v == IF l.id = NoId THEN u ELSE [u EXCEPT !.results = a]
  <2>1. jsToolResult(st, n, l) = Event(v, l.ts)
    <3>1. u.results = st.results
      BY <1>0 DEF JsFields, JsStart
    <3>2. l.id # NoId => [u EXCEPT !.results[l.id] = IF JsFailed(l) THEN "error" ELSE "ok"]
                           = [u EXCEPT !.results = a]
      BY <3>1 DEF JsAnswered
    <3>3. jsToolResult(st, n, l)
            = Event(IF l.id = NoId THEN u
                    ELSE [u EXCEPT !.results[l.id] = IF JsFailed(l) THEN "error" ELSE "ok"], l.ts)
      BY DEF jsToolResult, RowAt
    <3> QED
      BY <3>2, <3>3
  <2> HIDE DEF r, a
  <2>2. /\ DOMAIN u = JsFields /\ u.metas = st.metas /\ u.rows = Append(st.rows, r)
        /\ u.results = st.results /\ u.called = st.called /\ u.pending = st.pending
    BY <1>0 DEF JsFields, JsStart
  <2> HIDE DEF u
  <2>3. /\ DOMAIN v = JsFields /\ v.metas = u.metas /\ v.rows = u.rows
        /\ v.results = (IF l.id = NoId THEN u.results ELSE a)
        /\ v.called = u.called /\ v.pending = u.pending
    BY <2>2 DEF JsFields, JsStart
  <2> HIDE DEF v
  <2>4. JsSame(v, Event(v, l.ts))
    BY <2>3, <1>3
  <2> QED
    BY <1>6, <2>1, <2>2, <2>3, <2>4 DEF JsSame, JsAfter, Answering, Resulting, Prompting, r, a
<1>12. ASSUME l.kind = "ToolCall" PROVE JsAfter(st, jsLegacyToolCall(st, l), n, l, s.format)
  <2> DEFINE c == st.called \cup Named(l.calls)
             v == [st EXCEPT !.called = c]
  <2>1. jsLegacyToolCall(st, l) = Event(v, l.ts)
    BY DEF jsLegacyToolCall, Named
  <2> HIDE DEF c
  <2>2. /\ DOMAIN v = JsFields /\ v.metas = st.metas /\ v.rows = st.rows
        /\ v.results = st.results /\ v.called = c /\ v.pending = st.pending
    BY <1>0 DEF JsFields, JsStart
  <2> HIDE DEF v
  <2>3. JsSame(v, Event(v, l.ts))
    BY <2>2, <1>3
  <2> QED
    BY <1>12, <2>1, <2>2, <2>3 DEF JsSame, JsAfter, Answering, Resulting, Prompting, c
<1>7. ASSUME NEW k, NEW lat
      PROVE  LET v == jsUsage(st, n, k, lat)
             IN  /\ DOMAIN v = JsFields /\ v.rows = st.rows /\ v.results = st.results /\ v.called = st.called
                 /\ v.pending = st.pending
                 /\ v.metas = Append(st.metas, MetaAt(n, k, k.model, k.input, lat))
  <2> DEFINE m == MetaAt(n, k, k.model, k.input, lat)
             u == [st EXCEPT !.metas = Append(st.metas, m)]
  <2>1. jsUsage(st, n, k, lat) = Meta(u, k.ts)
    BY DEF jsUsage, MetaAt
  <2> HIDE DEF m
  <2>2. /\ DOMAIN u = JsFields /\ u.rows = st.rows /\ u.results = st.results /\ u.called = st.called
        /\ u.pending = st.pending /\ u.metas = Append(st.metas, m)
    BY <1>0 DEF JsFields, JsStart
  <2> HIDE DEF u
  <2>3. JsSame(u, Meta(u, k.ts))
    BY <2>2, <1>3
  <2> QED
    BY <2>1, <2>2, <2>3 DEF JsSame, m
<1>8. ASSUME l.kind = "usage.record" PROVE JsAfter(st, jsKcUsage(st, n, l), n, l, s.format)
  <2> DEFINE u == jsUsage(st, n, l, jsLatency(st, l.ts))
             v == [u EXCEPT !.pending = NoTime]
  <2>1. /\ DOMAIN u = JsFields /\ u.rows = st.rows /\ u.results = st.results /\ u.called = st.called
        /\ u.metas = Append(st.metas, MetaAt(n, l, l.model, l.input, jsLatency(st, l.ts)))
    BY <1>7
  <2> HIDE DEF u
  <2>2. /\ DOMAIN v = JsFields /\ v.rows = u.rows /\ v.results = u.results /\ v.metas = u.metas
        /\ v.called = u.called
        /\ v.pending = NoTime
    BY <2>1 DEF JsFields, JsStart
  <2>3. jsKcUsage(st, n, l) = v
    BY DEF jsKcUsage, u
  <2> HIDE DEF v
  <2> QED
    BY <1>8, <2>1, <2>2, <2>3 DEF JsAfter, Answering, Resulting, Prompting
<1>9. ASSUME l.kind = "TurnBegin" PROVE JsAfter(st, jsTurnBegin(st, l), n, l, s.format)
  <2> DEFINE u == startTurn(st)
             v == [u EXCEPT !.pending = l.ts]
  <2>1. JsSame(st, u)
    BY <1>1
  <2>2. jsTurnBegin(st, l) = Meta(Event(v, l.ts), l.ts)
    BY DEF jsTurnBegin
  <2> HIDE DEF u
  <2>3. /\ DOMAIN v = JsFields /\ v.metas = u.metas /\ v.rows = u.rows /\ v.results = u.results
        /\ v.called = u.called /\ v.pending = l.ts
    BY <2>1 DEF JsSame, JsFields, JsStart
  <2> HIDE DEF v
  <2>4. JsSame(v, Meta(Event(v, l.ts), l.ts))
    BY <2>3, <1>3 DEF JsSame
  <2> QED
    BY <1>9, <2>1, <2>2, <2>3, <2>4 DEF JsSame, JsAfter, Answering, Resulting, Prompting
<1>10. ASSUME l.kind = "TurnEnd" PROVE JsAfter(st, jsTurnEnd(st, l), n, l, s.format)
  <2> DEFINE v == [st EXCEPT !.open = FALSE, !.pending = NoTime]
  <2>1. jsTurnEnd(st, l) = Meta(v, l.ts)
    BY DEF jsTurnEnd
  <2>2. /\ DOMAIN v = JsFields /\ v.metas = st.metas /\ v.rows = st.rows
        /\ v.results = st.results /\ v.called = st.called /\ v.pending = NoTime
    BY <1>0 DEF JsFields, JsStart
  <2> HIDE DEF v
  <2>3. JsSame(v, Meta(v, l.ts))
    BY <2>2, <1>3
  <2> QED
    BY <1>10, <2>1, <2>2, <2>3 DEF JsSame, JsAfter, Answering, Resulting, Prompting
<1>11. ASSUME l.kind = "StatusUpdate" \/ (l.kind = "torn" /\ s.format = "legacy")
       PROVE  JsAfter(st, jsStatusUpdate(st, n, l), n, l, s.format)
  <2> DEFINE k == [l EXCEPT !.model = NoModel, !.input = IF l.usage THEN l.input ELSE 0]
  <2>1. k.model = NoModel /\ k.input = (IF l.usage THEN l.input ELSE 0) /\ k.ts = l.ts
    BY SourceAssumption DEF IsLine, Blank
  <2>2. jsStatusUpdate(st, n, l) = jsUsage(st, n, k, NoLatency)
    BY DEF jsStatusUpdate
  <2> HIDE DEF k
  <2>3. MetaAt(n, k, k.model, k.input, NoLatency)
          = MetaAt(n, l, NoModel, IF l.usage THEN l.input ELSE 0, NoLatency)
    BY <2>1 DEF MetaAt
  <2> DEFINE v == jsUsage(st, n, k, NoLatency)
  <2>4. /\ DOMAIN v = JsFields /\ v.rows = st.rows /\ v.results = st.results /\ v.called = st.called
        /\ v.pending = st.pending
        /\ v.metas = Append(st.metas, MetaAt(n, k, k.model, k.input, NoLatency))
    BY <1>7
  <2> HIDE DEF v
  <2>5. jsStatusUpdate(st, n, l) = v
    BY <2>2 DEF v
  <2> QED
    BY <1>11, <2>3, <2>4, <2>5 DEF JsAfter, Answering, Resulting, Prompting
<1> QED
  BY <1>0, <1>1, <1>2, <1>4, <1>5, <1>6, <1>8, <1>9, <1>10, <1>11, <1>12 DEF Resulting

(* No line spoils the types of the page's state.                           *)
LEMMA JsAfterTyped ==
  ASSUME NEW st, JsState(st), NEW n \in Nat, NEW l, NEW s \in Sources, l \in s.letters,
         NEW st2, JsAfter(st, st2, n, l, s.format)
  PROVE  JsState(st2)
<1>1. /\ l.ts \in Nat /\ l.input \in Nat /\ l.model \in Models /\ NoModel \in Models
      /\ l.id \in CallId \cup {NoId} /\ l.calls \in Seq(CallId \cup {NoId})
  BY LineFacts DEF Models
<1>2. jsLatency(st, l.ts) \in Int /\ NoLatency \in Int /\ 0 \in Nat
  BY <1>1 DEF jsLatency, NoLatency, JsState
<1>3. \A model \in Models, input \in Nat, latency \in Int : MetaAt(n, l, model, input, latency) \in Meta1
  BY <1>1 DEF MetaAt, Meta1
<1>4. Resulting(l) => RowAt(n, l) \in Row
  <2>1. JsFailed(l) \in BOOLEAN
    BY Zenon DEF JsFailed
  <2> QED
    BY <1>1, <2>1 DEF RowAt, Row
<1>5. Answering(l) => JsAnswered(st.results, l) \in [CallId -> Outcome]
  BY <1>1 DEF Answering, JsAnswered, Outcome, JsState
<1>8. Named(l.calls) \subseteq CallId
  <2>1. ToSet(l.calls) \subseteq CallId \cup {NoId}
    BY <1>1 DEF ToSet
  <2> QED
    BY <2>1 DEF Named
<1> HIDE DEF Meta1, Row
<1>6. st2.metas \in Seq(Meta1)
  <2>1. MetaAt(n, l, l.model, l.input, jsLatency(st, l.ts)) \in Meta1
    BY <1>1, <1>2, <1>3
  <2>2. MetaAt(n, l, NoModel, IF l.usage THEN l.input ELSE 0, NoLatency) \in Meta1
    BY <1>1, <1>2, <1>3
  <2> QED
    BY <2>1, <2>2 DEF JsAfter, JsState
<1>7. st2.rows \in Seq(Row)
  BY <1>4 DEF JsAfter, JsState
<1>9. st2.called \subseteq CallId
  BY <1>8 DEF JsAfter, JsState
<1>10. st2.results \in [CallId -> Outcome] /\ st2.pending \in Nat
  BY <1>1, <1>5 DEF JsAfter, JsState, NoTime
<1> QED
  BY <1>6, <1>7, <1>9, <1>10 DEF JsAfter, JsState

(***************************************************************************)
(* Every step reads one line                                               *)
(***************************************************************************)
TInv ==
  /\ source \in Sources
  /\ wire \in Seq(source.letters) /\ Len(wire) <= source.longest
  /\ py \in PyState
  /\ JsState(js)

(* The line a step adds, and what both parsers made of it.                 *)
Line(l) ==
  /\ l \in source.letters /\ Len(wire) < source.longest
  /\ source' = source /\ wire' = Append(wire, l)
  /\ py' = PyAfter(py, N, l)
  /\ JsAfter(js, js', N, l, source.format)

(* Each action reads one line into both states.                            *)
LEMMA EveryStep ==
  ASSUME TInv, Next
  PROVE  \E l \in source.letters : Line(l)
<1>0. /\ py \in PyState /\ JsState(js) /\ source \in Sources /\ N \in Nat /\ Len(wire) \in Nat
      /\ source.longest \in Nat
  BY SourceAssumption DEF TInv, N
<1> PICK l \in source.letters :
    \/ Prompt(l) \/ Assistant(l) \/ ContentPart(l) \/ Result(l) \/ UserMessage(l)
    \/ StepBegin(l) \/ StepEnd(l) \/ Usage(l) \/ LlmError(l)
    \/ TurnBegin(l) \/ TurnEnd(l) \/ LegacyContentPart(l) \/ LegacyToolCall(l)
    \/ LegacyToolResult(l) \/ StatusUpdate(l)
    \/ Metadata(l) \/ Torn(l) \/ Unhandled(l)
  BY DEF Next
<1>1. ASSUME NEW kinds, Reads(l, kinds), py' = PyAfter(py, N, l), JsAfter(js, js', N, l, source.format)
      PROVE  Line(l)
  BY <1>1, <1>0 DEF Reads, Line, N
<1> DEFINE st == py
           st2 == js
<1>2. /\ Prompting(l) => TurnBoundary(EventTs(py, l), N, l.ts) = PyAfter(py, N, l)
      /\ Calling(l) => AssistantLine(EventTs(py, l), N, l) = PyAfter(py, N, l)
      /\ l.kind \in {"content.part", "ContentPart"} => CountText(EventTs(py, l), l) = PyAfter(py, N, l)
      /\ l.kind \in {"tool", "tool.result", "ToolResult"} => ToolResult(EventTs(py, l), l) = PyAfter(py, N, l)
      /\ l.kind \in {"user", "step.end", "metadata", "other", "claude"} => EventTs(py, l) = PyAfter(py, N, l)
      /\ l.kind = "step.begin" => KcStepBegin(EventTs(py, l), N, l) = PyAfter(py, N, l)
      /\ l.kind = "usage.record" => AppendUsageRecord(EventTs(py, l), N, l) = PyAfter(py, N, l)
      /\ l.kind = "llm.error" => KcLlmError(EventTs(py, l), N, l) = PyAfter(py, N, l)
      /\ l.kind = "TurnEnd" => LegacyTurnEnd(EventTs(py, l), N) = PyAfter(py, N, l)
      /\ l.kind = "StatusUpdate" => LegacyStatusUpdate(EventTs(py, l), N, l) = PyAfter(py, N, l)
      /\ l.kind = "torn" => py = PyAfter(py, N, l)
  BY <1>0, PyLine
<1> DEFINE After(st3) == JsAfter(js, st3, N, l, source.format)
<1>3. /\ l.kind \in {"turn.prompt", "turn.steer"} => After(jsPrompt(js, l))
      /\ l.kind \in {"assistant", "tool.call"} => After(jsAssistant(js, l))
      /\ l.kind \in {"content.part", "ContentPart"} => After(jsPart(js, l))
      /\ l.kind \in {"tool", "tool.result", "ToolResult"} => After(jsToolResult(js, N, l))
      /\ l.kind = "user" => After(Event(js, l.ts))
      /\ l.kind = "ToolCall" => After(jsLegacyToolCall(js, l))
      /\ l.kind = "step.begin" => After(jsStepBegin(js, l))
      /\ l.kind = "step.end" => After(closeTurn(js, l.ts))
      /\ l.kind = "usage.record" => After(jsKcUsage(js, N, l))
      /\ l.kind \in {"llm.error", "metadata", "other", "claude"} => After(js)
      /\ l.kind = "TurnBegin" => After(jsTurnBegin(js, l))
      /\ l.kind = "TurnEnd" => After(jsTurnEnd(js, l))
      /\ l.kind = "StatusUpdate" => After(jsStatusUpdate(js, N, l))
      /\ l.kind = "torn" /\ source.format = "legacy" => After(jsStatusUpdate(js, N, l))
      /\ l.kind = "torn" /\ source.format # "legacy" => After(js) /\ After(Meta(js, l.ts))
      /\ l.kind \in {"other", "claude"} => After(Meta(js, l.ts))
  BY <1>0, JsLine
<1>4. CASE Prompt(l)
  BY <1>4, <1>2, <1>3, <1>1 DEF Prompt, Reads, Prompting
<1>5. CASE Assistant(l)
  BY <1>5, <1>2, <1>3, <1>1 DEF Assistant, Reads, Calling
<1>6. CASE ContentPart(l)
  BY <1>6, <1>2, <1>3, <1>1 DEF ContentPart, Reads
<1>7. CASE Result(l)
  BY <1>7, <1>2, <1>3, <1>1 DEF Result, Reads
<1>8. CASE UserMessage(l)
  BY <1>8, <1>2, <1>3, <1>1 DEF UserMessage, Reads
<1>9. CASE StepBegin(l)
  BY <1>9, <1>2, <1>3, <1>1 DEF StepBegin, Reads
<1>10. CASE StepEnd(l)
  BY <1>10, <1>2, <1>3, <1>1 DEF StepEnd, Reads
<1>11. CASE Usage(l)
  BY <1>11, <1>2, <1>3, <1>1 DEF Usage, Reads
<1>12. CASE LlmError(l)
  BY <1>12, <1>2, <1>3, <1>1 DEF LlmError, Reads
<1>13. CASE TurnBegin(l)
  BY <1>13, <1>2, <1>3, <1>1 DEF TurnBegin, Reads, Prompting
<1>14. CASE TurnEnd(l)
  BY <1>14, <1>2, <1>3, <1>1 DEF TurnEnd, Reads
<1>15. CASE LegacyContentPart(l)
  BY <1>15, <1>2, <1>3, <1>1 DEF LegacyContentPart, Reads
<1>16. CASE LegacyToolCall(l)
  BY <1>16, <1>2, <1>3, <1>1 DEF LegacyToolCall, Reads, Calling
<1>17. CASE LegacyToolResult(l)
  BY <1>17, <1>2, <1>3, <1>1 DEF LegacyToolResult, Reads
<1>18. CASE StatusUpdate(l)
  BY <1>18, <1>2, <1>3, <1>1 DEF StatusUpdate, Reads
<1>19. CASE Metadata(l)
  BY <1>19, <1>2, <1>3, <1>1 DEF Metadata, Reads
<1>20. CASE Torn(l)
  <2>1. source.format \in {"kimi-code", "legacy", "claude"}
    BY <1>0, SourceAssumption
  <2>2. After(js')
    BY <2>1, <1>20, <1>3 DEF Torn, Reads
  <2> QED
    BY <2>2, <1>20, <1>2, <1>1 DEF Torn, Reads
<1>21. CASE Unhandled(l)
  BY <1>21, <1>2, <1>3, <1>1 DEF Unhandled, Reads
<1> QED
  BY <1>4, <1>5, <1>6, <1>7, <1>8, <1>9, <1>10, <1>11, <1>12, <1>13, <1>14, <1>15, <1>16,
     <1>17, <1>18, <1>19, <1>20, <1>21

(* The empty file is well typed.                                           *)
LEMMA TInvInit == Init => TInv
<1> SUFFICES ASSUME Init PROVE TInv
  OBVIOUS
<1>1. NoId \in TurnIds /\ NoTurn \in Turn
  BY EmptyTurn DEF TurnIds
<1>2. [c \in CallId |-> "open"] \in [CallId -> Outcome]
  BY DEF Outcome
<1>3. py \in PyState
  BY <1>1, <1>2 DEF Init, PyStart, PyState, NoTime
<1>4. JsState(js)
  BY <1>2 DEF Init, JsStart, JsState, JsFields, NoTime
<1>5. 0 <= source.longest
  BY SourceAssumption DEF Init
<1> QED
  BY <1>3, <1>4, <1>5 DEF Init, TInv

(* One more line is well typed.                                            *)
LEMMA TInvLine ==
  ASSUME TInv, NEW l \in source.letters, Line(l)
  PROVE  TInv'
<1>1. /\ N \in Nat /\ source \in Sources /\ wire \in Seq(source.letters) /\ source.longest \in Nat
      /\ Len(wire) \in Nat
  BY SourceAssumption DEF TInv, N
<1>2. PyAfter(py, N, l) \in PyState
  BY <1>1, PyAfterTyped DEF TInv
<1>3. JsState(js)'
  BY <1>1, JsAfterTyped DEF TInv, Line
<1> QED
  BY <1>1, <1>2, <1>3 DEF TInv, Line

(* Lines and both parse states keep their types.                           *)
LEMMA TInvAlways == Spec => []TInv
<1>1. TInv /\ [Next]_vars => TInv'
  <2> SUFFICES ASSUME TInv, [Next]_vars PROVE TInv'
    OBVIOUS
  <2>1. CASE Next
    BY <2>1, EveryStep, TInvLine
  <2>2. CASE UNCHANGED vars
    BY <2>2 DEF vars, TInv, JsState
  <2> QED
    BY <2>1, <2>2
<1> QED
  BY TInvInit, <1>1, PTL DEF Spec

(***************************************************************************)
(* How the sets of lines grow                                              *)
(***************************************************************************)
Steps == Lines({"step.begin"})
Says  == Lines({"assistant", "content.part", "ContentPart"})

(* The turn id the parser remembers is that of the last step.begin.        *)
StepKnown ==
  LET b == LastIn(Steps) IN py.turnId = IF b = 0 THEN NoId ELSE wire[b].turn

(* The lines before the new one stay where they are.                       *)
LEMMA Growth ==
  ASSUME TInv, NEW l \in source.letters, Line(l)
  PROVE  /\ Len(wire) \in Nat /\ N = Len(wire) + 1
         /\ DOMAIN wire = 1 .. Len(wire) /\ DOMAIN wire' = 1 .. N
         /\ \A i \in 1 .. Len(wire) : wire'[i] = wire[i]
         /\ wire'[N] = l
         /\ \A i \in 1 .. Len(wire) : wire[i] \in source.letters
BY DEF TInv, Line, N

(* Lines of a kind, when one is added.                                     *)
LEMMA LinesGrow ==
  ASSUME TInv, NEW l \in source.letters, Line(l), NEW K
  PROVE  /\ Lines(K) \in SUBSET (1 .. Len(wire))
         /\ l.kind \in K => Lines(K)' = Lines(K) \cup {N}
         /\ l.kind \notin K => Lines(K)' = Lines(K)
BY Growth DEF Lines

(* The new line is not before an old one.                                  *)
LEMMA UpGrown ==
  ASSUME NEW m \in Nat, NEW S \in SUBSET (1 .. m), NEW R, R = S \/ R = S \cup {m + 1},
         NEW i \in 0 .. m
  PROVE  Up(R, i) = Up(S, i)
<1>1. ~(m + 1 <= i)
  OBVIOUS
<1> QED
  BY <1>1 DEF Up

(* Every line is up to the last.                                           *)
LEMMA UpAll ==
  ASSUME NEW m \in Nat, NEW S \in SUBSET (1 .. m)
  PROVE  Up(S, m) = S
<1>1. \A j \in S : j <= m
  OBVIOUS
<1> QED
  BY <1>1 DEF Up

(* Prompts, ends, records and starts, when a line is added.                *)
LEMMA SetsGrow ==
  ASSUME TInv, StepKnown, NEW l \in source.letters, Line(l)
  PROVE  /\ Prompts \in SUBSET (1 .. Len(wire)) /\ Ends \in SUBSET (1 .. Len(wire))
         /\ Billed \in SUBSET (1 .. Len(wire)) /\ Starts \in SUBSET (1 .. Len(wire))
         /\ Says \in SUBSET (1 .. Len(wire)) /\ Steps \in SUBSET (1 .. Len(wire))
         /\ Prompts' = IF Prompting(l) THEN Prompts \cup {N} ELSE Prompts
         /\ Ends' = IF l.kind = "TurnEnd" THEN Ends \cup {N} ELSE Ends
         /\ Billed' = IF Bills(l) THEN Billed \cup {N} ELSE Billed
         /\ Starts' = IF Opens(py, l) THEN Starts \cup {N} ELSE Starts
         /\ Says' = IF l.kind \in {"assistant", "content.part", "ContentPart"}
                    THEN Says \cup {N} ELSE Says
         /\ Steps' = IF l.kind = "step.begin" THEN Steps \cup {N} ELSE Steps
<1> PICK m \in Nat : m = Len(wire)
  BY Growth
<1>0. /\ m \in Nat /\ N = m + 1
      /\ DOMAIN wire = 1 .. m /\ DOMAIN wire' = 1 .. N
      /\ \A i \in 1 .. m : wire'[i] = wire[i]
      /\ wire'[N] = l
  BY Growth
<1>1. Prompts \in SUBSET (1 .. m) /\ Prompts' = IF Prompting(l) THEN Prompts \cup {N} ELSE Prompts
  BY LinesGrow DEF Prompts, Prompting
<1>2. Ends \in SUBSET (1 .. m) /\ Ends' = IF l.kind = "TurnEnd" THEN Ends \cup {N} ELSE Ends
  BY LinesGrow DEF Ends
<1>3. Says \in SUBSET (1 .. m)
      /\ Says' = IF l.kind \in {"assistant", "content.part", "ContentPart"} THEN Says \cup {N} ELSE Says
  BY LinesGrow DEF Says
<1>4. Steps \in SUBSET (1 .. m) /\ Steps' = IF l.kind = "step.begin" THEN Steps \cup {N} ELSE Steps
  BY LinesGrow DEF Steps
<1>5. Billed \in SUBSET (1 .. m) /\ Billed' = IF Bills(l) THEN Billed \cup {N} ELSE Billed
  BY <1>0, LinesGrow DEF Billed, Bills, Lines
<1>14. ASSUME NEW i \in 0 .. m PROVE Up(Steps', i) = Up(Steps, i)
  <2>1. Steps \in SUBSET (1 .. m) /\ Steps' \in {Steps, Steps \cup {m + 1}}
    BY <1>0, <1>4
  <2> QED
    BY <2>1, UpGrown
<1>15. Up(Steps, m) = Steps
  BY <1>4, UpAll
<1> DEFINE before(i) == LastIn(Up(Steps, i - 1))
           Fresh(i) == wire[i].turn # (IF before(i) = 0 THEN NoId ELSE wire[before(i)].turn)
<1>6. Starts = Prompts \cup {i \in Steps : Fresh(i)}
  BY DEF Starts, Steps
<1>7. Starts' = Prompts' \cup {i \in Steps' : Fresh(i)'}
  BY DEF Starts, Steps
<1>8. ASSUME NEW i \in 1 .. m PROVE Fresh(i)' <=> Fresh(i)
  <2>1. Up(Steps', i - 1) = Up(Steps, i - 1)
    <3>1. i - 1 \in 0 .. m
      OBVIOUS
    <3> QED
      BY <3>1, <1>14
  <2>2. before(i)' = before(i)
    BY <2>1
  <2>3. before(i) \in 0 .. m
    <3>1. Up(Steps, i - 1) \in SUBSET (1 .. m)
      BY <1>4 DEF Up
    <3> QED
      BY <1>0, <3>1, LastInRange
  <2> QED
    BY <1>0, <2>2, <2>3
<1>9. Fresh(m + 1)' <=> l.turn # py.turnId
  <2>1. Up(Steps', m + 1 - 1) = Steps
    <3>1. m + 1 - 1 = m
      OBVIOUS
    <3> QED
      BY <3>1, <1>14, <1>15
  <2>2. before(m + 1)' = LastIn(Steps)
    BY <2>1
  <2>3. LastIn(Steps) \in 0 .. m
    BY <1>0, <1>4, LastInRange
  <2> QED
    BY <1>0, <2>2, <2>3 DEF StepKnown
<1> HIDE DEF Fresh
<1>10. \A i \in Steps : Fresh(i)' <=> Fresh(i)
  BY <1>4, <1>8
<1>11. \A i \in Prompts : i # m + 1
  BY <1>1
<1>12. Starts' = IF Opens(py, l) THEN Starts \cup {N} ELSE Starts
  <2>1. CASE l.kind = "step.begin"
    <3>1. ~Prompting(l) /\ (Opens(py, l) <=> l.turn # py.turnId)
      BY <2>1 DEF Prompting, Opens
    <3>2. Prompts' = Prompts /\ Steps' = Steps \cup {m + 1}
      BY <2>1, <3>1, <1>0, <1>1, <1>4
    <3>3. {i \in Steps' : Fresh(i)'} = {i \in Steps : Fresh(i)} \cup (IF Fresh(m + 1)' THEN {m + 1} ELSE {})
      BY <3>2, <1>10
    <3> QED
      BY <3>1, <3>2, <3>3, <1>0, <1>6, <1>7, <1>9
  <2>2. CASE l.kind # "step.begin"
    <3>1. Steps' = Steps /\ (Opens(py, l) <=> Prompting(l))
      BY <2>2, <1>4 DEF Opens
    <3>2. {i \in Steps' : Fresh(i)'} = {i \in Steps : Fresh(i)}
      BY <3>1, <1>10
    <3> QED
      BY <3>1, <3>2, <1>1, <1>6, <1>7
  <2> QED
    BY <2>1, <2>2
<1>13. Starts \in SUBSET (1 .. m)
  BY <1>1, <1>4, <1>6
<1> QED
  BY <1>1, <1>2, <1>3, <1>4, <1>5, <1>12, <1>13

(***************************************************************************)
(* The inductive invariant: what each field of a parse state says of the   *)
(* lines read so far                                                       *)
(***************************************************************************)
(* The turn that is open, by the line that opened it.                      *)
Open == LET s == LastIn(Starts) IN IF \E e \in Ends : s < e THEN 0 ELSE s
TurnKnown == py.turn.begin = Open /\ (Open = 0 => py.turn = NoTurn)

(* The prompt a record on the next line would answer.                      *)
Asked == LET p == LastIn(Prompts) IN IF \E j \in Billed \cup Ends : p < j THEN 0 ELSE p
AnchorKnown == py.anchor = IF Asked = 0 THEN NoTime ELSE wire[Asked].ts

TextKnown ==
  py.text = SumFunctionOnSet([j \in DOMAIN wire |-> wire[j].text], {j \in Says : LastIn(Starts) <= j})

Dated == {j \in DOMAIN wire : wire[j].kind # "torn" /\ wire[j].ts # NoTime}
FirstKnown == py.first = IF Dated = {} THEN NoTime ELSE wire[Min(Dated)].ts

ResultsOf(c) == {i \in Lines({"tool", "tool.result", "ToolResult"}) : wire[i].id = c}
ResultsKnown ==
  \A c \in CallId :
    py.results[c] = IF LastIn(ResultsOf(c)) = 0 THEN "open"
                    ELSE IF PyFailed(wire[LastIn(ResultsOf(c))]) THEN "error" ELSE "ok"

UsesKnown ==
  [k \in DOMAIN py.uses |-> py.uses[k].call] = FlattenSeq([i \in DOMAIN wire |-> wire[i].calls])

(* Closed turns are all turns but the open one, in order, and each turn    *)
(* lists its billing lines.                                                *)
TurnsKnown ==
  /\ InOrder([k \in DOMAIN py.turns |-> py.turns[k].begin], Starts \ {Open})
  /\ \A t \in ToSet(py.turns) : t.begin <= t.end
  /\ \A t \in ToSet(py.turns) \cup {py.turn} :
       t.begin # 0 => InOrder(t.status, {i \in Billed : TurnAt(i) = t.begin})

(* The page keeps a usage record for each billing line, whether or not it  *)
(* says how much, and one for a damaged line of a legacy transcript.       *)
Metered ==
  Lines({"usage.record", "StatusUpdate"})
    \cup (IF source.format = "legacy" THEN Lines({"torn"}) ELSE {})

(* The page has one row for each result of the file.  Only a legacy page   *)
(* links them: it knows the calls the backend knows, and their outcomes.   *)
Resulted == Lines({"tool", "tool.result", "ToolResult"})
RowsKnown ==
  /\ ToSet(js.rows) = {RowAt(i, wire[i]) : i \in Resulted}
  /\ source.format # "legacy" => js.called = {}
  /\ source.format = "legacy" =>
       /\ js.results = py.results
       /\ \A q \in ToSet(py.uses) : q.call \in js.called \cup {NoId}

MetaKnown(r) ==
  /\ r.ts = wire[r.line].ts /\ r.model = wire[r.line].model
  /\ r.line \in Billed => r.input = wire[r.line].input
  /\ r.line \notin Billed => r.input = 0 \/ wire[r.line].kind = "torn"
  /\ source.format = "kimi-code" => r.latency = Latency(r.line)

PageKnown ==
  /\ source.format = "kimi-code" => js.pending = py.anchor
  /\ InOrder(LinesOf(js.metas), Metered)
  /\ \A r \in ToSet(js.metas) : MetaKnown(r)

Understood ==
  /\ TInv /\ StepKnown /\ TurnKnown /\ AnchorKnown /\ TextKnown /\ FirstKnown
  /\ ResultsKnown /\ UsesKnown /\ TurnsKnown /\ RecordsMatchWire
  /\ RowsKnown /\ PageKnown

(***************************************************************************)
(* What is read off the lines so far does not change when one is added     *)
(***************************************************************************)
LEMMA Stable ==
  ASSUME TInv, StepKnown, NEW l \in source.letters, Line(l), NEW i \in 1 .. Len(wire)
  PROVE  /\ TurnAt(i)' = TurnAt(i)
         /\ Latency(i)' = Latency(i)
         /\ Text(i)' = Text(i)
         /\ LabelTime(i)' = LabelTime(i)
<1> PICK m \in Nat : m = Len(wire)
  BY Growth
<1>0. /\ N = m + 1 /\ i \in 1 .. m /\ i \in 0 .. m /\ ~(m + 1 <= i) /\ ~(m + 1 < i)
      /\ DOMAIN wire = 1 .. m /\ DOMAIN wire' = 1 .. m + 1
      /\ \A j \in 1 .. m : wire'[j] = wire[j]
  BY Growth
<1>1. /\ Prompts \in SUBSET (1 .. m) /\ Ends \in SUBSET (1 .. m) /\ Billed \in SUBSET (1 .. m)
      /\ Starts \in SUBSET (1 .. m) /\ Says \in SUBSET (1 .. m)
      /\ Prompts' = Prompts \/ Prompts' = Prompts \cup {m + 1}
      /\ Ends' = Ends \/ Ends' = Ends \cup {m + 1}
      /\ Billed' = Billed \/ Billed' = Billed \cup {m + 1}
      /\ Starts' = Starts \/ Starts' = Starts \cup {m + 1}
      /\ Says' = Says \/ Says' = Says \cup {m + 1}
  BY <1>0, SetsGrow
<1>2. Up(Starts', i) = Up(Starts, i) /\ Up(Prompts', i) = Up(Prompts, i)
  BY <1>0, <1>1, UpGrown
<1>3. LastIn(Up(Starts, i)) \in 0 .. m /\ LastIn(Up(Prompts, i)) \in 0 .. m
  <2>1. Up(Starts, i) \in SUBSET (1 .. m) /\ Up(Prompts, i) \in SUBSET (1 .. m)
    BY <1>1 DEF Up
  <2> QED
    BY <2>1, LastInRange
<1>4. TurnAt(i)' = TurnAt(i)
  <2> DEFINE s == LastIn(Up(Starts, i))
  <2>1. (\E e \in Ends' : s < e /\ e <= i) <=> (\E e \in Ends : s < e /\ e <= i)
    BY <1>0, <1>1
  <2> QED
    BY <1>2, <2>1 DEF TurnAt
<1>5. Answers(i)' = Answers(i) /\ Answers(i) \in 0 .. m
  <2> DEFINE p == LastIn(Up(Prompts, i))
  <2>1. (\E j \in Billed' \cup Ends' : p < j /\ j < i) <=> (\E j \in Billed \cup Ends : p < j /\ j < i)
    BY <1>0, <1>1
  <2> QED
    BY <1>2, <1>3, <2>1 DEF Answers
<1>6. Latency(i)' = Latency(i)
  BY <1>0, <1>5 DEF Latency
<1>7. Text(i)' = Text(i)
  <2> DEFINE f == [j \in DOMAIN wire |-> wire[j].text]
             S == {j \in Says : LastIn(Up(Starts, i)) <= j /\ j <= i}
             T == {j \in Says' : LastIn(Up(Starts, i)) <= j /\ j <= i}
  <2>1. T = S
    BY <1>0, <1>1
  <2>2. Text(i) = SumFunctionOnSet(f, S)
    BY DEF Text, Says
  <2>3. Text(i)' = SumFunctionOnSet(f', T)
    BY <1>2 DEF Text, Says
  <2>4. IsFiniteSet(S) /\ \A j \in S : f'[j] = f[j]
    <3>1. S \in SUBSET (1 .. m)
      BY <1>1
    <3>2. IsFiniteSet(1 .. m)
      BY FS_Interval
    <3> QED
      BY <3>1, <3>2, <1>0, FS_Subset
  <2> HIDE DEF f, S, T
  <2> QED
    BY <2>1, <2>2, <2>3, <2>4, SumExtensional
<1>8. LabelTime(i)' = LabelTime(i)
  <2> DEFINE D == {j \in 1 .. i : wire[j].kind # "torn" /\ wire[j].ts # NoTime}
  <2>1. D' = D
    BY <1>0
  <2>2. D \in SUBSET Nat /\ (D # {} => Min(D) \in 1 .. m)
    <3>1. D \in SUBSET Nat /\ D \in SUBSET (1 .. m)
      BY <1>0
    <3> HIDE DEF D
    <3>2. D # {} => Min(D) \in D
      BY <3>1, MinRange
    <3> QED
      BY <3>1, <3>2
  <2>3. LabelTime(i) = IF wire[i].ts # NoTime THEN wire[i].ts
                       ELSE IF D = {} THEN NoTime ELSE wire[Min(D)].ts
    BY DEF LabelTime
  <2>4. LabelTime(i)' = IF wire'[i].ts # NoTime THEN wire'[i].ts
                        ELSE IF D' = {} THEN NoTime ELSE wire'[Min(D')].ts
    BY DEF LabelTime
  <2> HIDE DEF D
  <2> QED
    BY <1>0, <2>1, <2>2, <2>3, <2>4
<1> QED
  BY <1>4, <1>6, <1>7, <1>8

(***************************************************************************)
(* What is read off the lines for a billing line just added                *)
(***************************************************************************)
LEMMA Newest ==
  ASSUME TInv, StepKnown, AnchorKnown, TextKnown, FirstKnown,
         NEW l \in source.letters, Line(l), Bills(l), NEW n, n = N
  PROVE  /\ Latency(n)' = ReplyLatency(py.anchor, l.ts)
         /\ Text(n)' = py.text
         /\ LabelTime(n)' = IF l.ts # NoTime THEN l.ts ELSE py.first
<1> PICK m \in Nat : m = Len(wire)
  BY Growth
<1>0. /\ n = m + 1 /\ N = m + 1 /\ n \in Nat
      /\ DOMAIN wire = 1 .. m /\ DOMAIN wire' = 1 .. m + 1
      /\ wire'[m + 1] = l /\ \A j \in 1 .. m : wire'[j] = wire[j]
      /\ \A j \in 1 .. m : wire[j] \in source.letters
  BY Growth
<1>1. /\ ~Prompting(l) /\ l.kind # "TurnEnd" /\ ~Opens(py, l)
      /\ l.kind \notin {"assistant", "content.part", "ContentPart", "torn"}
  BY DEF Bills, Prompting, Opens
<1>2. /\ Prompts \in SUBSET (1 .. m) /\ Ends \in SUBSET (1 .. m) /\ Billed \in SUBSET (1 .. m)
      /\ Starts \in SUBSET (1 .. m) /\ Says \in SUBSET (1 .. m)
      /\ Prompts' = Prompts /\ Ends' = Ends /\ Billed' = Billed \cup {m + 1}
      /\ Starts' = Starts /\ Says' = Says
  BY <1>0, <1>1, SetsGrow
<1>3. l.ts \in Nat /\ \A j \in 1 .. m : wire[j].ts \in Nat
  BY <1>0, LineFacts DEF TInv
<1>4. Up(Starts', n) = Starts /\ Up(Prompts', n) = Prompts
  <2>1. \A j \in Starts \cup Prompts : j <= n
    BY <1>0, <1>2
  <2> QED
    BY <2>1, <1>2 DEF Up
<1>5. Latency(n)' = ReplyLatency(py.anchor, l.ts)
  <2> DEFINE p == LastIn(Prompts)
  <2>1. p \in 0 .. m
    BY <1>2, LastInRange
  <2>2. (\E j \in Billed' \cup Ends' : p < j /\ j < n) <=> (\E j \in Billed \cup Ends : p < j)
    <3>1. ~(m + 1 < n) /\ \A j \in Billed \cup Ends : j < n
      BY <1>0, <1>2
    <3> QED
      BY <3>1, <1>2
  <2>3. Answers(n)' = Asked /\ Asked \in 0 .. m
    BY <2>1, <2>2, <1>4 DEF Answers, Asked
  <2>4. Asked # 0 => wire'[Asked] = wire[Asked] /\ wire[Asked].ts \in Nat /\ py.anchor = wire[Asked].ts
    BY <2>3, <1>0, <1>3 DEF AnchorKnown
  <2>5. Asked = 0 => py.anchor = 0
    BY DEF AnchorKnown, NoTime
  <2>6. Latency(n)' = IF Asked # 0 /\ 0 < wire'[Asked].ts /\ wire'[Asked].ts <= l.ts
                      THEN l.ts - wire'[Asked].ts ELSE NoLatency
    BY <2>3, <1>0 DEF Latency
  <2> QED
    BY <2>3, <2>4, <2>5, <2>6, <1>3 DEF ReplyLatency, NoTime
<1>6. Text(n)' = py.text
  <2> DEFINE f == [j \in DOMAIN wire |-> wire[j].text]
             S == {j \in Says : LastIn(Starts) <= j}
             T == {j \in Says' : LastIn(Starts) <= j /\ j <= n}
  <2>1. T = S
    <3>1. \A j \in Says : j <= n
      BY <1>0, <1>2
    <3> QED
      BY <3>1, <1>2
  <2>2. py.text = SumFunctionOnSet(f, S)
    BY DEF TextKnown
  <2>3. Text(n)' = SumFunctionOnSet(f', T)
    BY <1>4 DEF Text, Says
  <2>4. IsFiniteSet(S) /\ \A j \in S : f'[j] = f[j]
    <3>1. S \in SUBSET (1 .. m)
      BY <1>2
    <3>2. IsFiniteSet(1 .. m)
      BY FS_Interval
    <3> QED
      BY <3>1, <3>2, <1>0, FS_Subset
  <2> HIDE DEF f, S, T
  <2> QED
    BY <2>1, <2>2, <2>3, <2>4, SumExtensional
<1>7. LabelTime(n)' = IF l.ts # NoTime THEN l.ts ELSE py.first
  <2>1. CASE l.ts # NoTime
    BY <2>1, <1>0 DEF LabelTime
  <2>2. CASE l.ts = NoTime
    <3> DEFINE D == {j \in 1 .. n : wire[j].kind # "torn" /\ wire[j].ts # NoTime}
    <3>1. D' = Dated
      BY <2>2, <1>0 DEF Dated
    <3>2. Dated \in SUBSET (1 .. m)
      BY <1>0 DEF Dated
    <3>3. Dated # {} => Min(Dated) \in 1 .. m
      <4>1. Dated \in SUBSET Nat
        BY <3>2
      <4>2. Dated # {} => Min(Dated) \in Dated
        BY <4>1, MinRange
      <4> QED
        BY <4>2, <3>2
    <3>4. LabelTime(n)' = IF wire'[n].ts # NoTime THEN wire'[n].ts
                          ELSE IF D' = {} THEN NoTime ELSE wire'[Min(D')].ts
      BY DEF LabelTime
    <3> HIDE DEF D
    <3> QED
      BY <2>2, <3>1, <3>3, <3>4, <1>0 DEF FirstKnown
  <2> QED
    BY <2>1, <2>2
<1> QED
  BY <1>5, <1>6, <1>7

(***************************************************************************)
(* Each part of the invariant survives a line                              *)
(***************************************************************************)
(* The bounds every part needs: m lines so far.                            *)
LEMMA Before ==
  ASSUME TInv, StepKnown, NEW l \in source.letters, Line(l)
  PROVE  \E m \in Nat :
         /\ m = Len(wire) /\ N = m + 1
         /\ DOMAIN wire = 1 .. m /\ DOMAIN wire' = 1 .. m + 1
         /\ wire'[m + 1] = l /\ \A j \in 1 .. m : wire'[j] = wire[j]
         /\ \A j \in 1 .. m : wire[j] \in source.letters
         /\ Prompts \in SUBSET (1 .. m) /\ Ends \in SUBSET (1 .. m) /\ Billed \in SUBSET (1 .. m)
         /\ Starts \in SUBSET (1 .. m) /\ Says \in SUBSET (1 .. m) /\ Steps \in SUBSET (1 .. m)
         /\ Prompts' = IF Prompting(l) THEN Prompts \cup {m + 1} ELSE Prompts
         /\ Ends' = IF l.kind = "TurnEnd" THEN Ends \cup {m + 1} ELSE Ends
         /\ Billed' = IF Bills(l) THEN Billed \cup {m + 1} ELSE Billed
         /\ Starts' = IF Opens(py, l) THEN Starts \cup {m + 1} ELSE Starts
         /\ Says' = IF l.kind \in {"assistant", "content.part", "ContentPart"}
                    THEN Says \cup {m + 1} ELSE Says
         /\ Steps' = IF l.kind = "step.begin" THEN Steps \cup {m + 1} ELSE Steps
         /\ LastIn(Starts) \in 0 .. m /\ LastIn(Prompts) \in 0 .. m /\ LastIn(Steps) \in 0 .. m
<1> PICK m \in Nat : m = Len(wire)
  BY Growth
<1>1. N = m + 1
  BY Growth
<1>2. /\ Starts \in SUBSET (1 .. m) /\ Prompts \in SUBSET (1 .. m) /\ Steps \in SUBSET (1 .. m)
  BY SetsGrow
<1>3. LastIn(Starts) \in 0 .. m /\ LastIn(Prompts) \in 0 .. m /\ LastIn(Steps) \in 0 .. m
  BY <1>2, LastInRange
<1> QED
  BY <1>1, <1>3, Growth, SetsGrow

(* The turn id is that of the last step.begin.                             *)
LEMMA StepKnownLine ==
  ASSUME TInv, StepKnown, NEW l \in source.letters, Line(l)
  PROVE  StepKnown'
<1> PICK m \in Nat :
      /\ wire'[m + 1] = l /\ \A j \in 1 .. m : wire'[j] = wire[j]
      /\ Steps \in SUBSET (1 .. m) /\ LastIn(Steps) \in 0 .. m
      /\ Steps' = IF l.kind = "step.begin" THEN Steps \cup {m + 1} ELSE Steps
  BY Before
<1>1. py'.turnId = IF l.kind = "step.begin" THEN l.turn ELSE py.turnId
  BY DEF Line, PyAfter
<1>2. CASE l.kind = "step.begin"
  <2>1. LastIn(Steps') = m + 1
    BY <1>2, LastInGrown
  <2> QED
    BY <1>1, <1>2, <2>1 DEF StepKnown
<1>3. CASE l.kind # "step.begin"
  BY <1>1, <1>3 DEF StepKnown
<1> QED
  BY <1>2, <1>3

(* The open turn began where the lines say.                                *)
LEMMA TurnKnownLine ==
  ASSUME TInv, StepKnown, TurnKnown, NEW l \in source.letters, Line(l)
  PROVE  TurnKnown'
<1> PICK m \in Nat :
      /\ N = m + 1
      /\ Starts \in SUBSET (1 .. m) /\ Ends \in SUBSET (1 .. m) /\ LastIn(Starts) \in 0 .. m
      /\ Ends' = IF l.kind = "TurnEnd" THEN Ends \cup {m + 1} ELSE Ends
      /\ Starts' = IF Opens(py, l) THEN Starts \cup {m + 1} ELSE Starts
  BY Before
<1>1. py'.turn = IF Opens(py, l) THEN [NoTurn EXCEPT !.begin = N]
               ELSE IF l.kind = "TurnEnd" THEN NoTurn
               ELSE IF Bills(l) /\ py.turn # NoTurn
                    THEN [py.turn EXCEPT !.status = Append(py.turn.status, N)]
               ELSE py.turn
  BY DEF Line, PyAfter
<1>2. CASE Opens(py, l)
  <2>1. LastIn(Starts') = m + 1
    BY <1>2, LastInGrown
  <2>2. Ends' = Ends /\ ~ \E e \in Ends : m + 1 < e
    BY <1>2 DEF Opens, Prompting
  <2>3. Open' = m + 1
    BY <2>1, <2>2 DEF Open
  <2>4. py'.turn.begin = m + 1
    BY <1>1, <1>2 DEF NoTurn
  <2> QED
    BY <2>3, <2>4 DEF TurnKnown
<1>3. CASE ~Opens(py, l) /\ l.kind = "TurnEnd"
  <2>1. Open' = 0
    BY <1>3 DEF Open
  <2> QED
    BY <2>1, <1>1, <1>3 DEF TurnKnown, NoTurn
<1>4. CASE ~Opens(py, l) /\ l.kind # "TurnEnd"
  <2>1. Open' = Open
    BY <1>4 DEF Open
  <2>2. [py.turn EXCEPT !.status = Append(py.turn.status, N)].begin = py.turn.begin
    BY DEF TInv, PyState, Turn
  <2> QED
    BY <2>1, <2>2, <1>1, <1>4 DEF TurnKnown
<1> QED
  BY <1>2, <1>3, <1>4

(* The anchor is the time of the prompt not yet answered.                  *)
LEMMA AnchorKnownLine ==
  ASSUME TInv, StepKnown, TurnKnown, AnchorKnown, NEW l \in source.letters, Line(l)
  PROVE  AnchorKnown'
<1> PICK m \in Nat :
      /\ N = m + 1
      /\ wire'[m + 1] = l /\ \A j \in 1 .. m : wire'[j] = wire[j]
      /\ Prompts \in SUBSET (1 .. m) /\ Ends \in SUBSET (1 .. m) /\ Billed \in SUBSET (1 .. m)
      /\ Starts \in SUBSET (1 .. m)
      /\ Prompts' = IF Prompting(l) THEN Prompts \cup {m + 1} ELSE Prompts
      /\ Ends' = IF l.kind = "TurnEnd" THEN Ends \cup {m + 1} ELSE Ends
      /\ Billed' = IF Bills(l) THEN Billed \cup {m + 1} ELSE Billed
      /\ LastIn(Prompts) \in 0 .. m /\ LastIn(Starts) \in 0 .. m
  BY Before
<1>1. py'.anchor = IF Prompting(l) THEN l.ts
               ELSE IF Bills(l) \/ (l.kind = "TurnEnd" /\ py.turn # NoTurn) THEN NoTime
               ELSE py.anchor
  BY DEF Line, PyAfter
<1>2. CASE Prompting(l)
  <2>1. LastIn(Prompts') = m + 1
    BY <1>2, LastInGrown
  <2>2. ~ \E j \in Billed' \cup Ends' : m + 1 < j
    BY <1>2 DEF Prompting, Bills
  <2>3. Asked' = m + 1
    BY <2>1, <2>2 DEF Asked
  <2> QED
    BY <2>3, <1>1, <1>2 DEF AnchorKnown
<1>3. CASE ~Prompting(l) /\ (Bills(l) \/ l.kind = "TurnEnd")
  <2>1. Asked' = 0
    BY <1>3 DEF Asked
  <2>2. py.turn = NoTurn => py.anchor = NoTime
    <3> SUFFICES ASSUME py.turn = NoTurn PROVE Asked = 0
      BY DEF AnchorKnown
    <3>1. Open = 0
      BY DEF TurnKnown, NoTurn
    <3>2. \A p \in Prompts : p \in Starts
      BY DEF Starts
    <3>3. LastIn(Prompts) <= LastIn(Starts)
      <4>1. CASE Prompts = {}
        BY <4>1, LastInRange
      <4>2. CASE Prompts # {}
        <5>1. LastIn(Prompts) \in Prompts
          BY <4>2, LastInRange
        <5> QED
          BY <5>1, <3>2, LastInRange
      <4> QED
        BY <4>1, <4>2
    <3>4. CASE \E e \in Ends : LastIn(Starts) < e
      BY <3>3, <3>4 DEF Asked
    <3>5. CASE LastIn(Starts) = 0
      <4>1. LastIn(Prompts) = 0
        BY <3>3, <3>5
      <4> QED
        BY <4>1 DEF Asked
    <3> QED
      BY <3>1, <3>4, <3>5 DEF Open
  <2> QED
    BY <2>1, <2>2, <1>1, <1>3 DEF AnchorKnown
<1>4. CASE ~Prompting(l) /\ ~Bills(l) /\ l.kind # "TurnEnd"
  <2>1. Asked' = Asked
    BY <1>4 DEF Asked
  <2>2. Asked \in 0 .. m
    BY DEF Asked
  <2> QED
    BY <2>1, <2>2, <1>1, <1>4 DEF AnchorKnown
<1> QED
  BY <1>2, <1>3, <1>4

(* The text is what was said since the turn began.                         *)
LEMMA TextKnownLine ==
  ASSUME TInv, StepKnown, TextKnown, NEW l \in source.letters, Line(l)
  PROVE  TextKnown'
<1> PICK m \in Nat :
      /\ N = m + 1
      /\ DOMAIN wire = 1 .. m /\ DOMAIN wire' = 1 .. m + 1
      /\ wire'[m + 1] = l /\ \A j \in 1 .. m : wire'[j] = wire[j]
      /\ \A j \in 1 .. m : wire[j] \in source.letters
      /\ Starts \in SUBSET (1 .. m) /\ Says \in SUBSET (1 .. m)
      /\ Starts' = IF Opens(py, l) THEN Starts \cup {m + 1} ELSE Starts
      /\ Says' = IF l.kind \in {"assistant", "content.part", "ContentPart"}
                 THEN Says \cup {m + 1} ELSE Says
      /\ LastIn(Starts) \in 0 .. m
  BY Before
<1>1. py'.text = IF Opens(py, l) THEN 0 ELSE py.text + l.text
  BY DEF Line, PyAfter
<1>2. IsLine(l, source.format) /\ l.text \in Nat /\ py.text \in Nat
  BY LineFacts DEF TInv, PyState
<1>3. \A j \in 1 .. m : wire[j].text \in Nat
  BY LineFacts DEF TInv
<1> DEFINE f == [j \in DOMAIN wire |-> wire[j].text]
           S == {j \in Says : LastIn(Starts) <= j}
<1>4. py.text = SumFunctionOnSet(f, S)
  BY DEF TextKnown
<1>5. TextKnown' <=> py'.text = SumFunctionOnSet(f', S')
  BY DEF TextKnown
<1>6. S \in SUBSET (1 .. m) /\ IsFiniteSet(S) /\ m + 1 \notin S
  <2>1. S \in SUBSET (1 .. m)
    OBVIOUS
  <2>2. IsFiniteSet(1 .. m)
    <3>1. 1 \in Int /\ m \in Int
      OBVIOUS
    <3> QED
      BY <3>1, FS_Interval, Zenon
  <2>3. m + 1 \notin 1 .. m
    OBVIOUS
  <2> HIDE DEF S
  <2> QED
    BY <2>1, <2>2, <2>3, FS_Subset
<1>7. /\ \A j \in S : f'[j] = f[j] /\ f[j] \in Int
      /\ f'[m + 1] = l.text
  BY <1>6, <1>3
<1>8. CASE Opens(py, l)
  <2>1. LastIn(Starts') = m + 1
    BY <1>8, LastInGrown
  <2>2. Says' = Says
    BY <1>8 DEF Opens, Prompting
  <2>3. S' = {}
    <3>1. \A j \in Says : ~(m + 1 <= j)
      OBVIOUS
    <3> QED
      BY <3>1, <2>1, <2>2
  <2> QED
    BY <1>1, <1>5, <1>8, <2>3, SumOfNone
<1>9. CASE l.kind \in {"assistant", "content.part", "ContentPart"}
  <2>1. ~Opens(py, l)
    BY <1>9 DEF Opens, Prompting
  <2>2. S' = S \cup {m + 1}
    BY <1>9, <2>1
  <2> HIDE DEF S, f
  <2>3. SumFunctionOnSet(f', S \cup {m + 1}) = f'[m + 1] + SumFunctionOnSet(f', S)
    <3>1. f'[m + 1] \in Int /\ \A j \in S : f'[j] \in Int
      BY <1>2, <1>7
    <3> QED
      BY <3>1, <1>6, SumWith
  <2>4. SumFunctionOnSet(f', S) = SumFunctionOnSet(f, S)
    BY <1>6, <1>7, SumExtensional
  <2>5. py'.text = l.text + py.text
    BY <1>1, <1>2, <2>1
  <2> QED
    BY <1>4, <1>5, <1>7, <2>2, <2>3, <2>4, <2>5
<1>10. CASE ~Opens(py, l) /\ l.kind \notin {"assistant", "content.part", "ContentPart"}
  <2>1. S' = S
    BY <1>10
  <2>2. py'.text = py.text
    BY <1>1, <1>2, <1>10 DEF IsLine
  <2> HIDE DEF S, f
  <2>3. SumFunctionOnSet(f', S) = SumFunctionOnSet(f, S)
    BY <1>6, <1>7, SumExtensional
  <2> QED
    BY <1>4, <1>5, <2>1, <2>2, <2>3
<1> QED
  BY <1>8, <1>9, <1>10

(* The first time is that of the first stamped line.                       *)
LEMMA FirstKnownLine ==
  ASSUME TInv, StepKnown, FirstKnown, NEW l \in source.letters, Line(l)
  PROVE  FirstKnown'
<1> PICK m \in Nat :
      /\ DOMAIN wire = 1 .. m /\ DOMAIN wire' = 1 .. m + 1
      /\ wire'[m + 1] = l /\ \A j \in 1 .. m : wire'[j] = wire[j]
  BY Before
<1>1. py'.first = IF l.kind = "torn" THEN py.first ELSE Stamped(py.first, l.ts)
  BY DEF Line, PyAfter
<1>2. Dated \in SUBSET (1 .. m)
      /\ Dated' = IF l.kind # "torn" /\ l.ts # NoTime THEN Dated \cup {m + 1} ELSE Dated
  BY DEF Dated
<1>3. Dated # {} => Min(Dated) \in Dated /\ Min(Dated) \in 1 .. m
  <2>1. Dated \in SUBSET Nat
    BY <1>2
  <2> QED
    BY <1>2, <2>1, MinRange
<1>4. Dated # {} => py.first # NoTime
  BY <1>3 DEF FirstKnown, Dated
<1>5. CASE l.kind # "torn" /\ l.ts # NoTime /\ Dated = {}
  <2>1. Dated' = {m + 1}
    BY <1>2, <1>5
  <2>2. Min(Dated') = m + 1
    BY <2>1, OnlyOne
  <2> QED
    BY <1>1, <1>5, <2>1, <2>2 DEF FirstKnown, Stamped
<1>6. CASE l.kind # "torn" /\ l.ts # NoTime /\ Dated # {}
  <2>1. Min(Dated') = Min(Dated)
    BY <1>2, <1>6, MinGrown
  <2> QED
    BY <1>1, <1>2, <1>3, <1>4, <1>6, <2>1 DEF FirstKnown, Stamped
<1>7. CASE ~(l.kind # "torn" /\ l.ts # NoTime)
  <2>1. py'.first = py.first
    BY <1>1, <1>7 DEF Stamped
  <2> QED
    BY <1>2, <1>3, <1>7, <2>1 DEF FirstKnown
<1> QED
  BY <1>5, <1>6, <1>7

(* An outcome is what the last result of the call said.                    *)
LEMMA ResultsKnownLine ==
  ASSUME TInv, StepKnown, ResultsKnown, NEW l \in source.letters, Line(l)
  PROVE  ResultsKnown'
<1> SUFFICES ASSUME NEW c \in CallId
             PROVE  py'.results[c] = IF LastIn(ResultsOf(c)') = 0 THEN "open"
                                     ELSE IF PyFailed(wire'[LastIn(ResultsOf(c)')]) THEN "error" ELSE "ok"
  BY DEF ResultsKnown
<1> PICK m \in Nat :
      /\ DOMAIN wire = 1 .. m /\ DOMAIN wire' = 1 .. m + 1
      /\ wire'[m + 1] = l /\ \A j \in 1 .. m : wire'[j] = wire[j]
  BY Before
<1>1. py'.results = IF Answering(l) THEN Answered(py.results, l) ELSE py.results
  BY DEF Line, PyAfter
<1>2. py.results \in [CallId -> Outcome] /\ l.id \in CallId \cup {NoId}
  BY LineFacts DEF TInv, PyState
<1>3. /\ ResultsOf(c) \in SUBSET (1 .. m)
      /\ ResultsOf(c)' = IF Answering(l) /\ l.id = c THEN ResultsOf(c) \cup {m + 1} ELSE ResultsOf(c)
  <2>1. c # NoId
    BY IdAssumption
  <2> QED
    BY <2>1 DEF ResultsOf, Lines, Answering
<1>4. LastIn(ResultsOf(c)) \in 0 .. m
  BY <1>3, LastInRange
<1>5. CASE Answering(l) /\ l.id = c
  <2>1. LastIn(ResultsOf(c)') = m + 1
    BY <1>3, <1>5, LastInGrown
  <2>2. py'.results[c] = IF PyFailed(l) THEN "error" ELSE "ok"
    BY <1>1, <1>2, <1>5 DEF Answered
  <2> QED
    BY <2>1, <2>2
<1>6. CASE ~(Answering(l) /\ l.id = c)
  <2>1. py'.results[c] = py.results[c]
    BY <1>1, <1>2, <1>6 DEF Answered, Answering
  <2> QED
    BY <2>1, <1>3, <1>4, <1>6 DEF ResultsKnown
<1> QED
  BY <1>5, <1>6

(* The new record says what its lines say; the old ones still do.          *)
LEMMA RecordsLine ==
  ASSUME TInv, StepKnown, AnchorKnown, TextKnown, FirstKnown, RecordsMatchWire,
         NEW l \in source.letters, Line(l)
  PROVE  RecordsMatchWire'
<1> PICK m \in Nat :
      /\ m = Len(wire) /\ N = m + 1
      /\ wire'[m + 1] = l /\ \A j \in 1 .. m : wire'[j] = wire[j]
      /\ Billed \in SUBSET (1 .. m)
      /\ Billed' = IF Bills(l) THEN Billed \cup {m + 1} ELSE Billed
  BY Before
<1> PICK row : row = UsageRow(EventTs(py, l), N, l)
  OBVIOUS
<1> DEFINE Right(r) == /\ r.ts = wire[r.line].ts /\ r.input = wire[r.line].input
                       /\ r.latency = Latency(r.line)
                       /\ r.text = Text(r.line)
                       /\ r.model = ModelFor(wire[r.line].model, LabelTime(r.line))
<1>1. py'.records = IF Bills(l) THEN Append(py.records, row) ELSE py.records
  BY DEF Line, PyAfter
<1>2. py.records \in Seq(Record) /\ InOrder(LinesOf(py.records), Billed)
  BY DEF TInv, PyState, RecordsMatchWire
<1>3. \A r \in ToSet(py.records) : r.line \in Billed /\ Right(r)
  BY <1>2 DEF RecordsMatchWire, InOrder, LinesOf, ToSet
<1>4. ASSUME NEW r \in ToSet(py.records) PROVE Right(r)'
  <2>1. r.line \in 1 .. m
    BY <1>3
  <2>2. /\ Latency(r.line)' = Latency(r.line) /\ Text(r.line)' = Text(r.line)
        /\ LabelTime(r.line)' = LabelTime(r.line)
    BY <2>1, Stable
  <2> QED
    BY <1>3, <2>1, <2>2
<1>5. CASE ~Bills(l)
  <2>1. py'.records = py.records /\ Billed' = Billed
    BY <1>1, <1>5
  <2> QED
    BY <2>1, <1>2, <1>4 DEF RecordsMatchWire
<1>6. CASE Bills(l)
  <2>1. /\ EventTs(py, l).text = py.text /\ EventTs(py, l).anchor = py.anchor
        /\ EventTs(py, l).first = Stamped(py.first, l.ts)
    BY DEF EventTs, TInv, PyState
  <2>2. /\ row.line = m + 1 /\ row.ts = l.ts /\ row.input = l.input
        /\ row.text = py.text /\ row.latency = ReplyLatency(py.anchor, l.ts)
        /\ row.model = ModelFor(l.model, IF l.ts # NoTime THEN l.ts ELSE Stamped(py.first, l.ts))
    BY <2>1 DEF UsageRow
  <2>3. /\ Latency(m + 1)' = ReplyLatency(py.anchor, l.ts)
        /\ Text(m + 1)' = py.text
        /\ LabelTime(m + 1)' = IF l.ts # NoTime THEN l.ts ELSE py.first
    BY <1>6, Newest
  <2>4. l.ts = NoTime => Stamped(py.first, l.ts) = py.first
    BY DEF Stamped
  <2>5. Right(row)'
    <3>1. /\ Latency(row.line)' = row.latency /\ Text(row.line)' = row.text
          /\ ModelFor(l.model, LabelTime(row.line)') = row.model
      BY <2>2, <2>3, <2>4
    <3> QED
      BY <2>2, <3>1
  <2>6. LinesOf(py'.records) = Append(LinesOf(py.records), m + 1)
    BY <1>1, <1>2, <1>6, <2>2, LinesOfGrown
  <2>7. LinesOf(py.records) \in Seq(Nat)
    <3>1. \A k \in 1 .. Len(py.records) : py.records[k].line \in Nat
      <4>1. \A k \in 1 .. Len(py.records) : py.records[k] \in Record
        BY <1>2
      <4>2. \A q \in Record : q.line \in Nat
        BY DEF Record
      <4> QED
        BY <4>1, <4>2
    <3> QED
      BY <3>1, <1>2 DEF LinesOf
  <2>8. InOrder(LinesOf(py'.records), Billed')
    BY <1>2, <1>6, <2>6, <2>7, InOrderGrown
  <2>9. ToSet(py'.records) = ToSet(py.records) \cup {row}
    BY <1>1, <1>2, <1>6, ToSetGrown
  <2> QED
    BY <1>4, <2>5, <2>8, <2>9 DEF RecordsMatchWire
<1> QED
  BY <1>5, <1>6

(***************************************************************************)
(* FlattenSeq, by the lines                                                *)
(***************************************************************************)
Joined(ss, g, i) == IF i = 1 THEN ss[i] ELSE g[i - 1] \o ss[i]
Joins(ss, g) == g = [i \in 1 .. Len(ss) |-> Joined(ss, g, i)]

(* FlattenSeq is a function over the prefixes.                             *)
LEMMA FlattenUnfolds ==
  ASSUME NEW ss, Len(ss) # 0
  PROVE  FlattenSeq(ss) = (CHOOSE g : Joins(ss, g))[Len(ss)]
BY DEF FlattenSeq, Joins, Joined

(* There is such a function.                                               *)
LEMMA JoinsExists ==
  ASSUME NEW ss, Len(ss) \in Nat
  PROVE  \E g : Joins(ss, g)
<1> DEFINE Part(n, g) == g = [i \in 1 .. n |-> Joined(ss, g, i)]
           T == {n \in Nat : ~ \E g : Part(n, g)}
<1>1. T = {}
  <2>1. SUFFICES ASSUME T # {} PROVE FALSE
    OBVIOUS
  <2>2. PICK n \in T : \A k \in T : n <= k
    BY <2>1, LeastNat
  <2>3. n # 0
    <3> DEFINE g == [i \in 1 .. 0 |-> 0]
    <3>1. Part(0, g)
      OBVIOUS
    <3> QED
      BY <3>1
  <2> HIDE DEF Part
  <2>4. n - 1 \in Nat /\ n - 1 \notin T
    <3>1. n \in Nat /\ ~(n <= n - 1)
      OBVIOUS
    <3> QED
      BY <3>1, <2>2, <2>3
  <2>5. PICK g : Part(n - 1, g)
    BY <2>4
  <2> USE DEF Part
  <2> DEFINE h == [i \in 1 .. n |-> IF i = n THEN Joined(ss, g, n) ELSE g[i]]
  <2>6. ASSUME NEW i \in 1 .. n PROVE h[i] = Joined(ss, h, i)
    <3>1. n \in Nat
      BY <2>2
    <3>2. i = 1 \/ (i - 1 \in 1 .. n - 1 /\ i - 1 \in 1 .. n /\ i - 1 # n)
      BY <3>1
    <3>3. Joined(ss, h, i) = Joined(ss, g, i)
      BY <3>2 DEF Joined
    <3>4. CASE i = n
      BY <3>3, <3>4
    <3>5. CASE i # n
      <4>1. i \in 1 .. n - 1
        BY <3>1, <3>5
      <4>2. g[i] = Joined(ss, g, i)
        BY <4>1, <2>5
      <4> QED
        BY <4>2, <3>3, <3>5
    <3> QED
      BY <3>4, <3>5
  <2>7. Part(n, h)
    BY <2>6
  <2> QED
    BY <2>7, <2>2
<1> QED
  BY <1>1 DEF Joins

SameTo(u, v, n) == \A i \in 1 .. n : u[i] = v[i]

(* It depends on the prefix alone.                                         *)
LEMMA JoinsAlike ==
  ASSUME NEW ss, NEW tt, NEW g, NEW h, Len(ss) \in Nat, Len(tt) \in Nat,
         Joins(ss, g), Joins(tt, h), NEW n \in Nat, n <= Len(ss), n <= Len(tt),
         SameTo(ss, tt, n)
  PROVE  SameTo(g, h, n)
<1> USE DEF SameTo
<1> DEFINE T == {i \in Nat : i \in 1 .. n /\ g[i] # h[i]}
<1>1. SUFFICES ASSUME T # {} PROVE FALSE
  <2>1. \A i \in 1 .. n : i \in Nat
    OBVIOUS
  <2> QED
    BY <2>1, Zenon
<1>2. PICK i \in T : \A k \in T : i <= k
  BY <1>1, LeastNat
<1>3. i \in 1 .. n /\ i \in 1 .. Len(ss) /\ i \in 1 .. Len(tt)
  OBVIOUS
<1>4. g[i] = Joined(ss, g, i) /\ h[i] = Joined(tt, h, i)
  BY <1>3 DEF Joins
<1>5. i = 1 \/ g[i - 1] = h[i - 1]
  <2>1. i = 1 \/ (i - 1 \in 1 .. n /\ ~(i <= i - 1) /\ i - 1 \in Nat)
    BY <1>3
  <2> QED
    BY <2>1, <1>2
<1> QED
  BY <1>3, <1>4, <1>5 DEF Joined

(* Appending a sequence to the sequences appends its elements.             *)
LEMMA FlattenGrown ==
  ASSUME NEW C, NEW ss \in Seq(Seq(C)), NEW s \in Seq(C)
  PROVE  FlattenSeq(Append(ss, s)) = FlattenSeq(ss) \o s
<1> PICK tt : tt = Append(ss, s)
  OBVIOUS
<1> PICK m \in Nat : m = Len(ss)
  OBVIOUS
<1>1. /\ Len(ss) = m /\ Len(tt) = m + 1 /\ m + 1 \in Nat /\ m + 1 # 0
      /\ tt[m + 1] = s /\ \A i \in 1 .. m : tt[i] = ss[i]
  OBVIOUS
<1> PICK h : h = CHOOSE u : Joins(tt, u)
  OBVIOUS
<1> PICK g : g = CHOOSE u : Joins(ss, u)
  OBVIOUS
<1>2. Joins(tt, h) /\ Joins(ss, g)
  <2>1. (\E u : Joins(tt, u)) /\ (\E u : Joins(ss, u))
    BY <1>1, JoinsExists
  <2> QED
    BY <2>1
<1>3. FlattenSeq(tt) = h[m + 1]
  BY <1>1, FlattenUnfolds
<1>4. h[m + 1] = Joined(tt, h, m + 1)
  <2>1. m + 1 \in 1 .. Len(tt)
    BY <1>1
  <2> QED
    BY <2>1, <1>2 DEF Joins
<1>5. CASE m = 0
  <2>1. FlattenSeq(tt) = s
    BY <1>1, <1>3, <1>4, <1>5 DEF Joined
  <2>2. FlattenSeq(ss) = <<>>
    BY <1>1, <1>5 DEF FlattenSeq
  <2> QED
    BY <2>1, <2>2
<1>6. CASE m # 0
  <2>1. FlattenSeq(ss) = g[m]
    BY <1>1, <1>6, FlattenUnfolds
  <2>2. SameTo(g, h, m)
    <3>1. /\ m <= Len(ss) /\ m <= Len(tt) /\ Len(ss) \in Nat /\ Len(tt) \in Nat
          /\ SameTo(ss, tt, m)
      BY <1>1 DEF SameTo
    <3> QED
      BY <3>1, <1>2, JoinsAlike, Zenon
  <2>3. m + 1 # 1 /\ m + 1 - 1 = m /\ m \in 1 .. m
    BY <1>6
  <2>4. h[m + 1] = h[m] \o s
    <3> PICK k : k = m + 1
      OBVIOUS
    <3>1. k # 1 /\ k - 1 = m
      BY <1>6
    <3>2. Joined(tt, h, k) = h[k - 1] \o tt[k]
      BY <3>1 DEF Joined
    <3>3. h[k] = Joined(tt, h, k) /\ tt[k] = s
      BY <1>1, <1>4
    <3>4. h[k] = h[m] \o s
      BY <3>1, <3>2, <3>3, Zenon
    <3> QED
      BY <3>4
  <2> QED
    BY <1>3, <2>1, <2>2, <2>3, <2>4 DEF SameTo
<1> QED
  BY <1>5, <1>6

(***************************************************************************)
(* The calls of the tool uses a parser keeps                               *)
(***************************************************************************)
CallsOf(s) == [k \in DOMAIN s |-> s[k].call]

(* The calls of joined tool uses are the joined calls.                     *)
LEMMA CallsJoined ==
  ASSUME NEW u \in Seq(Use), NEW c \in Seq(Use)
  PROVE  /\ CallsOf(u \o c) = CallsOf(u) \o CallsOf(c)
         /\ CallsOf(u) \in Seq(CallId \cup {NoId})
<1> DEFINE C == CallId \cup {NoId}
           R == Use
<1>0. \A q \in R : q.call \in C
  BY DEF Use
<1> HIDE DEF C, R
<1>1. /\ Len(u) \in Nat /\ Len(c) \in Nat /\ DOMAIN u = 1 .. Len(u) /\ DOMAIN c = 1 .. Len(c)
      /\ DOMAIN (u \o c) = 1 .. Len(u) + Len(c)
      /\ \A i \in 1 .. Len(u) + Len(c) : (u \o c)[i] = IF i <= Len(u) THEN u[i] ELSE c[i - Len(u)]
      /\ \A i \in 1 .. Len(u) : u[i].call \in C
      /\ \A i \in 1 .. Len(c) : c[i].call \in C
  <2>1. u \in Seq(R) /\ c \in Seq(R)
    BY DEF R
  <2> QED
    BY <2>1, <1>0
<1>2. /\ CallsOf(u) \in Seq(C) /\ CallsOf(c) \in Seq(C)
      /\ Len(CallsOf(u)) = Len(u) /\ Len(CallsOf(c)) = Len(c)
      /\ \A i \in 1 .. Len(u) : CallsOf(u)[i] = u[i].call
      /\ \A i \in 1 .. Len(c) : CallsOf(c)[i] = c[i].call
  BY <1>1 DEF CallsOf
<1>3. CallsOf(u \o c) \in Seq(C) /\ CallsOf(u) \o CallsOf(c) \in Seq(C)
  <2>1. u \o c \in Seq(R)
    BY DEF R
  <2>2. \A i \in 1 .. Len(u \o c) : (u \o c)[i].call \in C
    BY <1>0, <2>1
  <2>3. \A a, b \in Seq(C) : a \o b \in Seq(C)
    OBVIOUS
  <2> QED
    BY <1>0, <1>2, <2>1, <2>2, <2>3 DEF CallsOf
<1>4. /\ Len(CallsOf(u \o c)) = Len(u) + Len(c)
      /\ Len(CallsOf(u) \o CallsOf(c)) = Len(u) + Len(c)
      /\ \A i \in 1 .. Len(u) + Len(c) : CallsOf(u \o c)[i] = (u \o c)[i].call
      /\ \A i \in 1 .. Len(u) + Len(c) :
           (CallsOf(u) \o CallsOf(c))[i] = IF i <= Len(u) THEN CallsOf(u)[i] ELSE CallsOf(c)[i - Len(u)]
  <2>1. \A a, b \in Seq(C) :
          /\ Len(a \o b) = Len(a) + Len(b)
          /\ \A i \in 1 .. Len(a) + Len(b) : (a \o b)[i] = IF i <= Len(a) THEN a[i] ELSE b[i - Len(a)]
    OBVIOUS
  <2> QED
    BY <1>1, <1>2, <2>1 DEF CallsOf
<1>5. ASSUME NEW i \in 1 .. Len(u) + Len(c)
      PROVE  CallsOf(u \o c)[i] = (CallsOf(u) \o CallsOf(c))[i]
  <2>1. i <= Len(u) => i \in 1 .. Len(u)
    BY <1>1
  <2>2. ~(i <= Len(u)) => i - Len(u) \in 1 .. Len(c)
    BY <1>1
  <2>3. (u \o c)[i] = IF i <= Len(u) THEN u[i] ELSE c[i - Len(u)]
    BY <1>1
  <2> QED
    BY <1>2, <1>4, <2>1, <2>2, <2>3
<1>6. CallsOf(u \o c) = CallsOf(u) \o CallsOf(c)
  <2>1. \A a, b \in Seq(C) : Len(a) = Len(b) /\ (\A i \in 1 .. Len(a) : a[i] = b[i]) => a = b
    OBVIOUS
  <2> QED
    BY <1>3, <1>4, <1>5, <2>1
<1> QED
  BY <1>2, <1>6 DEF C

(* Every call of the lines is a tool use, in order.                        *)
LEMMA UsesLine ==
  ASSUME TInv, UsesKnown, NEW l \in source.letters, Line(l)
  PROVE  UsesKnown'
<1> PICK m \in Nat :
      /\ m = Len(wire) /\ N = m + 1
      /\ DOMAIN wire = 1 .. m /\ DOMAIN wire' = 1 .. m + 1
      /\ wire'[m + 1] = l /\ \A j \in 1 .. m : wire'[j] = wire[j]
      /\ \A j \in 1 .. m : wire[j] \in source.letters
  BY Growth
<1> DEFINE C == CallId \cup {NoId}
<1> PICK calls : calls = l.calls
  OBVIOUS
<1>1. calls \in Seq(C) /\ (~Calling(l) => calls = <<>>)
  <2>1. IsLine(l, source.format) /\ l.calls \in Seq(C)
    BY LineFacts DEF TInv
  <2> QED
    BY <2>1 DEF IsLine, Calling
<1> PICK ss : ss = [i \in 1 .. m |-> wire[i].calls]
  OBVIOUS
<1> PICK u \in Seq(Use) : u = py.uses
  BY DEF TInv, PyState
<1>2. ss \in Seq(Seq(C))
  <2>1. \A i \in 1 .. m : wire[i].calls \in Seq(C)
    BY LineFacts DEF TInv
  <2> QED
    BY <2>1
<1>3. [i \in DOMAIN wire' |-> wire'[i].calls] = Append(ss, calls)
  OBVIOUS
<1>4. CallsOf(u) = FlattenSeq(ss)
  BY DEF UsesKnown, CallsOf
<1> HIDE DEF C
<1>5. FlattenSeq(Append(ss, calls)) = CallsOf(u) \o calls
  <2>1. FlattenSeq(Append(ss, calls)) = FlattenSeq(ss) \o calls
    BY <1>1, <1>2, FlattenGrown, Zenon
  <2> QED
    BY <2>1, <1>4
<1>6. py'.uses = IF Calling(l) THEN u \o CallsAt(N, calls) ELSE u
  BY DEF Line, PyAfter
<1>7. \A q \in Use : q.call \in C
  BY DEF Use, C
<1>8. CallsAt(N, calls) \in Seq(Use) /\ CallsOf(CallsAt(N, calls)) = calls
  <2>1. Len(calls) \in Nat /\ DOMAIN calls = 1 .. Len(calls) /\ calls = [i \in 1 .. Len(calls) |-> calls[i]]
    BY <1>1
  <2>2. ASSUME NEW i \in 1 .. Len(calls), NEW n \in Nat PROVE [line |-> n, call |-> calls[i], churn |-> 1] \in Use
    <3>1. calls[i] \in C
      BY <1>1
    <3> QED
      BY <3>1 DEF Use, C
  <2>3. N \in Nat
    OBVIOUS
  <2>4. DOMAIN CallsAt(N, calls) = 1 .. Len(calls) /\ \A i \in 1 .. Len(calls) : CallsAt(N, calls)[i].call = calls[i]
    BY <2>1 DEF CallsAt
  <2>5. CallsAt(N, calls) \in Seq(Use)
    BY <2>1, <2>2, <2>3 DEF CallsAt
  <2> QED
    BY <2>1, <2>4, <2>5 DEF CallsOf
<1>9. CallsOf(py'.uses) = CallsOf(u) \o calls
  <2>1. CallsOf(u) \in Seq(C) /\ CallsOf(u \o CallsAt(N, calls)) = CallsOf(u) \o calls
    <3> PICK c \in Seq(Use) : c = CallsAt(N, calls)
      BY <1>8
    <3>1. CallsOf(u) \in Seq(C) /\ CallsOf(u \o c) = CallsOf(u) \o CallsOf(c)
      BY CallsJoined, Zenon DEF C
    <3> QED
      BY <1>8, <3>1, Zenon
  <2>2. \A a \in Seq(C) : a \o <<>> = a
    OBVIOUS
  <2>3. CASE Calling(l)
    BY <1>6, <2>1, <2>3
  <2>4. CASE ~Calling(l)
    BY <1>1, <1>6, <2>1, <2>2, <2>4
  <2> QED
    BY <2>3, <2>4
<1> QED
  BY <1>3, <1>5, <1>9 DEF UsesKnown, CallsOf

(* The billing lines of the turn that line b opened.                       *)
Mine(b) == {i \in Billed : TurnAt(i) = b}

(* Which turn a new line bills.                                            *)
LEMMA MineGrows ==
  ASSUME TInv, StepKnown, NEW l \in source.letters, Line(l)
  PROVE  \E m \in Nat :
           /\ m = Len(wire) /\ N = m + 1
           /\ Starts \in SUBSET (1 .. m) /\ Open \in 0 .. m
           /\ Open # 0 => Open \in Starts /\ \A j \in Starts : j <= Open
           /\ Starts' = IF Opens(py, l) THEN Starts \cup {m + 1} ELSE Starts
           /\ Open' = IF Opens(py, l) THEN m + 1 ELSE IF l.kind = "TurnEnd" THEN 0 ELSE Open
           /\ \A b \in 0 .. m : Mine(b) \in SUBSET (1 .. m)
           /\ \A b \in 0 .. m : Mine(b)' = IF Bills(l) /\ b = Open THEN Mine(b) \cup {m + 1} ELSE Mine(b)
           /\ Opens(py, l) => Mine(m + 1)' = {}
<1> PICK m \in Nat :
      /\ m = Len(wire) /\ N = m + 1
      /\ Billed \in SUBSET (1 .. m) /\ Ends \in SUBSET (1 .. m) /\ Starts \in SUBSET (1 .. m)
      /\ Ends' = IF l.kind = "TurnEnd" THEN Ends \cup {m + 1} ELSE Ends
      /\ Billed' = IF Bills(l) THEN Billed \cup {m + 1} ELSE Billed
      /\ Starts' = IF Opens(py, l) THEN Starts \cup {m + 1} ELSE Starts
      /\ LastIn(Starts) \in 0 .. m
  BY Before
<1>1. Open \in 0 .. m /\ (Open # 0 => Open \in Starts /\ \A j \in Starts : j <= Open)
  <2>1. Open \in {0, LastIn(Starts)}
    BY DEF Open
  <2>2. LastIn(Starts) # 0 => LastIn(Starts) \in Starts /\ \A j \in Starts : j <= LastIn(Starts)
    BY LastInRange
  <2> QED
    BY <2>1, <2>2
<1>2. Open' = IF Opens(py, l) THEN m + 1 ELSE IF l.kind = "TurnEnd" THEN 0 ELSE Open
  <2>1. CASE Opens(py, l)
    <3>1. LastIn(Starts') = m + 1
      BY <2>1, LastInGrown
    <3>2. Ends' = Ends /\ ~ \E e \in Ends : m + 1 < e
      BY <2>1 DEF Opens, Prompting
    <3> QED
      BY <2>1, <3>1, <3>2 DEF Open
  <2>2. CASE ~Opens(py, l) /\ l.kind = "TurnEnd"
    BY <2>2 DEF Open
  <2>3. CASE ~Opens(py, l) /\ l.kind # "TurnEnd"
    BY <2>3 DEF Open
  <2> QED
    BY <2>1, <2>2, <2>3
<1>3. ASSUME NEW i \in 1 .. m PROVE TurnAt(i)' = TurnAt(i) /\ TurnAt(i) \in 0 .. m
  <2>1. TurnAt(i)' = TurnAt(i)
    BY Stable
  <2>2. LastIn(Up(Starts, i)) \in 0 .. m
    <3>1. Up(Starts, i) \in SUBSET (1 .. m)
      BY DEF Up
    <3> QED
      BY <3>1, LastInRange
  <2>3. TurnAt(i) \in {0, LastIn(Up(Starts, i))}
    BY DEF TurnAt
  <2> QED
    BY <2>1, <2>2, <2>3
<1>4. Bills(l) => TurnAt(m + 1)' = Open /\ ~Opens(py, l)
  <2> SUFFICES ASSUME Bills(l) PROVE TurnAt(m + 1)' = Open /\ ~Opens(py, l)
    OBVIOUS
  <2>1. ~Opens(py, l) /\ l.kind # "TurnEnd"
    BY DEF Bills, Opens, Prompting
  <2>2. Starts' = Starts /\ Ends' = Ends
    BY <2>1
  <2>3. Up(Starts', m + 1) = Starts
    <3>1. \A j \in Starts : j <= m + 1
      OBVIOUS
    <3> QED
      BY <3>1, <2>2 DEF Up
  <2>4. (\E e \in Ends' : LastIn(Starts) < e /\ e <= m + 1) <=> (\E e \in Ends : LastIn(Starts) < e)
    BY <2>2
  <2> QED
    BY <2>1, <2>3, <2>4 DEF TurnAt, Open
<1>5. \A b \in 0 .. m : Mine(b) \in SUBSET (1 .. m)
  BY DEF Mine
<1>6. ASSUME NEW b PROVE Mine(b)' = IF Bills(l) /\ b = Open THEN Mine(b) \cup {m + 1} ELSE Mine(b)
  <2>1. \A i \in Billed : TurnAt(i)' = TurnAt(i)
    BY <1>3
  <2> QED
    BY <2>1, <1>4 DEF Mine
<1>7. Opens(py, l) => Mine(m + 1)' = {}
  <2>1. \A i \in Billed : TurnAt(i) # m + 1
    BY <1>3
  <2> QED
    BY <2>1, <1>4, <1>6 DEF Mine
<1> QED
  BY <1>1, <1>2, <1>5, <1>6, <1>7

(* Turns are closed in order and list their billing lines.                 *)
LEMMA TurnsLine ==
  ASSUME TInv, StepKnown, TurnKnown, TurnsKnown, NEW l \in source.letters, Line(l)
  PROVE  TurnsKnown'
<1> PICK m \in Nat :
      /\ m = Len(wire) /\ N = m + 1
      /\ Starts \in SUBSET (1 .. m) /\ Open \in 0 .. m
      /\ Open # 0 => Open \in Starts /\ \A j \in Starts : j <= Open
      /\ Starts' = IF Opens(py, l) THEN Starts \cup {m + 1} ELSE Starts
      /\ Open' = IF Opens(py, l) THEN m + 1 ELSE IF l.kind = "TurnEnd" THEN 0 ELSE Open
      /\ \A b \in 0 .. m : Mine(b) \in SUBSET (1 .. m)
      /\ \A b \in 0 .. m : Mine(b)' = IF Bills(l) /\ b = Open THEN Mine(b) \cup {m + 1} ELSE Mine(b)
      /\ Opens(py, l) => Mine(m + 1)' = {}
  BY MineGrows
<1> DEFINE Begins == [k \in DOMAIN py.turns |-> py.turns[k].begin]
<1> PICK done \in Turn : done = [py.turn EXCEPT !.end = N]
  <2>1. py.turn \in Turn
    BY DEF TInv, PyState
  <2>2. N \in Nat
    OBVIOUS
  <2> QED
    BY <2>1, <2>2 DEF Turn
<1> PICK o \in 0 .. m : o = Open
  OBVIOUS
<1> PICK now : now = py'.turn
  OBVIOUS
<1>1. /\ py.turns \in Seq(Turn) /\ py.turn \in Turn
      /\ py'.turns = IF Closes(py, l) THEN Append(py.turns, done) ELSE py.turns
      /\ now = IF Opens(py, l) THEN [NoTurn EXCEPT !.begin = N]
                    ELSE IF l.kind = "TurnEnd" THEN NoTurn
                    ELSE IF Bills(l) /\ py.turn # NoTurn
                         THEN [py.turn EXCEPT !.status = Append(py.turn.status, N)]
                    ELSE py.turn
  BY DEF TInv, PyState, Line, PyAfter
<1>2. /\ py.turn.begin = o /\ (py.turn = NoTurn <=> o = 0)
      /\ done.begin = o /\ done.status = py.turn.status /\ done.end = N
  BY <1>1 DEF TurnKnown, NoTurn, Turn
<1>3. /\ InOrder(Begins, Starts \ {Open})
      /\ \A t \in ToSet(py.turns) : t.begin <= t.end
      /\ \A t \in ToSet(py.turns) \cup {py.turn} : t.begin # 0 => InOrder(t.status, Mine(t.begin))
  BY DEF TurnsKnown, Mine
<1>4. \A t \in ToSet(py.turns) : t.begin \in Starts /\ t.begin # o /\ t.begin \in 0 .. m
  <2>1. \A t \in ToSet(py.turns) : t.begin \in ToSet(Begins)
    BY DEF ToSet
  <2> HIDE DEF Begins
  <2>2. \A t \in ToSet(py.turns) : t.begin \in Starts \ {Open}
    BY <2>1, <1>3 DEF InOrder
  <2> QED
    BY <2>2
<1>5. /\ Closes(py, l) => ToSet(py'.turns) = ToSet(py.turns) \cup {done}
      /\ ~Closes(py, l) => ToSet(py'.turns) = ToSet(py.turns)
  BY <1>1, ToSetGrown
<1>6. InOrder(Begins', Starts' \ {Open'})
  <2>1. Opens(py, l) \/ l.kind = "TurnEnd" => Starts' \ {Open'} = Starts
    OBVIOUS
  <2>2. ~(Opens(py, l) \/ l.kind = "TurnEnd") => Starts' \ {Open'} = Starts \ {Open}
    OBVIOUS
  <2>3. CASE Closes(py, l)
    <3>1. o # 0 /\ o \in Starts /\ o \in 1 .. m
      BY <1>2, <2>3 DEF Closes
    <3> PICK p \in Nat : o = p + 1
      <4>1. o - 1 \in Nat /\ o = o - 1 + 1
        BY <3>1
      <4> QED
        BY <4>1
    <3>2. Starts \ {Open} \in SUBSET (1 .. p)
      BY <3>1
    <3>3. Begins' = Append(Begins, p + 1) /\ Begins \in Seq(Nat)
      <4> PICK u \in Seq(Turn) : u = py.turns
        BY <1>1
      <4>1. \A k \in 1 .. Len(u) : u[k].begin \in Nat
        <5>1. \A t \in Turn : t.begin \in Nat
          BY DEF Turn
        <5> QED
          BY <5>1
      <4>2. Begins = [k \in 1 .. Len(u) |-> u[k].begin] /\ Len(u) \in Nat
        OBVIOUS
      <4>3. Begins \in Seq(Nat) /\ Len(Begins) = Len(u)
        <5>1. /\ [k \in 1 .. Len(u) |-> u[k].begin] \in Seq(Nat)
              /\ Len([k \in 1 .. Len(u) |-> u[k].begin]) = Len(u)
          BY <4>1
        <5> QED
          BY <4>2, <5>1, Zenon
      <4>4. py'.turns = Append(u, done)
        BY <1>1, <2>3
      <4>5. /\ DOMAIN Append(u, done) = 1 .. Len(u) + 1
            /\ \A k \in 1 .. Len(u) : Append(u, done)[k] = u[k]
            /\ Append(u, done)[Len(u) + 1] = done
        OBVIOUS
      <4>6. Begins' = [k \in 1 .. Len(u) + 1 |-> IF k = Len(u) + 1 THEN p + 1 ELSE u[k].begin]
        BY <4>4, <4>5, <1>2
      <4>7. Append(Begins, p + 1) = [k \in 1 .. Len(u) + 1 |-> IF k = Len(u) + 1 THEN p + 1 ELSE u[k].begin]
        BY <4>2, <4>3
      <4> QED
        BY <4>3, <4>6, <4>7
    <3>4. InOrder(Append(Begins, p + 1), (Starts \ {Open}) \cup {p + 1})
      <4> HIDE DEF Begins
      <4> QED
        BY <1>3, <3>2, <3>3, InOrderGrown, Zenon
    <3>5. (Starts \ {Open}) \cup {p + 1} = Starts
      BY <3>1
    <3> QED
      BY <2>1, <2>3, <3>3, <3>4, <3>5 DEF Closes
  <2>4. CASE ~Closes(py, l)
    <3>1. Begins' = Begins
      BY <1>1, <2>4
    <3>2. Starts' \ {Open'} = Starts \ {Open}
      <4>1. Opens(py, l) \/ l.kind = "TurnEnd" => Open = 0
        BY <1>2, <2>4 DEF Closes
      <4> QED
        BY <4>1, <2>1, <2>2
    <3> QED
      BY <3>1, <3>2, <1>3
  <2> QED
    BY <2>3, <2>4
<1>7. ASSUME NEW t \in ToSet(py'.turns) PROVE t.begin <= t.end
  <2>1. o <= N
    OBVIOUS
  <2> QED
    BY <1>2, <1>3, <1>5, <2>1
<1>8. ASSUME NEW t \in ToSet(py'.turns), t.begin # 0
      PROVE  InOrder(t.status, Mine(t.begin)')
  <2>1. CASE t \in ToSet(py.turns)
    <3>1. Mine(t.begin)' = Mine(t.begin)
      BY <1>4, <2>1
    <3> QED
      BY <3>1, <1>3, <1>8, <2>1
  <2>2. CASE Closes(py, l) /\ t = done
    <3>1. ~Bills(l)
      BY <2>2 DEF Closes, Opens, Prompting, Bills
    <3>2. Mine(o)' = Mine(o)
      BY <3>1
    <3>3. o # 0 => InOrder(py.turn.status, Mine(o))
      BY <1>2, <1>3
    <3> QED
      BY <3>2, <3>3, <1>2, <1>8, <2>2
  <2> QED
    BY <1>5, <2>1, <2>2
<1>9. ASSUME now.begin # 0
      PROVE  InOrder(now.status, Mine(now.begin)')
  <2>1. CASE Opens(py, l)
    <3>1. now.begin = m + 1 /\ now.status = <<>>
      BY <1>1, <2>1 DEF NoTurn
    <3>2. InOrder(<<>>, {})
      BY DEF InOrder, ToSet
    <3>3. Mine(m + 1)' = {}
      BY <2>1
    <3> QED
      BY <3>1, <3>2, <3>3, Zenon
  <2>2. CASE ~Opens(py, l) /\ l.kind = "TurnEnd"
    BY <1>1, <1>9, <2>2 DEF NoTurn
  <2>3. CASE ~Opens(py, l) /\ l.kind # "TurnEnd" /\ Bills(l) /\ py.turn # NoTurn
    <3>1. now.begin = o /\ now.status = Append(py.turn.status, m + 1)
      BY <1>1, <1>2, <2>3 DEF Turn
    <3>2. Mine(o)' = Mine(o) \cup {m + 1} /\ Mine(o) \in SUBSET (1 .. m)
      BY <2>3
    <3>3. InOrder(py.turn.status, Mine(o)) /\ py.turn.status \in Seq(Nat)
      BY <1>1, <1>2, <1>3, <2>3 DEF Turn
    <3>4. InOrder(Append(py.turn.status, m + 1), Mine(o) \cup {m + 1})
      BY <3>2, <3>3, InOrderGrown
    <3> QED
      BY <3>1, <3>2, <3>4, Zenon
  <2>4. CASE ~Opens(py, l) /\ l.kind # "TurnEnd" /\ ~(Bills(l) /\ py.turn # NoTurn)
    <3>1. now = py.turn
      BY <1>1, <2>4
    <3>2. o # 0 => Mine(o)' = Mine(o)
      BY <1>2, <2>4
    <3>3. o # 0 => InOrder(py.turn.status, Mine(o))
      BY <1>2, <1>3
    <3> QED
      BY <3>1, <3>2, <3>3, <1>2, <1>9
  <2> QED
    BY <2>1, <2>2, <2>3, <2>4
<1>10. ASSUME NEW t \in ToSet(py'.turns) \cup {now}, t.begin # 0
       PROVE  InOrder(t.status, Mine(t.begin)')
  BY <1>8, <1>9, <1>10
<1>11. ASSUME NEW b PROVE Mine(b)' = {i \in Billed' : TurnAt(i)' = b}
  BY DEF Mine
<1> QED
  BY <1>6, <1>7, <1>10, <1>11 DEF TurnsKnown

(* What the kinds of a format leave out.                                   *)
LEMMA KindFacts ==
  ASSUME NEW s \in Sources, NEW l \in s.letters
  PROVE  /\ s.format = "kimi-code" =>
              l.kind \notin {"StatusUpdate", "TurnBegin", "TurnEnd", "ToolCall", "ToolResult", "ContentPart", "claude"}
         /\ s.format = "legacy" =>
              /\ l.kind \notin {"usage.record", "assistant", "tool.call", "claude"}
              /\ l.model = NoModel
         /\ s.format = "claude" => l.kind \in {"torn", "other", "claude"}
         /\ s.format \in {"kimi-code", "legacy", "claude"}
<1>1. IsLine(l, s.format) /\ s.format \in {"kimi-code", "legacy", "claude"}
  BY SourceAssumption
<1>2. CASE s.format = "kimi-code"
  BY <1>1, <1>2 DEF IsLine, KindsOf, KcMarker, Message, LoopEvent
<1>3. CASE s.format = "legacy"
  BY <1>1, <1>3 DEF IsLine, KindsOf, LegacyMarker
<1>4. CASE s.format = "claude"
  BY <1>1, <1>4 DEF IsLine, KindsOf
<1> QED
  BY <1>1, <1>2, <1>3, <1>4

(* A result of a legacy transcript is a ToolResult.                        *)
LEMMA LegacyResult ==
  ASSUME NEW s \in Sources, NEW l \in s.letters, s.format = "legacy",
         l.kind \in {"tool", "tool.result", "ToolResult"}
  PROVE  l.kind = "ToolResult"
<1>1. IsLine(l, s.format)
  BY SourceAssumption
<1> QED
  BY <1>1 DEF IsLine, KindsOf, LegacyMarker

(* The tool uses of a line are those of its calls.                         *)
LEMMA CallsAdded ==
  ASSUME NEW u \in Seq(Use), NEW C, NEW calls \in Seq(C), NEW n,
         NEW q \in ToSet(u \o CallsAt(n, calls))
  PROVE  q \in ToSet(u) \/ \E k \in 1 .. Len(calls) : q.call = calls[k]
<1> DEFINE c == CallsAt(n, calls)
<1>1. /\ Len(calls) \in Nat /\ DOMAIN c = 1 .. Len(calls) /\ Len(c) = Len(calls)
      /\ \A k \in 1 .. Len(calls) : c[k] = [line |-> n, call |-> calls[k], churn |-> 1]
      /\ c = [k \in 1 .. Len(calls) |-> c[k]]
  BY DEF CallsAt
<1> HIDE DEF c
<1>2. /\ DOMAIN (u \o c) = 1 .. Len(u) + Len(calls) /\ Len(u) \in Nat /\ DOMAIN u = 1 .. Len(u)
      /\ \A i \in 1 .. Len(u) : (u \o c)[i] = u[i]
      /\ \A i \in Len(u) + 1 .. Len(u) + Len(calls) : (u \o c)[i] = c[i - Len(u)]
  BY <1>1
<1>3. PICK i \in 1 .. Len(u) + Len(calls) : q = (u \o c)[i]
  BY <1>2 DEF ToSet, c
<1>4. CASE i <= Len(u)
  BY <1>2, <1>3, <1>4 DEF ToSet
<1>5. CASE ~(i <= Len(u))
  <2>1. i - Len(u) \in 1 .. Len(calls) /\ q = c[i - Len(u)]
    BY <1>2, <1>3, <1>5
  <2> QED
    BY <2>1, <1>1
<1> QED
  BY <1>4, <1>5

(* Both parsers read the flags of a result alike, but for one spelling.    *)
LEMMA FlagsAgree ==
  ASSUME NEW l, Resulting(l), ~AliasOnly(l)
  PROVE  JsFailed(l) <=> PyFailed(l)
<1>1. CASE l.kind = "tool.result"
  <2>1. "is_error" \in l.err => "isError" \in l.err
    BY <1>1 DEF AliasOnly
  <2>2. JsFailed(l) <=> "isError" \in l.err \/ "is_error" \in l.err
    BY <1>1 DEF JsFailed
  <2>3. PyFailed(l) <=> "isError" \in l.err
    BY <1>1 DEF PyFailed
  <2> QED
    BY <2>1, <2>2, <2>3
<1>2. CASE l.kind = "tool"
  BY <1>2 DEF JsFailed, PyFailed
<1>3. CASE l.kind = "ToolResult"
  BY <1>3 DEF JsFailed, PyFailed
<1> QED
  BY <1>1, <1>2, <1>3 DEF Resulting

(* A result adds its row, and a legacy call is known to both parsers.      *)
LEMMA RowsLine ==
  ASSUME TInv, StepKnown, RowsKnown, NEW l \in source.letters, Line(l)
  PROVE  RowsKnown'
<1> PICK m \in Nat :
      /\ m = Len(wire) /\ N = m + 1
      /\ wire'[m + 1] = l /\ \A j \in 1 .. m : wire'[j] = wire[j]
  BY Before
<1>0. source \in Sources /\ source' = source /\ py.uses \in Seq(Use) /\ js.rows \in Seq(Row)
  BY DEF TInv, Line, PyState, JsState
<1>1. /\ js'.rows = IF Resulting(l) THEN Append(js.rows, RowAt(m + 1, l)) ELSE js.rows
      /\ js'.results = IF Answering(l) THEN JsAnswered(js.results, l) ELSE js.results
      /\ js'.called = IF l.kind = "ToolCall" THEN js.called \cup Named(l.calls) ELSE js.called
  BY DEF Line, JsAfter
<1>2. /\ py'.uses = IF Calling(l) THEN py.uses \o CallsAt(N, l.calls) ELSE py.uses
      /\ py'.results = IF Answering(l) THEN Answered(py.results, l) ELSE py.results
  BY DEF Line, PyAfter
<1>3. /\ Resulted \in SUBSET (1 .. m)
      /\ Resulted' = IF Resulting(l) THEN Resulted \cup {m + 1} ELSE Resulted
  BY LinesGrow DEF Resulted, Resulting
<1>4. ToSet(js'.rows) = {RowAt(i, wire'[i]) : i \in Resulted'}
  <2>1. {RowAt(i, wire'[i]) : i \in Resulted} = {RowAt(i, wire[i]) : i \in Resulted}
    BY <1>3
  <2>2. ToSet(js.rows) = {RowAt(i, wire[i]) : i \in Resulted}
    BY DEF RowsKnown
  <2>3. CASE ~Resulting(l)
    BY <2>1, <2>2, <2>3, <1>1, <1>3
  <2>4. CASE Resulting(l)
    <3>1. ToSet(js'.rows) = ToSet(js.rows) \cup {RowAt(m + 1, l)}
      BY <1>0, <1>1, <2>4, ToSetGrown
    <3>2. {RowAt(i, wire'[i]) : i \in Resulted \cup {m + 1}}
            = {RowAt(i, wire'[i]) : i \in Resulted} \cup {RowAt(m + 1, l)}
      OBVIOUS
    <3> QED
      BY <2>1, <2>2, <2>4, <3>1, <3>2, <1>3
  <2> QED
    BY <2>3, <2>4
<1>5. source.format # "legacy" => js'.called = {}
  <2>1. source.format # "legacy" => l.kind # "ToolCall"
    BY <1>0, KindFacts
  <2> QED
    BY <2>1, <1>1 DEF RowsKnown
<1>6. ASSUME source.format = "legacy" PROVE js'.results = py'.results
  <2>1. Answering(l) => l.kind = "ToolResult"
    BY <1>0, <1>6, LegacyResult DEF Answering
  <2>2. Answering(l) => (JsFailed(l) <=> PyFailed(l))
    BY <2>1 DEF JsFailed, PyFailed
  <2>3. Answering(l) => JsAnswered(js.results, l) = Answered(js.results, l)
    BY <2>2, Zenon DEF JsAnswered, Answered
  <2>4. js.results = py.results
    BY <1>6 DEF RowsKnown
  <2> QED
    BY <1>1, <1>2, <2>3, <2>4
<1>7. ASSUME source.format = "legacy", NEW q \in ToSet(py'.uses)
      PROVE  q.call \in js'.called \cup {NoId}
  <2>1. \A r \in ToSet(py.uses) : r.call \in js.called \cup {NoId}
    BY <1>7 DEF RowsKnown
  <2>2. Calling(l) => l.kind = "ToolCall"
    BY <1>0, <1>7, KindFacts DEF Calling
  <2>3. CASE ~Calling(l)
    BY <2>1, <2>3, <1>1, <1>2, <1>7
  <2>4. CASE Calling(l)
    <3> PICK u \in Seq(Use), calls \in Seq(CallId \cup {NoId}) : u = py.uses /\ calls = l.calls
      BY <1>0, LineFacts
    <3>1. q \in ToSet(u \o CallsAt(N, calls))
      BY <1>2, <1>7, <2>4
    <3>2. q \in ToSet(u) \/ \E k \in 1 .. Len(calls) : q.call = calls[k]
      BY <3>1, CallsAdded
    <3>3. \A k \in 1 .. Len(calls) : calls[k] \in Named(l.calls) \cup {NoId}
      BY DEF Named, ToSet
    <3>4. js'.called = js.called \cup Named(l.calls)
      BY <1>1, <2>2, <2>4
    <3> QED
      BY <2>1, <3>2, <3>3, <3>4
  <2> QED
    BY <2>3, <2>4
<1> QED
  BY <1>0, <1>4, <1>5, <1>6, <1>7 DEF RowsKnown

(* The page books what the lines say, as the backend does.                 *)
LEMMA PageLine ==
  ASSUME TInv, StepKnown, AnchorKnown, TextKnown, FirstKnown, PageKnown,
         NEW l \in source.letters, Line(l)
  PROVE  PageKnown'
<1> PICK m \in Nat :
      /\ m = Len(wire) /\ N = m + 1
      /\ DOMAIN wire = 1 .. m /\ DOMAIN wire' = 1 .. m + 1
      /\ wire'[m + 1] = l /\ \A j \in 1 .. m : wire'[j] = wire[j]
      /\ \A j \in 1 .. m : wire[j] \in source.letters
      /\ Billed \in SUBSET (1 .. m)
      /\ Billed' = IF Bills(l) THEN Billed \cup {m + 1} ELSE Billed
  BY Before
<1> PICK row : row = IF l.kind = "usage.record"
                     THEN MetaAt(m + 1, l, l.model, l.input, jsLatency(js, l.ts))
                     ELSE MetaAt(m + 1, l, NoModel, IF l.usage THEN l.input ELSE 0, NoLatency)
  OBVIOUS
<1> DEFINE Meters == l.kind = "usage.record" \/ l.kind = "StatusUpdate"
                       \/ (l.kind = "torn" /\ source.format = "legacy")
           Kimi == source.format = "kimi-code"
<1>0. source \in Sources /\ source' = source /\ js.metas \in Seq(Meta1)
  BY DEF TInv, Line, PyState, JsState
<1>1. /\ js'.metas = IF Meters THEN Append(js.metas, row) ELSE js.metas
      /\ js'.pending = IF Prompting(l) THEN l.ts
                      ELSE IF l.kind \in {"usage.record", "TurnEnd"} THEN NoTime
                      ELSE js.pending
  BY DEF Line, JsAfter
<1>2. py'.anchor = IF Prompting(l) THEN l.ts
                   ELSE IF Bills(l) \/ (l.kind = "TurnEnd" /\ py.turn # NoTurn) THEN NoTime
                   ELSE py.anchor
  BY DEF Line, PyAfter
<1>3. /\ Kimi => js.pending = py.anchor
      /\ InOrder(LinesOf(js.metas), Metered)
  BY DEF PageKnown
<1>4. \A r \in ToSet(js.metas) : MetaKnown(r)
  BY DEF PageKnown
<1>6. Kimi => js'.pending = py'.anchor
  <2>1. Kimi => l.kind \notin {"StatusUpdate", "TurnEnd"}
    BY <1>0, KindFacts
  <2> QED
    BY <2>1, <1>1, <1>2, <1>3 DEF Bills
<1>7. Metered \in SUBSET (1 .. m) /\ Metered' = IF Meters THEN Metered \cup {m + 1} ELSE Metered
  <2>1. /\ Lines({"usage.record", "StatusUpdate"}) \in SUBSET (1 .. m)
        /\ Lines({"torn"}) \in SUBSET (1 .. m)
        /\ Lines({"usage.record", "StatusUpdate"})'
             = IF l.kind \in {"usage.record", "StatusUpdate"}
               THEN Lines({"usage.record", "StatusUpdate"}) \cup {m + 1}
               ELSE Lines({"usage.record", "StatusUpdate"})
        /\ Lines({"torn"})' = IF l.kind = "torn" THEN Lines({"torn"}) \cup {m + 1} ELSE Lines({"torn"})
    BY LinesGrow
  <2> QED
    BY <2>1, <1>0 DEF Metered
<1>8. ASSUME NEW r \in ToSet(js.metas) PROVE MetaKnown(r)'
  <2>1. r.line \in 1 .. m
    <3>1. r.line \in ToSet(LinesOf(js.metas))
      BY DEF LinesOf, ToSet
    <3> QED
      BY <3>1, <1>3, <1>7 DEF InOrder
  <2>2. Latency(r.line)' = Latency(r.line)
    BY <2>1, Stable
  <2>3. r.line \in Billed' <=> r.line \in Billed
    BY <2>1
  <2> QED
    BY <1>0, <1>4, <2>1, <2>2, <2>3 DEF MetaKnown
<1>9. CASE ~Meters
  <2>1. js'.metas = js.metas /\ Metered' = Metered
    BY <1>1, <1>7, <1>9
  <2>2. \A r \in ToSet(js'.metas) : MetaKnown(r)'
    BY <2>1, <1>8
  <2>3. InOrder(LinesOf(js'.metas), Metered')
    BY <2>1, <1>3
  <2> QED
    BY <1>0, <1>6, <2>2, <2>3 DEF PageKnown
<1>10. CASE Meters
  <2>1. LinesOf(js.metas) \in Seq(Nat)
    <3>1. \A q \in Meta1 : q.line \in Nat
      BY DEF Meta1
    <3> PICK u \in Seq(Meta1) : u = js.metas
      BY <1>0
    <3>2. \A k \in 1 .. Len(u) : u[k].line \in Nat
      BY <3>1
    <3>3. LinesOf(u) = [k \in 1 .. Len(u) |-> u[k].line]
      BY DEF LinesOf
    <3>4. LinesOf(u) \in Seq(Nat)
      BY <3>2, <3>3
    <3> QED
      BY <3>4, Zenon
  <2>2. row.line = m + 1 /\ row.ts = l.ts
    BY DEF MetaAt
  <2>3. LinesOf(js'.metas) = Append(LinesOf(js.metas), m + 1)
    <3>1. LinesOf(Append(js.metas, row)) = Append(LinesOf(js.metas), row.line)
      BY <1>0, LinesOfGrown, Zenon
    <3> QED
      BY <1>1, <1>10, <2>2, <3>1
  <2>4. InOrder(LinesOf(js'.metas), Metered')
    BY <1>3, <1>7, <1>10, <2>1, <2>3, InOrderGrown
  <2>5. ToSet(js'.metas) = ToSet(js.metas) \cup {row}
    BY <1>0, <1>1, <1>10, ToSetGrown
  <2>6. m + 1 \in Billed' <=> Bills(l)
    OBVIOUS
  <2>7. CASE l.kind = "usage.record"
    <3>1. Bills(l) /\ ~Prompting(l)
      BY <2>7 DEF Bills, Prompting
    <3>2. row.model = l.model /\ row.input = l.input /\ row.latency = jsLatency(js, l.ts)
      BY <2>7 DEF MetaAt
    <3>3. Kimi => Latency(m + 1)' = row.latency
      <4> SUFFICES ASSUME Kimi PROVE Latency(m + 1)' = row.latency
        OBVIOUS
      <4>1. Latency(m + 1)' = ReplyLatency(py.anchor, l.ts)
        BY <3>1, Newest
      <4> QED
        BY <4>1, <3>2, <1>3 DEF jsLatency, ReplyLatency
    <3>4. MetaKnown(row)'
      BY <1>0, <2>2, <2>6, <3>1, <3>2, <3>3 DEF MetaKnown
    <3> QED
      BY <1>0, <1>6, <1>8, <2>4, <2>5, <3>4 DEF PageKnown
  <2>8. CASE l.kind # "usage.record"
    <3>1. row.model = NoModel /\ row.input = IF l.usage THEN l.input ELSE 0
      BY <2>8 DEF MetaAt
    <3>2. source.format = "legacy" /\ l.model = NoModel
      BY <1>0, <1>10, <2>8, KindFacts
    <3>3. Bills(l) => l.usage
      BY <2>8 DEF Bills
    <3>4. ~Bills(l) => l.kind = "torn" \/ ~l.usage
      BY <1>10, <2>8 DEF Bills
    <3>5. MetaKnown(row)'
      BY <1>0, <2>2, <2>6, <3>1, <3>2, <3>3, <3>4 DEF MetaKnown
    <3> QED
      BY <1>0, <1>6, <1>8, <2>4, <2>5, <3>5 DEF PageKnown
  <2> QED
    BY <2>7, <2>8
<1> QED
  BY <1>9, <1>10

(***************************************************************************)
(* The invariant holds always                                              *)
(***************************************************************************)
LEMMA UnderstoodInit == Init => Understood
<1> SUFFICES ASSUME Init PROVE Understood
  OBVIOUS
<1>1. TInv
  BY TInvInit
<1>2. DOMAIN wire = {}
  BY DEF Init
<1>3. /\ \A K : Lines(K) = {}
      /\ Prompts = {} /\ Ends = {} /\ Billed = {} /\ Starts = {} /\ Steps = {} /\ Says = {}
      /\ Dated = {} /\ Metered = {} /\ Resulted = {} /\ \A c : ResultsOf(c) = {}
  <2>1. \A K : Lines(K) = {}
    BY <1>2 DEF Lines
  <2> QED
    BY <2>1, <1>2 DEF Prompts, Ends, Billed, Starts, Steps, Says, Dated, Metered, Resulted, ResultsOf
<1>4. LastIn({}) = 0
  BY DEF LastIn
<1>5. Open = 0 /\ Asked = 0
  BY <1>3, <1>4 DEF Open, Asked
<1>6. /\ py.records = <<>> /\ py.uses = <<>> /\ py.results = [c \in CallId |-> "open"]
      /\ py.turns = <<>> /\ py.turn = NoTurn /\ py.turnId = NoId
      /\ py.anchor = NoTime /\ py.text = 0 /\ py.first = NoTime
      /\ js.metas = <<>> /\ js.rows = <<>> /\ js.results = [c \in CallId |-> "open"]
      /\ js.called = {} /\ js.pending = NoTime
  BY DEF Init, PyStart, JsStart
<1>7. StepKnown
  BY <1>3, <1>4, <1>6 DEF StepKnown
<1>8. TurnKnown
  BY <1>5, <1>6 DEF TurnKnown, NoTurn
<1>9. AnchorKnown
  BY <1>5, <1>6 DEF AnchorKnown
<1>10. TextKnown
  <2>1. {j \in Says : LastIn(Starts) <= j} = {}
    BY <1>3
  <2> QED
    BY <2>1, <1>6, SumOfNone DEF TextKnown
<1>11. FirstKnown
  BY <1>3, <1>6 DEF FirstKnown
<1>12. ResultsKnown
  BY <1>3, <1>4, <1>6 DEF ResultsKnown
<1>13. UsesKnown
  <2>1. [i \in DOMAIN wire |-> wire[i].calls] = <<>>
    BY DEF Init
  <2>2. FlattenSeq(<<>>) = <<>>
    BY DEF FlattenSeq
  <2>3. [k \in DOMAIN py.uses |-> py.uses[k].call] = <<>>
    BY <1>6
  <2> QED
    BY <2>1, <2>2, <2>3 DEF UsesKnown
<1>14. InOrder(<<>>, {}) /\ ToSet(<<>>) = {} /\ LinesOf(<<>>) = <<>>
  BY DEF InOrder, ToSet, LinesOf
<1>15. TurnsKnown
  <2>1. [k \in DOMAIN py.turns |-> py.turns[k].begin] = <<>>
    BY <1>6
  <2>2. py.turn.begin = 0
    BY <1>6 DEF NoTurn
  <2>3. Starts \ {Open} = {}
    BY <1>3
  <2>4. ToSet(py.turns) = {}
    BY <1>6, <1>14
  <2> QED
    BY <1>14, <2>1, <2>2, <2>3, <2>4 DEF TurnsKnown
<1>16. RecordsMatchWire
  BY <1>3, <1>6, <1>14 DEF RecordsMatchWire
<1>17. PageKnown
  BY <1>3, <1>6, <1>14 DEF PageKnown
<1>18. RowsKnown
  BY <1>3, <1>6, <1>14 DEF RowsKnown
<1> QED
  BY <1>18, <1>1, <1>7, <1>8, <1>9, <1>10, <1>11, <1>12, <1>13, <1>15, <1>16, <1>17 DEF Understood

(* A stutter changes nothing.                                              *)
LEMMA UnderstoodStays ==
  ASSUME Understood, UNCHANGED vars
  PROVE  Understood'
<1>1. source' = source /\ wire' = wire /\ py' = py /\ js' = js
  BY DEF vars
<1>2. TInv'
  BY <1>1 DEF Understood, TInv, JsState
<1>3. \A K : Lines(K)' = Lines(K)
  BY <1>1 DEF Lines
<1>4. /\ Prompts' = Prompts /\ Ends' = Ends /\ Billed' = Billed
      /\ Steps' = Steps /\ Says' = Says /\ Dated' = Dated /\ Metered' = Metered
      /\ Resulted' = Resulted
      /\ \A c : ResultsOf(c)' = ResultsOf(c)
  BY <1>1, <1>3 DEF Prompts, Ends, Billed, Steps, Says, Dated, Metered, Resulted, ResultsOf
<1>5. Starts' = Starts
  BY <1>1, <1>3, <1>4 DEF Starts
<1>6. Open' = Open /\ Asked' = Asked
  BY <1>4, <1>5 DEF Open, Asked
<1>7. \A i : TurnAt(i)' = TurnAt(i) /\ Answers(i)' = Answers(i)
  BY <1>4, <1>5 DEF TurnAt, Answers
<1>8. \A i : Latency(i)' = Latency(i) /\ LabelTime(i)' = LabelTime(i)
  BY <1>1, <1>7 DEF Latency, LabelTime
<1>9. \A i : Text(i)' = Text(i)
  BY <1>1, <1>3, <1>5 DEF Text
<1>10. (StepKnown /\ TurnKnown /\ AnchorKnown)'
  BY <1>1, <1>4, <1>6 DEF Understood, StepKnown, TurnKnown, AnchorKnown
<1>11. (TextKnown /\ FirstKnown /\ ResultsKnown /\ UsesKnown)'
  BY <1>1, <1>4, <1>5 DEF Understood, TextKnown, FirstKnown, ResultsKnown, UsesKnown
<1>12. TurnsKnown'
  BY <1>1, <1>4, <1>5, <1>6, <1>7 DEF Understood, TurnsKnown
<1>13. RecordsMatchWire'
  BY <1>1, <1>4, <1>8, <1>9 DEF Understood, RecordsMatchWire
<1>14. PageKnown'
  BY <1>1, <1>4, <1>8 DEF Understood, PageKnown, MetaKnown
<1>15. RowsKnown'
  BY <1>1, <1>4 DEF Understood, RowsKnown
<1> QED
  BY <1>2, <1>10, <1>11, <1>12, <1>13, <1>14, <1>15 DEF Understood

(* The invariant is inductive.                                             *)
LEMMA UnderstoodNext == Understood /\ [Next]_vars => Understood'
<1> SUFFICES ASSUME Understood, [Next]_vars PROVE Understood'
  OBVIOUS
<1>1. CASE UNCHANGED vars
  BY <1>1, UnderstoodStays
<1>2. CASE Next
  <2> PICK l \in source.letters : Line(l)
    BY <1>2, EveryStep DEF Understood
  <2>1. /\ TInv /\ StepKnown /\ TurnKnown /\ AnchorKnown /\ TextKnown /\ FirstKnown
        /\ ResultsKnown /\ UsesKnown /\ TurnsKnown /\ RecordsMatchWire
        /\ RowsKnown /\ PageKnown
    BY DEF Understood
  <2>2. (TInv /\ StepKnown /\ TurnKnown /\ AnchorKnown)'
    BY <2>1, TInvLine, StepKnownLine, TurnKnownLine, AnchorKnownLine
  <2>3. (TextKnown /\ FirstKnown /\ ResultsKnown /\ UsesKnown)'
    BY <2>1, TextKnownLine, FirstKnownLine, ResultsKnownLine, UsesLine
  <2>4. (TurnsKnown /\ RecordsMatchWire /\ RowsKnown /\ PageKnown)'
    BY <2>1, TurnsLine, RecordsLine, RowsLine, PageLine
  <2> QED
    BY <2>2, <2>3, <2>4 DEF Understood
<1> QED
  BY <1>1, <1>2

(* The parse state always says of the lines read what the invariant lists. *)
THEOREM UnderstoodAlways == Spec => []Understood
<1>1. Init => Understood
  BY UnderstoodInit
<1>2. Understood /\ [Next]_vars => Understood'
  BY UnderstoodNext
<1> QED
  BY <1>1, <1>2, PTL DEF Spec

(* Every billing line of a transcript becomes one record of the backend's  *)
(* parse, in order, with the latency, text and model its lines say.        *)
THEOREM RecordsRight == Spec => []RecordsMatchWire
<1>1. Understood => RecordsMatchWire
  BY DEF Understood
<1> QED
  BY <1>1, UnderstoodAlways, PTL

(***************************************************************************)
(* What follows from it                                                    *)
(***************************************************************************)
LEMMA Bounds ==
  ASSUME TInv
  PROVE  \E m \in Nat :
           /\ DOMAIN wire = 1 .. m
           /\ \A i \in 1 .. m : wire[i] \in source.letters /\ wire[i].ts \in Nat
           /\ Billed \in SUBSET (1 .. m) /\ Metered \in SUBSET (1 .. m) /\ Billed \subseteq Metered
           /\ \A i \in 1 .. m : Latency(i) \in Int /\ Latency(i) >= NoLatency
<1> PICK m \in Nat : m = Len(wire)
  BY DEF TInv
<1>1. DOMAIN wire = 1 .. m /\ \A i \in 1 .. m : wire[i] \in source.letters
  BY DEF TInv
<1>2. \A i \in 1 .. m : wire[i].ts \in Nat
  BY <1>1, LineFacts DEF TInv
<1>3. \A K : Lines(K) \in SUBSET (1 .. m)
  BY <1>1 DEF Lines
<1>4. Billed \in SUBSET (1 .. m) /\ Metered \in SUBSET (1 .. m) /\ Billed \subseteq Metered
  BY <1>3 DEF Billed, Metered, Lines
<1>5. ASSUME NEW i \in 1 .. m PROVE Latency(i) \in Int /\ Latency(i) >= NoLatency
  <2>1. Up(Prompts, i) \in SUBSET (1 .. m)
    BY <1>3 DEF Up, Prompts
  <2>2. LastIn(Up(Prompts, i)) \in 0 .. m
    BY <2>1, LastInRange
  <2>3. Answers(i) \in 0 .. m
    BY <2>2 DEF Answers
  <2>4. Answers(i) # 0 => wire[Answers(i)].ts \in Nat
    BY <1>2, <2>3
  <2> QED
    BY <1>2, <2>3, <2>4 DEF Latency, NoLatency
<1> QED
  BY <1>1, <1>2, <1>4, <1>5

(* The parse states keep their types, and every line number they hold      *)
(* points into the file.                                                   *)
THEOREM ParserTypeCorrect == Spec => []TypeOK
<1>1. ASSUME Understood PROVE TypeOK
  <2>1. TInv /\ TurnsKnown /\ RecordsMatchWire /\ PageKnown
    BY <1>1 DEF Understood
  <2> PICK m \in Nat :
           /\ DOMAIN wire = 1 .. m
           /\ \A i \in 1 .. m : wire[i] \in source.letters /\ wire[i].ts \in Nat
           /\ Billed \in SUBSET (1 .. m) /\ Metered \in SUBSET (1 .. m) /\ Billed \subseteq Metered
           /\ \A i \in 1 .. m : Latency(i) \in Int /\ Latency(i) >= NoLatency
    BY <2>1, Bounds
  <2>2. source \in Sources /\ ToSet(wire) \subseteq source.letters /\ Len(wire) <= source.longest
    BY <2>1 DEF TInv, ToSet
  <2>3. ASSUME NEW r \in ToSet(py.records)
        PROVE  r.line \in DOMAIN wire /\ r.model \in Label /\ r.latency \in Int /\ r.latency >= NoLatency
    <3>1. r.line \in ToSet(LinesOf(py.records))
      BY DEF LinesOf, ToSet
    <3>2. r.line \in 1 .. m
      BY <3>1, <2>1 DEF RecordsMatchWire, InOrder
    <3>3. r.latency = Latency(r.line) /\ r.model \in Label
      BY <2>1, LadderLabels DEF RecordsMatchWire
    <3> QED
      BY <3>2, <3>3
  <2>4. \A t \in ToSet(py.turns) : t.begin <= t.end
    BY <2>1 DEF TurnsKnown
  <2>5. {py.results, js.results} \subseteq [CallId -> Outcome]
    BY <2>1 DEF TInv, PyState, JsState
  <2>6. ASSUME NEW r \in ToSet(js.metas) PROVE r.line \in DOMAIN wire
    <3>1. r.line \in ToSet(LinesOf(js.metas))
      BY DEF LinesOf, ToSet
    <3> QED
      BY <3>1, <2>1 DEF PageKnown, InOrder
  <2> QED
    BY <2>2, <2>3, <2>4, <2>5, <2>6 DEF TypeOK
<1> QED
  BY <1>1, UnderstoodAlways, PTL

(* A tool call gets the outcome of its last result in the file, a failed   *)
(* call has no churn, and the page marks the results of a call as failed   *)
(* exactly when the call is booked as failed, but for the one spelling     *)
(* that only parser.js reads.                                              *)
THEOREM ToolUsesRight == Spec => []ToolUsesMatchWire
<1>1. ASSUME Understood PROVE ToolUsesMatchWire
  <2>1. TInv /\ ResultsKnown /\ UsesKnown /\ RowsKnown
    BY <1>1 DEF Understood
  <2> PICK u \in Seq(Use) : u = py.uses
    BY <2>1 DEF TInv, PyState
  <2> DEFINE outcome(c) == IF ~Settled(c) THEN "open"
                           ELSE IF PyFailed(wire[ResultLine(c)]) THEN "error" ELSE "ok"
             seen(c) == IF c = NoId THEN "open" ELSE py.results[c]
             uses == ToolUses(py)
             calls == Calls
  <2>2. /\ DOMAIN u = 1 .. Len(u) /\ Len(u) \in Nat
        /\ \A k \in 1 .. Len(u) : u[k].call \in CallId \cup {NoId} /\ u[k].churn = 1
    <3>1. \A q \in Use : q.call \in CallId \cup {NoId} /\ q.churn = 1
      BY DEF Use
    <3> QED
      BY <3>1
  <2>3. calls = [k \in 1 .. Len(u) |-> u[k].call] /\ Len(calls) = Len(u)
    <3>1. [k \in 1 .. Len(u) |-> u[k].call] = calls
      BY <2>1, <2>2 DEF UsesKnown, Calls
    <3>2. Len([k \in 1 .. Len(u) |-> u[k].call]) = Len(u)
      BY <2>2
    <3> HIDE DEF calls
    <3> QED
      BY <3>1, <3>2
  <2>4. ASSUME NEW c \in CallId \cup {NoId} PROVE outcome(c) = seen(c)
    <3>1. ResultLine(c) = LastIn(ResultsOf(c))
      BY DEF ResultLine, ResultsOf
    <3> QED
      BY <2>1, <3>1 DEF ResultsKnown, Settled
  <2>5. uses = [i \in 1 .. Len(u) |->
                 [line |-> u[i].line, outcome |-> seen(u[i].call),
                  churn |-> IF seen(u[i].call) = "error" THEN 0 ELSE u[i].churn]]
    BY <2>2 DEF ToolUses
  <2>6. Len(uses) = Len(u) /\ DOMAIN uses = 1 .. Len(u)
    <3> HIDE DEF seen, uses
    <3> QED
      BY <2>2, <2>5
  <2> HIDE DEF seen, uses, calls, outcome
  <2>7. ASSUME NEW k \in 1 .. Len(u)
        PROVE  /\ uses[k].line = u[k].line /\ uses[k].outcome = seen(u[k].call)
               /\ calls[k] = u[k].call /\ outcome(calls[k]) = seen(u[k].call)
               /\ uses[k].churn = IF seen(u[k].call) = "error" THEN 0 ELSE 1
    <3>1. uses[k] = [line |-> u[k].line, outcome |-> seen(u[k].call),
                     churn |-> IF seen(u[k].call) = "error" THEN 0 ELSE u[k].churn]
      BY <2>5
    <3>2. calls[k] = u[k].call
      BY <2>3
    <3>3. outcome(calls[k]) = seen(u[k].call)
      BY <2>2, <2>4, <3>2
    <3> QED
      BY <3>1, <3>2, <3>3, <2>2
  <2>8. ASSUME NEW k \in 1 .. Len(u), Settled(calls[k]), ~AliasOnly(wire[ResultLine(calls[k])])
        PROVE  MarkedFailed(calls[k]) = {uses[k].outcome = "error"}
    <3> PICK c \in CallId : c = calls[k]
      BY <2>2, <2>7, <2>8 DEF Settled
    <3> PICK m \in Nat : m = Len(wire)
      BY <2>1 DEF TInv
    <3> PICK i : i = ResultLine(c)
      OBVIOUS
    <3>0. DOMAIN wire = 1 .. m /\ \A j \in 1 .. m : wire[j] \in source.letters
      BY <2>1 DEF TInv
    <3>1. i \in Resulted /\ wire[i].id = c /\ i \in 1 .. m
      <4>1. i = LastIn(ResultsOf(c)) /\ i # 0
        BY <2>8 DEF ResultLine, ResultsOf, Settled
      <4>2. ResultsOf(c) \in SUBSET (1 .. m)
        BY <3>0 DEF ResultsOf, Lines
      <4>3. i \in ResultsOf(c)
        BY <4>1, <4>2, LastInRange
      <4> QED
        BY <4>2, <4>3 DEF ResultsOf, Resulted
    <3>2. Resulting(wire[i])
      <4>1. source \in Sources
        BY <2>1 DEF TInv
      <4> QED
        BY <3>0, <3>1, <4>1, LineFacts DEF Resulted, Lines, Resulting
    <3>3. JsFailed(wire[i]) <=> PyFailed(wire[i])
      BY <2>8, <3>2, FlagsAgree
    <3>4. /\ uses[k].outcome = seen(c) /\ seen(c) = py.results[c]
          /\ seen(c) = IF PyFailed(wire[i]) THEN "error" ELSE "ok"
      BY <2>7, <2>8, IdAssumption DEF seen, outcome
    <3>5. \E j \in DOMAIN js.rows : js.rows[j] = RowAt(i, wire[i])
      BY <2>1, <3>1 DEF RowsKnown, ToSet
    <3>6. ASSUME NEW j \in DOMAIN js.rows
          PROVE  /\ \E h \in Resulted : js.rows[j] = RowAt(h, wire[h])
                 /\ js.rows[j].failed \in BOOLEAN
      <4>1. js.rows[j] \in ToSet(js.rows)
        BY DEF ToSet
      <4>2. js.rows[j] \in Row
        BY <2>1 DEF TInv, JsState
      <4> QED
        BY <2>1, <4>1, <4>2 DEF RowsKnown, Row
    <3>7. CASE source.format = "legacy"
      <4>1. c \in js.called
        <5>1. u[k] \in ToSet(py.uses) /\ u[k].call = c
          BY <2>2, <2>7 DEF ToSet
        <5> QED
          BY <2>1, <3>7, <5>1, IdAssumption DEF RowsKnown
      <4>2. js.results[c] = uses[k].outcome
        BY <2>1, <3>4, <3>7 DEF RowsKnown
      <4>3. ASSUME NEW j \in DOMAIN js.rows, js.rows[j].call = c
            PROVE  /\ ResultRows(js)[j].call = c
                   /\ ResultRows(js)[j].failed = (uses[k].outcome = "error")
        BY <3>6, <4>1, <4>2, <4>3 DEF ResultRows, RowAt
      <4>4. ASSUME NEW j \in DOMAIN js.rows, js.rows[j].call # c
            PROVE  ResultRows(js)[j].call # c
        BY <3>6, <4>4 DEF ResultRows, RowAt
      <4>5. DOMAIN ResultRows(js) = DOMAIN js.rows
        BY DEF ResultRows
      <4>6. \E j \in DOMAIN js.rows : js.rows[j].call = c
        BY <3>1, <3>5 DEF RowAt
      <4>7. MarkedFailed(c) = {ResultRows(js)[j].failed : j \in {h \in DOMAIN js.rows : ResultRows(js)[h].call = c}}
        BY <3>7, <4>5 DEF MarkedFailed, ToSet
      <4> QED
        BY <4>3, <4>4, <4>6, <4>7
    <3>8. CASE source.format # "legacy"
      <4>1. ResultRows(js) = [j \in DOMAIN js.rows |-> js.rows[j]]
        BY <2>1, <3>8 DEF ResultRows, RowsKnown
      <4>2. ASSUME NEW j \in DOMAIN js.rows, js.rows[j].line = i
            PROVE  js.rows[j].failed = (uses[k].outcome = "error")
        <5> PICK h \in Resulted : js.rows[j] = RowAt(h, wire[h])
          BY <3>6
        <5>1. js.rows[j] = RowAt(i, wire[i])
          <6>1. RowAt(h, wire[h]).line = h
            BY DEF RowAt
          <6> QED
            BY <6>1, <4>2
        <5>2. js.rows[j].failed = JsFailed(wire[i])
          BY <5>1 DEF RowAt
        <5> QED
          BY <3>3, <3>4, <3>6, <5>2
      <4>3. \E j \in DOMAIN js.rows : js.rows[j].line = i
        BY <3>5 DEF RowAt
      <4>4. MarkedFailed(c) = {js.rows[j].failed : j \in {h \in DOMAIN js.rows : js.rows[h].line = i}}
        BY <3>8, <4>1 DEF MarkedFailed, ToSet
      <4> QED
        BY <4>2, <4>3, <4>4
    <3> QED
      BY <3>7, <3>8
  <2>9. /\ Len(uses) = Len(calls)
        /\ \A k \in DOMAIN uses :
             /\ uses[k].outcome = outcome(calls[k])
             /\ uses[k].churn = IF outcome(calls[k]) = "error" THEN 0 ELSE 1
    BY <2>3, <2>6, <2>7
  <2> QED
    BY <2>6, <2>8, <2>9 DEF ToolUsesMatchWire, uses, calls, outcome
<1> QED
  BY <1>1, UnderstoodAlways, PTL

(* The page bills the lines the backend bills, once each, with the same    *)
(* context, model and, in kimi-code, latency.                              *)
THEOREM MirrorRight == Spec => []MirrorRecords
<1>1. ASSUME Understood PROVE MirrorRecords
  <2>1. TInv /\ RecordsMatchWire /\ PageKnown
    BY <1>1 DEF Understood
  <2> PICK m \in Nat :
           /\ DOMAIN wire = 1 .. m
           /\ \A i \in 1 .. m : wire[i] \in source.letters /\ wire[i].ts \in Nat
           /\ Billed \in SUBSET (1 .. m) /\ Metered \in SUBSET (1 .. m) /\ Billed \subseteq Metered
           /\ \A i \in 1 .. m : Latency(i) \in Int /\ Latency(i) >= NoLatency
    BY <2>1, Bounds
  <2> DEFINE page == JsRecords(js)
             row(q) == [line |-> q.line, ts |-> q.ts, input |-> q.input, text |-> js.text,
                        latency |-> q.latency,
                        model |-> modelFor(q.model, IF q.ts # NoTime THEN q.ts ELSE FirstEventTs(js))]
  <2>2. page = [i \in DOMAIN js.metas |-> row(js.metas[i])]
    BY DEF JsRecords
  <2>3. /\ \A q \in ToSet(js.metas) : row(q) \in ToSet(page)
        /\ \A r \in ToSet(page) : \E q \in ToSet(js.metas) : r = row(q)
        /\ LinesOf(page) = LinesOf(js.metas)
    <3> HIDE DEF page
    <3>1. DOMAIN page = DOMAIN js.metas /\ \A i \in DOMAIN js.metas : page[i] = row(js.metas[i])
      BY <2>2
    <3>2. \A i \in DOMAIN js.metas : page[i].line = js.metas[i].line
      <4>1. \A q : row(q).line = q.line
        OBVIOUS
      <4> HIDE DEF row
      <4> QED
        BY <3>1, <4>1
    <3> HIDE DEF row
    <3> QED
      BY <3>1, <3>2 DEF ToSet, LinesOf
  <2> HIDE DEF page
  <2>4. InOrder(LinesOf(page), Metered) /\ ToSet(LinesOf(page)) = Metered
    BY <2>1, <2>3 DEF PageKnown, InOrder
  <2>5. \A q \in ToSet(js.metas) : q.line \in Metered /\ MetaKnown(q)
    <3>1. \A q \in ToSet(js.metas) : q.line \in ToSet(LinesOf(js.metas))
      BY DEF ToSet, LinesOf
    <3> QED
      BY <3>1, <2>1, <2>3, <2>4 DEF PageKnown
  <2>6. ASSUME NEW r \in ToSet(py.records)
        PROVE  \E x \in ToSet(page) :
                 /\ x.line = r.line /\ x.input = r.input
                 /\ x.ts # NoTime => x.model = r.model
                 /\ source.format = "kimi-code" => x.latency = r.latency
    <3>1. r.line \in ToSet(LinesOf(py.records))
      BY DEF ToSet, LinesOf
    <3>2. r.line \in Billed /\ r.line \in Metered
      BY <3>1, <2>1 DEF RecordsMatchWire, InOrder
    <3>3. /\ r.input = wire[r.line].input /\ r.latency = Latency(r.line)
          /\ r.model = ModelFor(wire[r.line].model, LabelTime(r.line))
      BY <2>1 DEF RecordsMatchWire
    <3> PICK q \in ToSet(js.metas) : q.line = r.line
      <4>1. r.line \in ToSet(LinesOf(js.metas))
        BY <3>2, <2>3, <2>4
      <4>2. PICK i \in DOMAIN LinesOf(js.metas) : r.line = LinesOf(js.metas)[i]
        BY <4>1 DEF ToSet
      <4>3. i \in DOMAIN js.metas /\ js.metas[i].line = r.line
        BY <4>2 DEF LinesOf
      <4> QED
        BY <4>3 DEF ToSet
    <3>4. /\ q.ts = wire[r.line].ts /\ q.model = wire[r.line].model /\ q.input = wire[r.line].input
          /\ source.format = "kimi-code" => q.latency = Latency(r.line)
      BY <3>2, <2>5 DEF MetaKnown
    <3>5. q.ts # NoTime => LabelTime(r.line) = q.ts
      BY <3>4 DEF LabelTime
    <3>6. /\ row(q).line = q.line /\ row(q).input = q.input /\ row(q).ts = q.ts
          /\ row(q).latency = q.latency
          /\ q.ts # NoTime => row(q).model = ModelFor(q.model, q.ts)
      BY DEF modelFor, ModelFor
    <3> HIDE DEF row
    <3>7. /\ row(q).line = r.line /\ row(q).input = r.input
          /\ row(q).ts # NoTime => row(q).model = r.model
          /\ source.format = "kimi-code" => row(q).latency = r.latency
      BY <3>3, <3>4, <3>5, <3>6
    <3> QED
      BY <3>7, <2>3
  <2>7. ASSUME NEW r \in ToSet(page)
        PROVE  r.line \in Billed \/ r.input = 0 \/ wire[r.line].kind = "torn"
    <3> PICK q \in ToSet(js.metas) : r = row(q)
      BY <2>3
    <3>1. r.line = q.line /\ r.input = q.input
      OBVIOUS
    <3> QED
      BY <3>1, <2>5 DEF MetaKnown
  <2>8. InOrder(LinesOf(page), ToSet(LinesOf(page)))
    BY <2>4
  <2> QED
    BY <2>6, <2>7, <2>8 DEF MirrorRecords, page
<1> QED
  BY <1>1, UnderstoodAlways, PTL

(* The first line that gives a format away, when all that do give the same.*)
LEMMA MarksAgree ==
  ASSUME NEW s \in Sources, NEW l \in s.letters
  PROVE  /\ s.format = "kimi-code" => KimiMark(l) \in {"kimi-code", "none"}
         /\ s.format = "legacy" => KimiMark(l) \in {"legacy", "none"}
         /\ l.kind = "usage.record" => KimiMark(l) = "kimi-code"
         /\ s.format # "claude" => ClaudeMark(l) = KimiMark(l)
         /\ s.format = "claude" => ClaudeMark(l) \in {"claude", "none"}
         /\ l.kind = "claude" => ClaudeMark(l) = "claude"
<1>1. IsLine(l, s.format) /\ s.format \in {"kimi-code", "legacy", "claude"}
  BY SourceAssumption
<1>2. /\ s.format = "kimi-code" => l.kind \in {"torn", "other", "llm.error", "metadata"} \cup KcMarker
      /\ s.format = "legacy" => l.kind \in {"torn", "other", "TurnEnd", "ToolResult", "metadata"} \cup LegacyMarker
      /\ s.format = "claude" => l.kind \in {"torn", "other", "claude"}
      /\ l.kind = "metadata" => (l.ts # NoTime <=> s.format = "kimi-code")
  <2>1. CASE s.format = "kimi-code"
    BY <1>1, <2>1 DEF IsLine, KindsOf
  <2>2. CASE s.format = "legacy"
    BY <1>1, <2>2 DEF IsLine, KindsOf
  <2>3. CASE s.format = "claude"
    BY <1>1, <2>3 DEF IsLine, KindsOf
  <2> QED
    BY <1>1, <2>1, <2>2, <2>3
<1>3. /\ "usage.record" \in KcMarker
      /\ \A k \in {"metadata", "torn", "other", "llm.error", "TurnEnd", "ToolResult", "claude"} :
            k \notin KcMarker /\ k \notin LegacyMarker
      /\ \A k \in KcMarker : k \notin LegacyMarker /\ k # "metadata"
      /\ \A k \in LegacyMarker : k \notin KcMarker /\ k # "metadata"
  BY DEF KcMarker, LegacyMarker, Message, LoopEvent
<1>4. CASE s.format = "kimi-code"
  BY <1>2, <1>3, <1>4 DEF KimiMark, ClaudeMark
<1>5. CASE s.format = "legacy"
  BY <1>2, <1>3, <1>5 DEF KimiMark, ClaudeMark
<1>6. CASE s.format = "claude"
  BY <1>2, <1>3, <1>6 DEF KimiMark, ClaudeMark
<1> QED
  BY <1>1, <1>4, <1>5, <1>6

(* A file with a billing line is read by the parser of its own format on   *)
(* both sides, and a Claude transcript is refused.                         *)
THEOREM DetectedRight == Spec => []DetectionRight
<1>1. ASSUME TInv PROVE DetectionRight
  <2> PICK m \in Nat :
           /\ DOMAIN wire = 1 .. m
           /\ \A i \in 1 .. m : wire[i] \in source.letters
    BY <1>1 DEF TInv
  <2> DEFINE kimi == {i \in DOMAIN wire : KimiMark(wire[i]) # "none"}
             claude == {i \in DOMAIN wire : ClaudeMark(wire[i]) # "none"}
  <2>1. /\ JsFormat(wire) = IF kimi = {} THEN "legacy" ELSE KimiMark(wire[Min(kimi)])
        /\ PyFormat(wire) = IF claude = {} THEN "legacy" ELSE ClaudeMark(wire[Min(claude)])
    BY DEF JsFormat, PyFormat, FirstMark
  <2>2. kimi \in SUBSET Nat /\ claude \in SUBSET Nat
    OBVIOUS
  <2>3. source \in Sources /\ source.format \in {"kimi-code", "legacy", "claude"}
    BY <1>1, SourceAssumption DEF TInv
  <2>4. (kimi # {} => Min(kimi) \in kimi) /\ (claude # {} => Min(claude) \in claude)
    <3> HIDE DEF kimi, claude
    <3> QED
      BY <2>2, MinRange
  <2>5. CASE source.format = "kimi-code"
    <3>1. claude = kimi
      BY <2>3, <2>5, MarksAgree
    <3>2. kimi # {} => JsFormat(wire) = "kimi-code" /\ PyFormat(wire) = "kimi-code"
      <4>1. \A i \in kimi : KimiMark(wire[i]) = "kimi-code" /\ ClaudeMark(wire[i]) = "kimi-code"
        BY <2>3, <2>5, MarksAgree
      <4> HIDE DEF kimi, claude
      <4> QED
        BY <4>1, <2>1, <2>4, <3>1
    <3>3. Billed \subseteq kimi
      BY <2>3, <2>5, MarksAgree, KindFacts DEF Billed, Lines
    <3> QED
      BY <2>5, <3>2, <3>3 DEF DetectionRight
  <2>6. CASE source.format = "legacy"
    <3>1. claude = kimi
      BY <2>3, <2>6, MarksAgree
    <3>2. JsFormat(wire) = "legacy" /\ PyFormat(wire) = "legacy"
      <4>1. \A i \in kimi : KimiMark(wire[i]) = "legacy" /\ ClaudeMark(wire[i]) = "legacy"
        BY <2>3, <2>6, MarksAgree
      <4> HIDE DEF kimi, claude
      <4> QED
        BY <4>1, <2>1, <2>4, <3>1
    <3> QED
      BY <2>6, <3>2 DEF DetectionRight
  <2>7. CASE source.format = "claude"
    <3>1. Billed = {}
      BY <2>3, <2>7, KindFacts DEF Billed, Lines
    <3>2. Lines({"claude"}) \subseteq claude
      BY <2>3, MarksAgree DEF Lines
    <3>3. claude # {} => PyFormat(wire) = "claude"
      <4>1. \A i \in claude : ClaudeMark(wire[i]) = "claude"
        BY <2>3, <2>7, MarksAgree
      <4> HIDE DEF claude
      <4> QED
        BY <4>1, <2>1, <2>4
    <3> QED
      BY <3>1, <3>2, <3>3 DEF DetectionRight
  <2> QED
    BY <2>3, <2>5, <2>6, <2>7
<1> QED
  BY <1>1, TInvAlways, PTL

(***************************************************************************)
(* The loop of _ctx_turns_from_turns, by the turns                         *)
(***************************************************************************)
CtxStep(recs, g, n) == IF n = 0 THEN <<>> ELSE NextCtx(g[n - 1], recs[n])
CtxGoes(recs, g) == g = [n \in 0 .. Len(recs) |-> CtxStep(recs, g, n)]

(* The loop over the turns is a function over their number.                *)
LEMMA CtxUnfolds ==
  ASSUME NEW recs
  PROVE  CtxOf(recs) = (CHOOSE g : CtxGoes(recs, g))[Len(recs)]
BY DEF CtxOf, CtxGoes, CtxStep

(* There is such a function.                                               *)
LEMMA CtxExists ==
  ASSUME NEW recs, Len(recs) \in Nat
  PROVE  \E g : CtxGoes(recs, g)
<1> DEFINE Part(n, g) == g = [i \in 0 .. n |-> CtxStep(recs, g, i)]
           T == {n \in Nat : ~ \E g : Part(n, g)}
<1>1. T = {}
  <2>1. SUFFICES ASSUME T # {} PROVE FALSE
    OBVIOUS
  <2>2. PICK n \in T : \A k \in T : n <= k
    BY <2>1, LeastNat
  <2>3. n # 0
    <3> DEFINE g == [i \in 0 .. 0 |-> <<>>]
    <3>1. g = [i \in 0 .. 0 |-> CtxStep(recs, g, i)]
      <4>1. \A i \in 0 .. 0 : CtxStep(recs, g, i) = <<>>
        BY DEF CtxStep
      <4> QED
        BY <4>1
    <3>2. Part(0, g)
      BY <3>1
    <3> QED
      BY <3>2
  <2> HIDE DEF Part
  <2>4. n - 1 \in Nat /\ n - 1 \notin T
    <3>1. n \in Nat /\ ~(n <= n - 1)
      OBVIOUS
    <3> QED
      BY <3>1, <2>2, <2>3
  <2>5. PICK g : Part(n - 1, g)
    BY <2>4
  <2> USE DEF Part
  <2> DEFINE h == [i \in 0 .. n |-> IF i = n THEN CtxStep(recs, g, n) ELSE g[i]]
  <2>6. ASSUME NEW i \in 0 .. n PROVE h[i] = CtxStep(recs, h, i)
    <3>1. n \in Nat
      BY <2>2
    <3>2. i = 0 \/ (i - 1 \in 0 .. n - 1 /\ i - 1 \in 0 .. n /\ i - 1 # n)
      BY <3>1
    <3>3. CtxStep(recs, h, i) = CtxStep(recs, g, i)
      BY <3>2 DEF CtxStep
    <3>4. CASE i = n
      BY <3>3, <3>4
    <3>5. CASE i # n
      <4>1. i \in 0 .. n - 1
        BY <3>1, <3>5
      <4>2. g[i] = CtxStep(recs, g, i)
        BY <4>1, <2>5
      <4> QED
        BY <4>2, <3>3, <3>5
    <3> QED
      BY <3>4, <3>5
  <2>7. Part(n, h)
    BY <2>6
  <2> QED
    BY <2>7, <2>2
<1> QED
  BY <1>1 DEF CtxGoes

SameAt(g, h, n) == g[n] = h[n]

(* It depends on the turns so far alone.                                   *)
LEMMA CtxAlike ==
  ASSUME NEW ss, NEW tt, NEW g, NEW h, Len(ss) \in Nat, Len(tt) \in Nat,
         CtxGoes(ss, g), CtxGoes(tt, h), NEW n \in Nat, n <= Len(ss), n <= Len(tt),
         SameTo(ss, tt, n)
  PROVE  SameAt(g, h, n)
<1> USE DEF SameTo, SameAt
<1> DEFINE T == {i \in Nat : i \in 0 .. n /\ g[i] # h[i]}
<1>1. SUFFICES ASSUME T # {} PROVE FALSE
  <2>1. n \in 0 .. n
    OBVIOUS
  <2> QED
    BY <2>1, Zenon
<1>2. PICK i \in T : \A k \in T : i <= k
  BY <1>1, LeastNat
<1>3. i \in 0 .. n /\ i \in 0 .. Len(ss) /\ i \in 0 .. Len(tt)
  OBVIOUS
<1>4. g[i] = CtxStep(ss, g, i) /\ h[i] = CtxStep(tt, h, i)
  BY <1>3 DEF CtxGoes
<1>5. i = 0 \/ (g[i - 1] = h[i - 1] /\ i \in 1 .. n)
  <2>1. i = 0 \/ (i \in 1 .. n /\ i - 1 \in 0 .. n /\ ~(i <= i - 1) /\ i - 1 \in Nat)
    BY <1>3
  <2> QED
    BY <2>1, <1>2
<1> QED
  BY <1>3, <1>4, <1>5 DEF CtxStep

(* One more turn is one more pass of the loop.                             *)
LEMMA CtxGrown ==
  ASSUME NEW R, NEW recs \in Seq(R), NEW r
  PROVE  CtxOf(Append(recs, r)) = NextCtx(CtxOf(recs), r)
<1> PICK tt : tt = Append(recs, r)
  OBVIOUS
<1> PICK m \in Nat : m = Len(recs)
  OBVIOUS
<1>1. /\ Len(recs) = m /\ Len(tt) = m + 1 /\ m + 1 \in Nat /\ m + 1 # 0 /\ m + 1 - 1 = m
      /\ tt[m + 1] = r /\ \A i \in 1 .. m : tt[i] = recs[i]
  OBVIOUS
<1> PICK h : h = CHOOSE u : CtxGoes(tt, u)
  OBVIOUS
<1> PICK g : g = CHOOSE u : CtxGoes(recs, u)
  OBVIOUS
<1>2. CtxGoes(tt, h) /\ CtxGoes(recs, g)
  <2>1. (\E u : CtxGoes(tt, u)) /\ (\E u : CtxGoes(recs, u))
    BY <1>1, CtxExists
  <2> QED
    BY <2>1
<1>3. CtxOf(tt) = h[m + 1] /\ CtxOf(recs) = g[m]
  BY <1>1, CtxUnfolds
<1>4. h[m + 1] = CtxStep(tt, h, m + 1)
  <2>1. m + 1 \in 0 .. Len(tt)
    BY <1>1
  <2> QED
    BY <2>1, <1>2 DEF CtxGoes
<1>5. SameAt(g, h, m)
  <2>1. /\ m <= Len(recs) /\ m <= Len(tt) /\ Len(recs) \in Nat /\ Len(tt) \in Nat
        /\ SameTo(recs, tt, m)
    BY <1>1 DEF SameTo
  <2> QED
    BY <2>1, <1>2, CtxAlike, Zenon
<1>6. CtxStep(tt, h, m + 1) = NextCtx(h[m], r)
  <2> PICK k : k = m + 1
    OBVIOUS
  <2>1. k # 0 /\ k - 1 = m /\ tt[k] = r
    BY <1>1
  <2>2. CtxStep(tt, h, k) = NextCtx(h[m], r)
    BY <2>1, Zenon DEF CtxStep
  <2> QED
    BY <2>2
<1> QED
  BY <1>3, <1>4, <1>5, <1>6 DEF SameAt

(* No turns, no trace.                                                     *)
LEMMA CtxOfNone == CtxOf(<<>>) = <<>>
<1> PICK none : none = <<>>
  OBVIOUS
<1>1. Len(none) = 0
  OBVIOUS
<1>2. PICK g : g = CHOOSE u : CtxGoes(none, u)
  OBVIOUS
<1>3. CtxGoes(none, g)
  <2>1. \E u : CtxGoes(none, u)
    BY <1>1, CtxExists
  <2> QED
    BY <2>1, <1>2
<1>4. g[0] = CtxStep(none, g, 0)
  <2>1. 0 \in 0 .. Len(none)
    BY <1>1
  <2> QED
    BY <2>1, <1>3 DEF CtxGoes
<1> QED
  BY <1>1, <1>2, <1>4, CtxUnfolds DEF CtxStep

(* Records in the order of their lines have a line each.                   *)
LEMMA OneRecord ==
  ASSUME NEW s \in Seq(Record), NEW S, InOrder(LinesOf(s), S),
         NEW a \in ToSet(s), NEW b \in ToSet(s), a.line = b.line
  PROVE  a = b
<1>1. \A q \in Record : q.line \in Int
  BY DEF Record
<1> HIDE DEF Record
<1>2. PICK i \in 1 .. Len(s) : a = s[i]
  BY DEF ToSet
<1>3. PICK j \in 1 .. Len(s) : b = s[j]
  BY DEF ToSet
<1>4. /\ DOMAIN LinesOf(s) = 1 .. Len(s)
      /\ LinesOf(s)[i] = a.line /\ LinesOf(s)[j] = b.line
  BY <1>2, <1>3 DEF LinesOf
<1>5. ~(i < j) /\ ~(j < i)
  <2>1. a.line \in Int
    BY <1>1, <1>2
  <2>2. \A x, y \in 1 .. Len(s) : x < y => LinesOf(s)[x] < LinesOf(s)[y]
    BY <1>4 DEF InOrder
  <2> QED
    BY <2>1, <2>2, <1>4
<1> QED
  BY <1>2, <1>3, <1>5

(* Each billing line has one record, and it is found.                      *)
LEMMA RecordKnown ==
  ASSUME TInv, RecordsMatchWire, NEW n \in Billed
  PROVE  /\ RecordAt(py, n) \in ToSet(py.records)
         /\ RecordAt(py, n).line = n /\ RecordAt(py, n).input = wire[n].input
         /\ \A r \in ToSet(py.records) : r.line = n => r = RecordAt(py, n)
<1>1. InOrder(LinesOf(py.records), Billed) /\ py.records \in Seq(Record)
  BY DEF RecordsMatchWire, TInv, PyState
<1>2. PICK i \in DOMAIN LinesOf(py.records) : n = LinesOf(py.records)[i]
  BY <1>1 DEF InOrder, ToSet
<1>3. i \in DOMAIN py.records /\ py.records[i].line = n
  BY <1>2 DEF LinesOf
<1>4. \E r \in ToSet(py.records) : r.line = n
  BY <1>3 DEF ToSet
<1>5. RecordAt(py, n) \in ToSet(py.records) /\ RecordAt(py, n).line = n
  BY <1>4 DEF RecordAt
<1> QED
  BY <1>1, <1>5, OneRecord DEF RecordsMatchWire

(* What stands for a turn in the context trace.                            *)
RecOf(st, t) == IF t.status = <<>> THEN NoRecord ELSE RecordAt(st, Last(t.status))
RecsOf(st, ts) == [k \in DOMAIN ts |-> RecOf(st, ts[k])]

(* The trace is that of all turns.                                         *)
LEMMA CtxTurnsAre ==
  ASSUME NEW st
  PROVE  CtxTurns(st) = CtxOf(RecsOf(st, AllTurns(st)))
BY DEF CtxTurns, CtxTurnsOf, RecsOf, RecOf

(* One more turn, one more record that stands for it.                      *)
LEMMA RecsGrown ==
  ASSUME NEW st, NEW ts \in Seq(Turn), NEW t \in Turn
  PROVE  RecsOf(st, Append(ts, t)) = Append(RecsOf(st, ts), RecOf(st, t))
<1>1. /\ DOMAIN Append(ts, t) = 1 .. Len(ts) + 1 /\ Append(ts, t)[Len(ts) + 1] = t
      /\ Len(ts) \in Nat /\ DOMAIN ts = 1 .. Len(ts)
      /\ \A i \in 1 .. Len(ts) : Append(ts, t)[i] = ts[i]
  OBVIOUS
<1>2. Len(RecsOf(st, ts)) = Len(ts)
  BY <1>1 DEF RecsOf
<1> QED
  BY <1>1, <1>2 DEF RecsOf

(* One more turn in the trace.                                             *)
LEMMA TraceGrown ==
  ASSUME NEW st, NEW ts \in Seq(Turn), NEW r
  PROVE  CtxOf(Append(RecsOf(st, ts), r)) = NextCtx(CtxOf(RecsOf(st, ts)), r)
<1> DEFINE R == {RecOf(st, ts[k]) : k \in DOMAIN ts}
<1>1. RecsOf(st, ts) \in Seq(R)
  BY DEF RecsOf
<1> QED
  BY <1>1, CtxGrown

(* All turns are the closed ones and the open one.                         *)
LEMMA EveryTurn ==
  ASSUME NEW st \in PyState
  PROVE  AllTurns(st) = Closed(st.turns, st.turn, 0)
<1> PICK a, b, c, d, e, f, g, h, i, j : st = St(a, b, c, d, e, f, g, h, i, j)
  BY DEF PyState, St
<1>1. st.turns = e /\ st.turn = f
  BY DEF St
<1>2. CloseTurn(st, 0).turns = Closed(e, f, 0)
  <2>1. CloseTurn(st, 0) = St(a, b, c, d, Closed(e, f, 0), NoTurn, g, h, i, j)
    BY CloseTurnFields
  <2> QED
    BY <2>1 DEF St
<1> QED
  BY <1>1, <1>2 DEF AllTurns

(* The closed turns' trace, and the turn left open after it.               *)
Shut(st) == CtxOf(RecsOf(st, st.turns))

(* The trace is that of the closed turns and then the open one.            *)
LEMMA CtxTurnsShut ==
  ASSUME NEW st \in PyState
  PROVE  CtxTurns(st) = IF st.turn = NoTurn THEN Shut(st) ELSE NextCtx(Shut(st), RecOf(st, st.turn))
<1>1. CtxTurns(st) = CtxOf(RecsOf(st, Closed(st.turns, st.turn, 0)))
  BY CtxTurnsAre, EveryTurn, Zenon
<1>2. st.turns \in Seq(Turn) /\ st.turn \in Turn
  BY DEF PyState
<1>3. CASE st.turn = NoTurn
  BY <1>1, <1>3 DEF Closed, Shut
<1>4. CASE st.turn # NoTurn
  <2> PICK t \in Turn : t = [st.turn EXCEPT !.end = 0]
    BY <1>2 DEF Turn
  <2>1. t.status = st.turn.status
    BY <1>2 DEF Turn
  <2>2. RecOf(st, t) = RecOf(st, st.turn)
    BY <2>1 DEF RecOf
  <2>3. CtxTurns(st) = CtxOf(Append(RecsOf(st, st.turns), RecOf(st, t)))
    BY <1>1, <1>2, <1>4, RecsGrown DEF Closed
  <2>4. CtxOf(Append(RecsOf(st, st.turns), RecOf(st, t))) = NextCtx(Shut(st), RecOf(st, t))
    BY <1>2, TraceGrown DEF Shut
  <2> QED
    BY <1>4, <2>2, <2>3, <2>4
<1> QED
  BY <1>3, <1>4

CtxRow == [idx : Nat, line : Nat, input : Nat, delta : Int]

(* A pass of the loop adds a row for a record with context, or nothing.    *)
LEMMA NextCtxRow ==
  ASSUME NEW ctx \in Seq(CtxRow), NEW r, r.line \in Nat, r.input \in Nat
  PROVE  \/ r.input = 0 /\ NextCtx(ctx, r) = ctx
         \/ r.input > 0 /\ \E x \in CtxRow : x.line = r.line /\ NextCtx(ctx, r) = Append(ctx, x)
<1>1. CASE r.input = 0
  BY <1>1 DEF NextCtx
<1>2. CASE r.input # 0
  <2> DEFINE b == IF ctx = <<>> THEN 0 ELSE Last(ctx).input
             x == [idx |-> Len(ctx) + 1, line |-> r.line, input |-> r.input, delta |-> r.input - b]
  <2>1. b \in Nat
    <3>1. ctx # <<>> => Last(ctx) \in CtxRow
      BY DEF Last
    <3>2. \A q \in CtxRow : q.input \in Nat
      BY DEF CtxRow
    <3> QED
      BY <3>1, <3>2
  <2>2. NextCtx(ctx, r) = Append(ctx, x)
    BY <1>2 DEF NextCtx
  <2> HIDE DEF b
  <2>3. x \in CtxRow /\ x.line = r.line
    <3>1. Len(ctx) + 1 \in Nat /\ r.input - b \in Int
      BY <2>1
    <3> QED
      BY <3>1 DEF CtxRow
  <2> HIDE DEF x
  <2>4. r.input > 0
    BY <1>2
  <2> QED
    BY <2>2, <2>3, <2>4
<1> QED
  BY <1>1, <1>2

(* The trace lists, in order, the records with context among those given.  *)
LEMMA CtxInOrder ==
  ASSUME NEW m \in Nat, NEW recs, Len(recs) \in Nat,
         \A k \in 1 .. Len(recs) : recs[k].line \in 0 .. m /\ recs[k].input \in Nat,
         \A k \in 1 .. Len(recs) : recs[k].input > 0 => recs[k].line # 0,
         \A j, k \in 1 .. Len(recs) :
            j < k /\ recs[j].input > 0 /\ recs[k].input > 0 => recs[j].line < recs[k].line
  PROVE  /\ CtxOf(recs) \in Seq(CtxRow)
         /\ InOrder(LinesOf(CtxOf(recs)),
                    {recs[k].line : k \in {i \in 1 .. Len(recs) : recs[i].input > 0}})
<1> DEFINE Kept(n) == {recs[k].line : k \in {i \in 1 .. n : recs[i].input > 0}}
<1>1. PICK g : g = CHOOSE u : CtxGoes(recs, u)
  OBVIOUS
<1>2. CtxGoes(recs, g)
  <2>1. \E u : CtxGoes(recs, u)
    BY CtxExists
  <2> QED
    BY <2>1, <1>1
<1>3. CtxOf(recs) = g[Len(recs)]
  BY <1>1, CtxUnfolds
<1>4. \A n \in 0 .. Len(recs) : g[n] = CtxStep(recs, g, n)
  BY <1>2 DEF CtxGoes
<1> DEFINE Good(n) == g[n] \in Seq(CtxRow) /\ InOrder(LinesOf(g[n]), Kept(n))
           T == {n \in Nat : n \in 0 .. Len(recs) /\ ~Good(n)}
<1>5. T = {}
  <2>1. SUFFICES ASSUME T # {} PROVE FALSE
    OBVIOUS
  <2>2. PICK n \in T : \A k \in T : n <= k
    BY <2>1, LeastNat
  <2>3. n \in Nat /\ n \in 0 .. Len(recs) /\ ~Good(n)
    OBVIOUS
  <2>4. n # 0
    <3> SUFFICES ASSUME n = 0 PROVE FALSE
      OBVIOUS
    <3>1. g[0] = <<>>
      BY <1>4, <2>3 DEF CtxStep
    <3>2. Kept(0) = {}
      OBVIOUS
    <3>3. InOrder(LinesOf(<<>>), {}) /\ <<>> \in Seq(CtxRow)
      BY DEF InOrder, LinesOf, ToSet
    <3> QED
      BY <2>3, <3>1, <3>2, <3>3
  <2> PICK k : k = n - 1
    OBVIOUS
  <2>5. k \in Nat /\ k \in 0 .. Len(recs) /\ n = k + 1 /\ n \in 1 .. Len(recs) /\ ~(n <= k)
    BY <2>3, <2>4
  <2>6. g[k] \in Seq(CtxRow) /\ InOrder(LinesOf(g[k]), Kept(k))
    <3>1. k \notin T
      BY <2>2, <2>5
    <3> HIDE DEF Kept
    <3> QED
      BY <3>1, <2>5
  <2>7. g[n] = NextCtx(g[k], recs[n])
    BY <1>4, <2>3, <2>4 DEF CtxStep
  <2>8. recs[n].line \in Nat /\ recs[n].line \in 0 .. m /\ recs[n].input \in Nat
    BY <2>5
  <2>9. CASE recs[n].input = 0 /\ NextCtx(g[k], recs[n]) = g[k]
    <3>1. Kept(n) = Kept(k)
      <4>1. {i \in 1 .. n : recs[i].input > 0} = {i \in 1 .. k : recs[i].input > 0}
        BY <2>5, <2>9
      <4> QED
        BY <4>1
    <3> HIDE DEF Kept
    <3> QED
      BY <3>1, <2>3, <2>6, <2>7, <2>9
  <2>10. CASE recs[n].input > 0 /\ \E x \in CtxRow : x.line = recs[n].line /\ NextCtx(g[k], recs[n]) = Append(g[k], x)
    <3> PICK x \in CtxRow : x.line = recs[n].line /\ NextCtx(g[k], recs[n]) = Append(g[k], x)
      BY <2>10
    <3> PICK p \in Nat : recs[n].line = p + 1
      <4>1. recs[n].line # 0
        BY <2>5, <2>10
      <4>2. recs[n].line - 1 \in Nat /\ recs[n].line = recs[n].line - 1 + 1
        BY <4>1, <2>8
      <4> QED
        BY <4>2
    <3>1. Kept(k) \in SUBSET (1 .. p)
      <4>1. ASSUME NEW i \in 1 .. k, recs[i].input > 0 PROVE recs[i].line \in 1 .. p
        <5>1. i \in 1 .. Len(recs) /\ i < n
          BY <2>5
        <5>2. recs[i].line \in 0 .. m /\ recs[i].line # 0 /\ recs[i].line < recs[n].line
          BY <5>1, <4>1, <2>5, <2>10
        <5> QED
          BY <5>2
      <4> QED
        BY <4>1
    <3>2. Kept(n) = Kept(k) \cup {p + 1}
      <4>1. {i \in 1 .. n : recs[i].input > 0} = {i \in 1 .. k : recs[i].input > 0} \cup {n}
        BY <2>5, <2>10
      <4> QED
        BY <4>1
    <3>3. LinesOf(g[n]) = Append(LinesOf(g[k]), p + 1)
      <4>1. LinesOf(Append(g[k], x)) = Append(LinesOf(g[k]), x.line)
        BY <2>6, LinesOfGrown, Zenon
      <4> QED
        BY <4>1, <2>7
    <3>4. LinesOf(g[k]) \in Seq(Nat)
      <4>1. \A q \in CtxRow : q.line \in Nat
        BY DEF CtxRow
      <4> PICK u \in Seq(CtxRow) : u = g[k]
        BY <2>6
      <4>2. \A i \in 1 .. Len(u) : u[i].line \in Nat
        BY <4>1
      <4>3. LinesOf(u) = [i \in 1 .. Len(u) |-> u[i].line]
        BY DEF LinesOf
      <4>4. LinesOf(u) \in Seq(Nat)
        BY <4>2, <4>3
      <4> QED
        BY <4>4, Zenon
    <3> HIDE DEF Kept
    <3>5. InOrder(LinesOf(g[n]), Kept(n))
      BY <2>6, <3>1, <3>2, <3>3, <3>4, InOrderGrown
    <3>6. g[n] \in Seq(CtxRow)
      BY <2>6, <2>7
    <3> QED
      BY <2>3, <3>5, <3>6
  <2> QED
    BY <2>6, <2>8, <2>9, <2>10, NextCtxRow
<1>6. Good(Len(recs))
  <2>1. Len(recs) \in Nat /\ Len(recs) \in 0 .. Len(recs)
    OBVIOUS
  <2> HIDE DEF Good
  <2> QED
    BY <1>5, <2>1
<1> QED
  BY <1>3, <1>6

(* The last billing line a turn lists is its last.                         *)
LEMMA LastOfTurn ==
  ASSUME NEW s \in Seq(Nat), NEW S, InOrder(s, S)
  PROVE  /\ s = <<>> => S = {}
         /\ s # <<>> => Last(s) \in S /\ \A j \in S : j <= Last(s)
<1>1. S = ToSet(s) /\ DOMAIN s = 1 .. Len(s) /\ \A i, j \in DOMAIN s : i < j => s[i] < s[j]
  BY DEF InOrder
<1>2. CASE s = <<>>
  BY <1>1, <1>2 DEF ToSet
<1>3. CASE s # <<>>
  <2> PICK n \in Nat : n = Len(s)
    OBVIOUS
  <2>1. n \in DOMAIN s /\ Last(s) = s[n] /\ DOMAIN s = 1 .. n
    BY <1>3 DEF Last
  <2>2. ASSUME NEW i \in 1 .. n PROVE s[i] <= s[n]
    <3>1. i = n \/ i < n
      OBVIOUS
    <3>2. s[i] \in Nat /\ s[n] \in Nat
      BY <2>1
    <3> QED
      BY <1>1, <2>1, <3>1, <3>2
  <2> QED
    BY <1>1, <1>3, <2>1, <2>2 DEF ToSet
<1> QED
  BY <1>2, <1>3

(* Lines of a later turn come later.                                       *)
LEMMA TurnsInOrder ==
  ASSUME NEW m \in Nat, Starts \in SUBSET (1 .. m), NEW i \in 1 .. m
  PROVE  /\ TurnAt(i) # 0 => TurnAt(i) \in Starts /\ TurnAt(i) <= i
         /\ \A j \in 1 .. m : TurnAt(i) # 0 /\ TurnAt(j) # 0 /\ TurnAt(i) < TurnAt(j) => i < j
<1>1. ASSUME NEW j \in 1 .. m, TurnAt(j) # 0
      PROVE  /\ TurnAt(j) \in Starts /\ TurnAt(j) <= j
             /\ \A b \in Starts : b <= j => b <= TurnAt(j)
  <2>1. TurnAt(j) = LastIn(Up(Starts, j))
    BY <1>1 DEF TurnAt
  <2>2. Up(Starts, j) \in SUBSET (1 .. m)
    BY DEF Up
  <2>3. /\ LastIn(Up(Starts, j)) \in Up(Starts, j)
        /\ \A b \in Up(Starts, j) : b <= LastIn(Up(Starts, j))
    BY <1>1, <2>1, <2>2, LastInRange
  <2> QED
    BY <2>1, <2>3 DEF Up
<1>2. ASSUME NEW j \in 1 .. m, TurnAt(i) # 0, TurnAt(j) # 0, TurnAt(i) < TurnAt(j) PROVE i < j
  <2>1. TurnAt(j) \in Starts /\ TurnAt(j) <= j /\ TurnAt(j) \in 1 .. m
    BY <1>1, <1>2
  <2>2. TurnAt(i) \in 1 .. m /\ (TurnAt(j) <= i => TurnAt(j) <= TurnAt(i))
    BY <1>1, <1>2, <2>1
  <2> QED
    BY <1>2, <2>1, <2>2
<1> QED
  BY <1>1, <1>2

(* All turns of the parse, the open one last, are the turns of the file.   *)
LEMMA AllTurnsKnown ==
  ASSUME TInv, TurnKnown, TurnsKnown
  PROVE  /\ Starts \in SUBSET (DOMAIN wire)
         /\ AllTurns(py) \in Seq(Turn)
         /\ InOrder([k \in DOMAIN AllTurns(py) |-> AllTurns(py)[k].begin], Starts)
         /\ \A t \in ToSet(AllTurns(py)) : t.begin \in Starts /\ InOrder(t.status, Mine(t.begin))
         /\ \A t \in ToSet(py.turns) : t.begin \in Starts /\ InOrder(t.status, Mine(t.begin))
<1> PICK m \in Nat : DOMAIN wire = 1 .. m
  BY DEF TInv
<1>0. py \in PyState
  BY DEF TInv
<1>1. Starts \in SUBSET (1 .. m)
  BY DEF Starts, Prompts, Lines
<1> PICK u \in Seq(Turn) : u = py.turns
  BY DEF TInv, PyState
<1> PICK o : o = Open
  OBVIOUS
<1> DEFINE Begins == [k \in DOMAIN u |-> u[k].begin]
<1>2. InOrder(Begins, Starts \ {o})
  BY DEF TurnsKnown
<1>3. \A t \in ToSet(u) \cup {py.turn} : t.begin # 0 => InOrder(t.status, Mine(t.begin))
  BY DEF TurnsKnown, Mine
<1>4. \A t \in ToSet(u) : t.begin \in Starts
  <2>1. \A t \in ToSet(u) : t.begin \in ToSet(Begins)
    BY DEF ToSet
  <2> HIDE DEF Begins
  <2> QED
    BY <2>1, <1>2 DEF InOrder
<1>5. \A t \in ToSet(u) : t.begin \in Starts /\ InOrder(t.status, Mine(t.begin))
  BY <1>1, <1>3, <1>4
<1>6. py.turn \in Turn /\ py.turn.begin = o /\ (py.turn = NoTurn <=> o = 0)
  BY DEF TInv, PyState, TurnKnown, NoTurn
<1>7. CASE py.turn = NoTurn
  <2>1. AllTurns(py) = u
    BY <1>0, <1>7, EveryTurn DEF Closed
  <2>2. Starts \ {o} = Starts
    BY <1>1, <1>6, <1>7
  <2> QED
    BY <1>1, <1>2, <1>5, <2>1, <2>2
<1>8. CASE py.turn # NoTurn
  <2> PICK done \in Turn : done = [py.turn EXCEPT !.end = 0]
    BY <1>6 DEF Turn
  <2>1. done.begin = o /\ done.status = py.turn.status /\ o # 0
    BY <1>6, <1>8 DEF Turn
  <2>2. AllTurns(py) = Append(u, done)
    BY <1>0, <1>8, EveryTurn DEF Closed
  <2>3. o \in Starts /\ \A j \in Starts : j <= o
    <3>1. LastIn(Starts) # 0 => LastIn(Starts) \in Starts /\ \A j \in Starts : j <= LastIn(Starts)
      BY <1>1, LastInRange
    <3>2. o = LastIn(Starts)
      BY <2>1 DEF Open
    <3> QED
      BY <2>1, <3>1, <3>2
  <2> PICK p \in Nat : o = p + 1
    <3>1. o \in 1 .. m
      BY <1>1, <2>3
    <3>2. o - 1 \in Nat /\ o = o - 1 + 1
      BY <3>1
    <3> QED
      BY <3>2
  <2>4. Starts \ {o} \in SUBSET (1 .. p) /\ (Starts \ {o}) \cup {p + 1} = Starts
    BY <1>1, <2>3
  <2>5. \A k \in 1 .. Len(u) : u[k].begin \in Nat
    <3>1. \A t \in Turn : t.begin \in Nat
      BY DEF Turn
    <3> QED
      BY <3>1
  <2>6. Begins = [k \in 1 .. Len(u) |-> u[k].begin] /\ Len(u) \in Nat
    OBVIOUS
  <2>7. Begins \in Seq(Nat) /\ Len(Begins) = Len(u)
    <3>1. /\ [k \in 1 .. Len(u) |-> u[k].begin] \in Seq(Nat)
          /\ Len([k \in 1 .. Len(u) |-> u[k].begin]) = Len(u)
      BY <2>5
    <3> QED
      BY <2>6, <3>1, Zenon
  <2>8. [k \in DOMAIN AllTurns(py) |-> AllTurns(py)[k].begin] = Append(Begins, p + 1)
    <3>1. /\ DOMAIN Append(u, done) = 1 .. Len(u) + 1
          /\ \A k \in 1 .. Len(u) : Append(u, done)[k] = u[k]
          /\ Append(u, done)[Len(u) + 1] = done
      OBVIOUS
    <3>2. [k \in DOMAIN AllTurns(py) |-> AllTurns(py)[k].begin]
            = [k \in 1 .. Len(u) + 1 |-> IF k = Len(u) + 1 THEN p + 1 ELSE u[k].begin]
      BY <2>1, <2>2, <3>1
    <3>3. Append(Begins, p + 1) = [k \in 1 .. Len(u) + 1 |-> IF k = Len(u) + 1 THEN p + 1 ELSE u[k].begin]
      <4>1. \A b \in Seq(Nat) : Append(b, p + 1) = [k \in 1 .. Len(b) + 1 |-> IF k = Len(b) + 1 THEN p + 1 ELSE b[k]]
        OBVIOUS
      <4>2. \A k \in 1 .. Len(u) : Begins[k] = u[k].begin
        BY <2>6
      <4> HIDE DEF Begins
      <4>3. Append(Begins, p + 1) = [k \in 1 .. Len(u) + 1 |-> IF k = Len(u) + 1 THEN p + 1 ELSE Begins[k]]
        BY <2>7, <4>1
      <4> QED
        BY <4>2, <4>3, <2>6
    <3> QED
      BY <3>2, <3>3
  <2> HIDE DEF Begins
  <2>9. InOrder(Append(Begins, p + 1), Starts)
    <3>1. InOrder(Append(Begins, p + 1), (Starts \ {o}) \cup {p + 1})
      BY <1>2, <2>4, <2>7, InOrderGrown, Zenon
    <3> QED
      BY <2>4, <3>1, Zenon
  <2>10. ToSet(AllTurns(py)) = ToSet(u) \cup {done}
    BY <2>2, ToSetGrown
  <2>11. InOrder(done.status, Mine(done.begin))
    BY <1>3, <1>6, <2>1
  <2>12. AllTurns(py) \in Seq(Turn)
    BY <2>2
  <2>13. InOrder([k \in DOMAIN AllTurns(py) |-> AllTurns(py)[k].begin], Starts)
    BY <2>8, <2>9, Zenon
  <2>14. \A t \in ToSet(AllTurns(py)) : t.begin \in Starts /\ InOrder(t.status, Mine(t.begin))
    BY <1>5, <2>1, <2>3, <2>10, <2>11
  <2> QED
    BY <1>1, <1>5, <2>12, <2>13, <2>14
<1> QED
  BY <1>7, <1>8

(* What stands in the trace for a turn: its last billing line.             *)
LEMMA TurnRecord ==
  ASSUME TInv, RecordsMatchWire, NEW t \in Turn, InOrder(t.status, Mine(t.begin))
  PROVE  /\ RecOf(py, t).line \in Nat /\ RecOf(py, t).input \in Nat
         /\ t.status = <<>> => RecOf(py, t).input = 0 /\ RecOf(py, t).line = 0 /\ Mine(t.begin) = {}
         /\ t.status # <<>> => /\ RecOf(py, t).line \in Mine(t.begin)
                               /\ RecOf(py, t).input = wire[RecOf(py, t).line].input
                               /\ \A j \in Mine(t.begin) : j <= RecOf(py, t).line
<1> PICK s \in Seq(Nat) : s = t.status
  BY DEF Turn
<1> PICK S : S = Mine(t.begin)
  OBVIOUS
<1>1. /\ s = <<>> => S = {}
      /\ s # <<>> => Last(s) \in S /\ \A j \in S : j <= Last(s)
  BY LastOfTurn
<1>2. CASE s = <<>>
  <2>1. RecOf(py, t) = NoRecord
    BY <1>2 DEF RecOf
  <2> QED
    BY <2>1, <1>1, <1>2 DEF NoRecord
<1>3. CASE s # <<>>
  <2> PICK n : n = Last(s)
    OBVIOUS
  <2>1. n \in Billed /\ n \in S
    BY <1>1, <1>3 DEF Mine
  <2>2. RecOf(py, t) = RecordAt(py, n)
    BY <1>3 DEF RecOf
  <2>3. RecordAt(py, n) \in ToSet(py.records) /\ RecordAt(py, n).line = n /\ RecordAt(py, n).input = wire[n].input
    BY <2>1, RecordKnown
  <2>4. RecordAt(py, n) \in Record
    <3>1. py.records \in Seq(Record)
      BY DEF TInv, PyState
    <3> QED
      BY <3>1, <2>3 DEF ToSet
  <2>5. RecordAt(py, n).line \in Nat /\ RecordAt(py, n).input \in Nat
    BY <2>4 DEF Record
  <2> QED
    BY <1>1, <1>3, <2>1, <2>2, <2>3, <2>5
<1> QED
  BY <1>2, <1>3

(* The trace of turns that are in order lists their last records with      *)
(* context, in order.                                                      *)
LEMMA TraceKnown ==
  ASSUME TInv, RecordsMatchWire, NEW A \in Seq(Turn), NEW S, S \subseteq Starts,
         InOrder([k \in DOMAIN A |-> A[k].begin], S),
         \A t \in ToSet(A) : InOrder(t.status, Mine(t.begin))
  PROVE  /\ CtxOf(RecsOf(py, A)) \in Seq(CtxRow)
         /\ InOrder(LinesOf(CtxOf(RecsOf(py, A))),
                    {i \in Billed : /\ wire[i].input > 0 /\ TurnAt(i) \in S
                                    /\ \A j \in Billed : TurnAt(j) = TurnAt(i) => j <= i})
<1> PICK m \in Nat : DOMAIN wire = 1 .. m /\ Billed \in SUBSET (1 .. m)
  BY Bounds
<1>0. Starts \in SUBSET (1 .. m) /\ 0 \notin S
  <2>1. Starts \in SUBSET (1 .. m)
    BY DEF Starts, Prompts, Lines
  <2> QED
    BY <2>1
<1> DEFINE recs == RecsOf(py, A)
           Last2 == {i \in Billed : /\ wire[i].input > 0 /\ TurnAt(i) \in S
                                    /\ \A j \in Billed : TurnAt(j) = TurnAt(i) => j <= i}
<1>1. DOMAIN recs = 1 .. Len(A) /\ Len(recs) = Len(A) /\ Len(A) \in Nat
      /\ \A k \in 1 .. Len(A) : recs[k] = RecOf(py, A[k])
  BY DEF RecsOf
<1> HIDE DEF recs
<1>2. ASSUME NEW k \in 1 .. Len(A)
      PROVE  /\ A[k].begin \in S
             /\ recs[k].line \in Nat /\ recs[k].input \in Nat
             /\ A[k].status = <<>> => recs[k].input = 0 /\ recs[k].line = 0 /\ Mine(A[k].begin) = {}
             /\ A[k].status # <<>> => /\ recs[k].line \in Mine(A[k].begin)
                                      /\ recs[k].input = wire[recs[k].line].input
                                      /\ \A j \in Mine(A[k].begin) : j <= recs[k].line
  <2>1. A[k] \in Turn /\ A[k] \in ToSet(A)
    BY DEF ToSet
  <2>2. A[k].begin \in S
    <3>1. A[k].begin \in ToSet([n \in DOMAIN A |-> A[n].begin])
      BY DEF ToSet
    <3> QED
      BY <3>1 DEF InOrder
  <2> PICK t \in Turn : t = A[k]
    BY <2>1
  <2>3. InOrder(t.status, Mine(t.begin))
    BY <2>1
  <2> QED
    BY <2>2, <2>3, <1>1, TurnRecord
<1>3. ASSUME NEW k \in 1 .. Len(A), recs[k].input > 0
      PROVE  /\ A[k].status # <<>> /\ recs[k].line \in Billed /\ recs[k].line \in 1 .. m
             /\ TurnAt(recs[k].line) = A[k].begin /\ A[k].begin \in S /\ A[k].begin \in Starts
             /\ TurnAt(recs[k].line) # 0
             /\ wire[recs[k].line].input > 0
             /\ \A j \in Billed : TurnAt(j) = A[k].begin => j <= recs[k].line
  <2>1. A[k].status # <<>>
    BY <1>2, <1>3
  <2>2. recs[k].line \in Mine(A[k].begin) /\ \A j \in Mine(A[k].begin) : j <= recs[k].line
    BY <2>1, <1>2
  <2>3. recs[k].input = wire[recs[k].line].input /\ A[k].begin \in S
    BY <2>1, <1>2
  <2> QED
    BY <2>1, <2>2, <2>3, <1>0, <1>3 DEF Mine
<1>4. ASSUME NEW j \in 1 .. Len(A), NEW k \in 1 .. Len(A), j < k, recs[j].input > 0, recs[k].input > 0
      PROVE  recs[j].line < recs[k].line
  <2>1. A[j].begin < A[k].begin
    BY <1>4 DEF InOrder
  <2> PICK x \in 1 .. m : x = recs[j].line
    BY <1>3, <1>4
  <2> PICK y \in 1 .. m : y = recs[k].line
    BY <1>3, <1>4
  <2>2. TurnAt(x) = A[j].begin /\ TurnAt(y) = A[k].begin /\ TurnAt(x) # 0 /\ TurnAt(y) # 0
    BY <1>3, <1>4
  <2>3. TurnAt(x) < TurnAt(y)
    BY <2>1, <2>2
  <2>4. x < y
    BY <2>2, <2>3, <1>0, TurnsInOrder
  <2> QED
    BY <2>4
<1>5. \A k \in 1 .. Len(recs) : recs[k].line \in 0 .. m /\ recs[k].input \in Nat
  <2> SUFFICES ASSUME NEW k \in 1 .. Len(A) PROVE recs[k].line \in 0 .. m /\ recs[k].input \in Nat
    BY <1>1
  <2>1. CASE A[k].status = <<>>
    BY <2>1, <1>2
  <2>2. CASE A[k].status # <<>>
    <3>1. recs[k].line \in Billed /\ recs[k].input \in Nat
      BY <2>2, <1>2 DEF Mine
    <3>2. recs[k].line \in 1 .. m
      BY <3>1
    <3> QED
      BY <3>1, <3>2
  <2> QED
    BY <2>1, <2>2
<1>6. \A k \in 1 .. Len(recs) : recs[k].input > 0 => recs[k].line # 0
  BY <1>1, <1>3
<1>7. /\ CtxOf(recs) \in Seq(CtxRow)
      /\ InOrder(LinesOf(CtxOf(recs)), {recs[k].line : k \in {i \in 1 .. Len(recs) : recs[i].input > 0}})
  BY <1>1, <1>4, <1>5, <1>6, CtxInOrder
<1>8. {recs[k].line : k \in {i \in 1 .. Len(recs) : recs[i].input > 0}} = Last2
  <2>1. ASSUME NEW k \in 1 .. Len(A), recs[k].input > 0 PROVE recs[k].line \in Last2
    BY <1>3, <2>1
  <2>2. ASSUME NEW i \in Last2
        PROVE  \E k \in 1 .. Len(A) : recs[k].input > 0 /\ recs[k].line = i
    <3>1. i \in Billed /\ i \in 1 .. m /\ wire[i].input > 0 /\ TurnAt(i) \in S
          /\ \A j \in Billed : TurnAt(j) = TurnAt(i) => j <= i
      OBVIOUS
    <3>2. PICK k \in 1 .. Len(A) : A[k].begin = TurnAt(i)
      <4>1. TurnAt(i) \in ToSet([n \in DOMAIN A |-> A[n].begin])
        BY <3>1 DEF InOrder
      <4> QED
        BY <4>1 DEF ToSet
    <3>3. i \in Mine(A[k].begin)
      BY <3>1, <3>2 DEF Mine
    <3>4. A[k].status # <<>>
      BY <3>3, <1>2
    <3>5. recs[k].line \in Mine(A[k].begin) /\ i <= recs[k].line /\ recs[k].input = wire[recs[k].line].input
      BY <3>3, <3>4, <1>2
    <3>6. recs[k].line \in 1 .. m /\ recs[k].line <= i
      BY <3>1, <3>2, <3>5 DEF Mine
    <3>7. recs[k].line = i
      BY <3>1, <3>5, <3>6
    <3> QED
      BY <3>1, <3>5, <3>7
  <2> HIDE DEF Last2
  <2>3. {i \in 1 .. Len(recs) : recs[i].input > 0} = {i \in 1 .. Len(A) : recs[i].input > 0}
    BY <1>1
  <2> QED
    BY <2>1, <2>2, <2>3
<1> QED
  BY <1>7, <1>8 DEF recs

(* The context trace of the backend's parse shows every turn of the file   *)
(* that has a record with context once, by its last record, in order.      *)
THEOREM TurnsRight == Spec => []TurnsMatchWire
<1>1. ASSUME Understood PROVE TurnsMatchWire
  <2>1. TInv /\ TurnKnown /\ TurnsKnown /\ RecordsMatchWire
    BY <1>1 DEF Understood
  <2> PICK m \in Nat : DOMAIN wire = 1 .. m /\ Billed \in SUBSET (1 .. m)
    BY <2>1, Bounds
  <2> PICK A : A = AllTurns(py)
    OBVIOUS
  <2>2. /\ A \in Seq(Turn) /\ InOrder([k \in DOMAIN A |-> A[k].begin], Starts)
        /\ \A t \in ToSet(A) : InOrder(t.status, Mine(t.begin))
    BY <2>1, AllTurnsKnown
  <2>3. \A i \in Billed : TurnAt(i) \in Starts <=> TurnAt(i) # 0
    <3>1. Starts \in SUBSET (1 .. m) /\ 0 \notin Starts
      BY DEF Starts, Prompts, Lines
    <3> QED
      BY <3>1, TurnsInOrder
  <2> DEFINE L == {i \in Billed : /\ wire[i].input > 0 /\ TurnAt(i) \in Starts
                                  /\ \A j \in Billed : TurnAt(j) = TurnAt(i) => j <= i}
             K == {i \in Billed : /\ TurnAt(i) # 0
                                  /\ \A j \in Billed : TurnAt(j) = TurnAt(i) => j <= i}
  <2>4. InOrder(LinesOf(CtxOf(RecsOf(py, A))), L)
    BY <2>1, <2>2, TraceKnown
  <2>5. L = {i \in K : wire[i].input > 0}
    BY <2>3
  <2>6. CtxTurns(py) = CtxOf(RecsOf(py, A))
    BY CtxTurnsAre
  <2> HIDE DEF L
  <2> QED
    BY <2>4, <2>5, <2>6 DEF TurnsMatchWire
<1> QED
  BY <1>1, UnderstoodAlways, PTL

(* A start of a trace stays its start when turns are added.                *)
LEMMA PrefixKept ==
  ASSUME NEW R, NEW p \in Seq(R), NEW n \in 0 .. Len(p), NEW x, NEW y
  PROVE  /\ IsPrefix(SubSeq(p, 1, n), p)
         /\ IsPrefix(SubSeq(p, 1, n), Append(p, x))
         /\ IsPrefix(SubSeq(p, 1, n), Append(Append(p, x), y))
<1> DEFINE s == SubSeq(p, 1, n)
<1>1. s \in Seq(R) /\ Len(s) = n /\ n \in Nat /\ Len(p) \in Nat /\ n <= Len(p)
      /\ \A i \in 1 .. n : s[i] = p[i]
  OBVIOUS
<1>2. SubSeq(s, 1, n) = [i \in 1 .. n |-> p[i]]
  <2>1. \A u \in Seq(R) : Len(u) = n => SubSeq(u, 1, n) = [i \in 1 .. n |-> u[i]]
    OBVIOUS
  <2> HIDE DEF s
  <2>2. SubSeq(s, 1, n) = [i \in 1 .. n |-> s[i]]
    BY <1>1, <2>1
  <2> QED
    BY <1>1, <2>2
<1> HIDE DEF s
<1>3. ASSUME NEW Q, NEW t \in Seq(Q), n <= Len(t), \A i \in 1 .. n : t[i] = p[i]
      PROVE  IsPrefix(s, t)
  <2>1. SubSeq(t, 1, n) = [i \in 1 .. n |-> t[i]]
    BY <1>1, <1>3
  <2>2. SubSeq(t, 1, n) = [i \in 1 .. n |-> p[i]]
    BY <1>3, <2>1
  <2> QED
    BY <1>1, <1>2, <1>3, <2>2 DEF IsPrefix
<1> DEFINE Q == R \cup {x, y}
           t == Append(p, x)
           w == Append(t, y)
<1>4. p \in Seq(Q)
  OBVIOUS
<1>5. t \in Seq(Q) /\ Len(t) = Len(p) + 1 /\ \A i \in 1 .. Len(p) : t[i] = p[i]
  BY <1>4
<1> HIDE DEF t
<1>6. w \in Seq(Q) /\ Len(w) = Len(t) + 1 /\ \A i \in 1 .. Len(t) : w[i] = t[i]
  BY <1>5
<1> HIDE DEF w, Q
<1>7. IsPrefix(s, p)
  BY <1>1, <1>3
<1>8. IsPrefix(s, t)
  <2>1. n <= Len(t) /\ \A i \in 1 .. n : t[i] = p[i]
    BY <1>1, <1>5
  <2> QED
    BY <2>1, <1>3, <1>5
<1>9. IsPrefix(s, w)
  <2>1. n <= Len(w) /\ \A i \in 1 .. n : w[i] = p[i]
    <3>1. \A i \in 1 .. n : i \in 1 .. Len(p) /\ i \in 1 .. Len(t)
      BY <1>1, <1>5
    <3>2. n <= Len(w)
      BY <1>1, <1>5, <1>6
    <3> QED
      BY <3>1, <3>2, <1>5, <1>6
  <2> QED
    BY <2>1, <1>3, <1>6
<1> QED
  BY <1>7, <1>8, <1>9 DEF s, t, w

(* All but the last of a trace is a start of what was before it.           *)
LEMMA FrontIs ==
  ASSUME NEW R, NEW p \in Seq(R), NEW x
  PROVE  /\ Front(Append(p, x)) = SubSeq(p, 1, Len(p))
         /\ Len(p) \in 0 .. Len(p)
         /\ p # <<>> => Front(p) = SubSeq(p, 1, Len(p) - 1) /\ Len(p) - 1 \in 0 .. Len(p)
<1> PICK n \in Nat : n = Len(p)
  OBVIOUS
<1>1. /\ Len(Append(p, x)) = n + 1 /\ n + 1 - 1 = n
      /\ \A i \in 1 .. n : Append(p, x)[i] = p[i]
  OBVIOUS
<1>2. SubSeq(p, 1, n) = [i \in 1 .. n |-> p[i]]
  OBVIOUS
<1>3. SubSeq(Append(p, x), 1, n) = [i \in 1 .. n |-> Append(p, x)[i]]
  <2> DEFINE Q == R \cup {x}
  <2>1. \A u \in Seq(Q) : n <= Len(u) => SubSeq(u, 1, n) = [i \in 1 .. n |-> u[i]]
    OBVIOUS
  <2>2. Append(p, x) \in Seq(Q) /\ n <= Len(Append(p, x))
    OBVIOUS
  <2> HIDE DEF Q
  <2> QED
    BY <2>1, <2>2
<1>4. Front(Append(p, x)) = SubSeq(p, 1, n)
  BY <1>1, <1>2, <1>3 DEF Front
<1>5. p # <<>> => Len(p) - 1 \in 0 .. Len(p)
  OBVIOUS
<1> QED
  BY <1>4, <1>5 DEF Front

(* Records are never changed, so a turn keeps the record that stands for it*)
(* while a line is added.                                                  *)
LEMMA RecKept ==
  ASSUME TInv, RecordsMatchWire, NEW l \in source.letters, Line(l), TInv', RecordsMatchWire',
         NEW t \in Turn, InOrder(t.status, Mine(t.begin))
  PROVE  RecOf(py', t) = RecOf(py, t)
<1>1. CASE t.status = <<>>
  BY <1>1 DEF RecOf
<1>2. CASE t.status # <<>>
  <2> PICK s \in Seq(Nat) : s = t.status
    BY DEF Turn
  <2> PICK S : S = Mine(t.begin)
    OBVIOUS
  <2> PICK n : n = Last(s)
    OBVIOUS
  <2>1. n \in S
    BY <1>2, LastOfTurn
  <2>2. n \in Billed
    BY <2>1 DEF Mine
  <2> PICK r : r = RecordAt(py, n)
    OBVIOUS
  <2>3. r \in ToSet(py.records) /\ r.line = n
    BY <2>2, RecordKnown
  <2> PICK u \in Seq(Record) : u = py.records
    BY DEF TInv, PyState
  <2> PICK v \in Seq(Record) : v = py'.records
    BY DEF TInv, PyState
  <2>4. r \in ToSet(v)
    <3>1. v = u \/ \E x : v = Append(u, x)
      BY DEF Line, PyAfter
    <3>2. \A x : ToSet(Append(u, x)) = ToSet(u) \cup {x}
      BY ToSetGrown
    <3> QED
      BY <2>3, <3>1, <3>2
  <2> PICK B : B = Billed'
    OBVIOUS
  <2>5. InOrder(LinesOf(v), B)
    BY DEF RecordsMatchWire
  <2> PICK q : q = RecordAt(py', n)
    OBVIOUS
  <2>6. q \in ToSet(v) /\ q.line = n
    <3>1. q = CHOOSE x \in ToSet(v) : x.line = n
      BY DEF RecordAt
    <3> QED
      BY <3>1, <2>3, <2>4
  <2>7. q = r
    BY <2>3, <2>4, <2>5, <2>6, OneRecord
  <2> QED
    BY <1>2, <2>7 DEF RecOf
<1> QED
  BY <1>1, <1>2

(* Reading a line leaves the trace of the closed turns alone, or closes the*)
(* open turn and adds it.                                                  *)
LEMMA ShutGrows ==
  ASSUME TInv, TurnKnown, TurnsKnown, RecordsMatchWire, NEW l \in source.letters, Line(l),
         TInv', RecordsMatchWire'
  PROVE  \/ Shut(py') = Shut(py)
         \/ py.turn # NoTurn /\ Shut(py') = NextCtx(Shut(py), RecOf(py, py.turn))
<1> PICK A \in Seq(Turn) : A = py.turns
  BY DEF TInv, PyState
<1> PICK w \in Turn : w = py.turn
  BY DEF TInv, PyState
<1>1. ASSUME NEW t \in ToSet(A) PROVE RecOf(py', t) = RecOf(py, t)
  <2>1. t \in Turn
    BY DEF ToSet
  <2>2. t.begin # 0
    <3>1. t.begin \in ToSet([k \in DOMAIN A |-> A[k].begin])
      BY DEF ToSet
    <3>2. t.begin \in Starts
      BY <3>1 DEF TurnsKnown, InOrder
    <3>3. 0 \notin Starts
      <4>1. DOMAIN wire = 1 .. Len(wire)
        BY DEF TInv
      <4> QED
        BY <4>1 DEF Starts, Prompts, Lines
    <3> QED
      BY <3>2, <3>3
  <2>3. InOrder(t.status, Mine(t.begin))
    BY <2>2 DEF TurnsKnown, Mine
  <2> QED
    BY <2>1, <2>3, RecKept
<1>2. RecsOf(py', A) = RecsOf(py, A)
  <2>1. \A k \in DOMAIN A : A[k] \in ToSet(A)
    BY DEF ToSet
  <2>2. \A k \in DOMAIN A : RecOf(py', A[k]) = RecOf(py, A[k])
    BY <1>1, <2>1
  <2> QED
    BY <2>2 DEF RecsOf
<1>3. CASE py'.turns = A
  BY <1>2, <1>3 DEF Shut
<1>4. CASE Closes(py, l)
  <2>1. w # NoTurn
    BY <1>4 DEF Closes
  <2>2. N \in Nat
    BY DEF TInv, N
  <2> PICK done \in Turn : done = [w EXCEPT !.end = N]
    BY <2>2 DEF Turn
  <2>3. done.status = w.status /\ done.begin = w.begin
    BY DEF Turn
  <2>4. py'.turns = Append(A, done)
    BY <1>4 DEF Line, PyAfter
  <2>5. Shut(py') = NextCtx(CtxOf(RecsOf(py', A)), RecOf(py', done))
    <3>1. RecsOf(py', Append(A, done)) = Append(RecsOf(py', A), RecOf(py', done))
      BY RecsGrown
    <3>2. CtxOf(Append(RecsOf(py', A), RecOf(py', done))) = NextCtx(CtxOf(RecsOf(py', A)), RecOf(py', done))
      BY TraceGrown
    <3> QED
      BY <2>4, <3>1, <3>2 DEF Shut
  <2>6. RecOf(py', w) = RecOf(py, w)
    <3>1. w.begin # 0
      BY <2>1 DEF TurnKnown
    <3>2. InOrder(w.status, Mine(w.begin))
      BY <3>1 DEF TurnsKnown, Mine
    <3> QED
      BY <3>2, RecKept
  <2>7. RecOf(py', done) = RecOf(py', w)
    BY <2>3 DEF RecOf
  <2> QED
    BY <1>2, <2>1, <2>5, <2>6, <2>7 DEF Shut
<1>5. py'.turns = A \/ Closes(py, l)
  BY DEF Line, PyAfter
<1> QED
  BY <1>3, <1>4, <1>5

(* Nor is there a change to the trace, but for the turn that was open.     *)
LEMMA GrowthStep ==
  ASSUME Understood, NEW l \in source.letters, Line(l), Understood', CtxTurns(py) # <<>>
  PROVE  IsPrefix(Front(CtxTurns(py)), CtxTurns(py)')
<1>0. /\ TInv /\ TurnKnown /\ TurnsKnown /\ RecordsMatchWire
      /\ TInv' /\ RecordsMatchWire'
      /\ py \in PyState /\ py' \in PyState
  BY DEF Understood, TInv
<1>1. \A ctx, r : NextCtx(ctx, r) = ctx \/ \E x : NextCtx(ctx, r) = Append(ctx, x)
  BY DEF NextCtx
<1>2. Shut(py) \in Seq(CtxRow)
  <2> PICK A \in Seq(Turn) : A = py.turns
    BY <1>0 DEF PyState
  <2>1. InOrder([k \in DOMAIN A |-> A[k].begin], Starts \ {Open})
    BY <1>0 DEF TurnsKnown
  <2>2. \A t \in ToSet(A) : InOrder(t.status, Mine(t.begin))
    BY <1>0, AllTurnsKnown
  <2> PICK S : S = Starts \ {Open}
    OBVIOUS
  <2>3. S \subseteq Starts
    OBVIOUS
  <2>4. CtxOf(RecsOf(py, A)) \in Seq(CtxRow)
    BY <1>0, <2>1, <2>2, <2>3, TraceKnown
  <2> QED
    BY <2>4 DEF Shut
<1> PICK p \in Seq(CtxRow) : p = Shut(py)
  BY <1>2
<1>3. CtxTurns(py) = p \/ (py.turn # NoTurn /\ CtxTurns(py) = NextCtx(p, RecOf(py, py.turn)))
  BY <1>0, CtxTurnsShut
<1>4. PICK n \in 0 .. Len(p) : Front(CtxTurns(py)) = SubSeq(p, 1, n)
  <2>1. CtxTurns(py) = p \/ \E x : CtxTurns(py) = Append(p, x)
    BY <1>1, <1>3
  <2> QED
    BY <2>1, FrontIs
<1>5. CtxTurns(py') = Shut(py') \/ \E x : CtxTurns(py') = Append(Shut(py'), x)
  <2>1. CtxTurns(py') = Shut(py') \/ CtxTurns(py') = NextCtx(Shut(py'), RecOf(py', py'.turn))
    BY <1>0, CtxTurnsShut
  <2> QED
    BY <1>1, <2>1
<1>6. Shut(py') = p \/ \E x : Shut(py') = Append(p, x)
  <2>1. Shut(py') = p \/ Shut(py') = NextCtx(p, RecOf(py, py.turn))
    BY <1>0, ShutGrows
  <2> QED
    BY <1>1, <2>1
<1>7. \/ CtxTurns(py') = p
      \/ \E x : CtxTurns(py') = Append(p, x)
      \/ \E x, y : CtxTurns(py') = Append(Append(p, x), y)
  BY <1>5, <1>6, Zenon
<1>8. IsPrefix(SubSeq(p, 1, n), CtxTurns(py'))
  BY <1>7, PrefixKept, Zenon
<1> QED
  BY <1>4, <1>8

(* When a transcript grows, the parse of the longer file keeps every       *)
(* context turn of the shorter one but the last.                           *)
THEOREM GrowthRight == Spec => GrowthKeepsTurns
<1> DEFINE Kept == LET ctx == CtxTurns(py) IN ctx # <<>> => IsPrefix(Front(ctx), CtxTurns(py)')
<1>1. Understood /\ Understood' /\ [Next]_vars => [Kept]_vars
  <2> SUFFICES ASSUME Understood, Understood', Next PROVE Kept
    OBVIOUS
  <2>1. PICK l \in source.letters : Line(l)
    BY EveryStep DEF Understood
  <2> QED
    BY <2>1, GrowthStep
<1>2. Understood /\ [Next]_vars => Understood'
  BY UnderstoodNext
<1>3. Init => Understood
  BY UnderstoodInit
<1>4. Spec => [][Kept]_vars
  <2> HIDE DEF Kept
  <2> QED
    BY <1>1, <1>2, <1>3, PTL DEF Spec
<1> QED
  BY <1>4 DEF GrowthKeepsTurns
=============================================================================
