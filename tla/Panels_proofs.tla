---------------------------- MODULE Panels_proofs ----------------------------
(***************************************************************************)
(* First the parts of the page that fetch: whatever the user selects while *)
(* requests are in flight, a part shows what is selected once its newest   *)
(* request has been answered, for every kind of part, any answers and any  *)
(* number of requests.  Then the panels at work: what a panel keeps of     *)
(* checkboxes and picks never changes when it asks or what it is given, so *)
(* what is proved of Fetching holds for every panel.  Last what they show: *)
(* the pages of the project picker, the margins of the heatmap, the layers *)
(* of the tool usage and the lines of the tool error rate, the burn rate,  *)
(* the turns of the context growth and the tooltips.  The lemmas before    *)
(* say what sorting, filtering and joining do to a list.                   *)
(***************************************************************************)
EXTENDS Panels, Sums, SequenceTheorems, TLAPS

(***************************************************************************)
(* Selections, keys and fates                                              *)
(***************************************************************************)
Selection == {s \in [Field -> Nat] : \A f \in Field : s[f] \in Options[kind][f]}

(* A request is sent with parameters of the selection, and but for those   *)
(* of the Inspector each parameter is a dependency of the effect.          *)
LEMMA QueryIsSelected ==
  ASSUME NEW k \in AllKinds
  PROVE  Query(k) \subseteq Field /\ (k # "session" => Query(k) \subseteq Deps(k))
BY DEF AllKinds, OfApp, OfDashboard, OwnModel, OfCachePage, Query, Deps, DepsApp, DepsPanel,
       DepsCachePage, Field

(* The key of a selection.                                                 *)
LEMMA KeyType ==
  ASSUME TypeOK, NEW s \in Selection
  PROVE  Key(s) \in [Query(kind) -> Nat]
<1>1. kind \in AllKinds
  BY FetchingAssumption DEF TypeOK
<1>2. Query(kind) \subseteq Field
  BY <1>1, QueryIsSelected
<1> QED
  BY <1>2 DEF Key, Selection

(* What becomes of a newest request.                                       *)
LEMMA AfterType ==
  ASSUME TypeOK, NEW r, NEW outcome \in Fate
  PROVE  After(r, outcome) \in Fate
BY DEF After, TypeOK, Fate

(* An answer to a request in flight can be shown.                          *)
LEMMA ShownType ==
  ASSUME TypeOK, NEW r \in requests, NEW got \in Answers[kind] \cup {Empty}
  PROVE  [key |-> r.key, body |-> got]
           \in [key : [Query(kind) -> Nat], body : Answers[kind] \cup {Empty}]
BY DEF TypeOK, Request

(***************************************************************************)
(* Type correctness                                                        *)
(***************************************************************************)
LEMMA SendType ==
  ASSUME TypeOK, NEW s \in Selection, Send(s),
         kind' = kind, sel' = s, mounted' \in BOOLEAN
  PROVE  TypeOK'
<1>1. Key(s) \in [Query(kind) -> Nat]
  BY KeyType
<1>2. kind \in Kind /\ MaxRequests[kind] \in Nat \ {0} /\ lastId \in Nat
  BY FetchingAssumption DEF TypeOK
<1>3. lastId' \in 0 .. MaxRequests[kind] /\ lastId' \in 1 .. MaxRequests[kind]
  BY <1>2 DEF Send, TypeOK
<1>4. requests' \in SUBSET Request
  BY <1>1, <1>3 DEF Send, TypeOK, Request
<1>5. shown' = Nothing \/ shown' = shown
  BY DEF Send, Nothing
<1>6. err' \in BOOLEAN
  BY DEF Send, TypeOK
<1>7. newest' \in Fate
  BY DEF Send, Fate
<1>8. sel' \in [Field -> Nat] /\ \A f \in Field : sel'[f] \in Options[kind][f]
  BY DEF Selection
<1> QED
  BY <1>2, <1>3, <1>4, <1>5, <1>6, <1>7, <1>8 DEF TypeOK, Request, Nothing

(* Selecting keeps the types.                                              *)
LEMMA SelectType ==
  ASSUME TypeOK, NEW s \in Selection, Select(s)
  PROVE  TypeOK'
<1>1. CASE mounted /\ \E f \in Deps(kind) : s[f] # sel[f]
  <2>1. Send(s) /\ kind' = kind /\ sel' = s /\ mounted' \in BOOLEAN
    BY <1>1 DEF Select, TypeOK
  <2> QED
    BY <2>1, SendType
<1>2. CASE ~(mounted /\ \E f \in Deps(kind) : s[f] # sel[f])
  BY <1>2 DEF Select, TypeOK, Selection, Request, Nothing
<1> QED
  BY <1>1, <1>2

(* So does the end of a request.                                           *)
LEMMA EndedType ==
  ASSUME TypeOK, NEW r \in requests, NEW outcome \in Fate, Ended(r, outcome),
         err' \in BOOLEAN,
         \/ shown' = shown
         \/ \E got \in Answers[kind] \cup {Empty} : shown' = [key |-> r.key, body |-> got]
  PROVE  TypeOK'
<1>1. newest' \in Fate
  BY AfterType DEF Ended
<1>2. requests' \in SUBSET Request
  BY DEF Ended, TypeOK
<1>3. \/ shown' = Nothing
      \/ shown' \in [key : [Query(kind) -> Nat], body : Answers[kind] \cup {Empty}]
  BY ShownType DEF TypeOK
<1> QED
  BY <1>1, <1>2, <1>3 DEF TypeOK, Ended, Request, Nothing

(* A choice among the options is a selection.                              *)
LEMMA ChosenIsSelection ==
  ASSUME TypeOK, NEW f \in Field, NEW v \in Options[kind][f]
  PROVE  [sel EXCEPT ![f] = v] \in Selection
<1>1. Options[kind][f] \subseteq Nat
  BY FetchingAssumption DEF TypeOK
<1> QED
  BY <1>1 DEF TypeOK, Selection

(* Every step keeps the types.                                             *)
LEMMA TypeStep == TypeOK /\ [Next]_vars => TypeOK'
<1> SUFFICES ASSUME TypeOK, [Next]_vars PROVE TypeOK'
  OBVIOUS
<1>1. ASSUME NEW f \in Field, NEW v \in Options[kind][f], Choose(f, v) PROVE TypeOK'
  BY <1>1, ChosenIsSelection, SelectType DEF Choose
<1>2. CASE IngestDone
  <2>1. [sel EXCEPT !["nonce"] = sel["nonce"] + 1] \in Selection
    BY <1>2, ChosenIsSelection DEF IngestDone, Field
  <2> QED
    BY <1>2, <2>1, SelectType DEF IngestDone
<1>3. ASSUME NEW sid \in Options[kind]["own"], Open(sid) PROVE TypeOK'
  <2>1. [sel EXCEPT !["own"] = sid] \in Selection
    BY ChosenIsSelection DEF Field
  <2>2. Send([sel EXCEPT !["own"] = sid])
    BY <1>3 DEF Open
  <2>3. kind' = kind /\ sel' = [sel EXCEPT !["own"] = sid] /\ mounted' \in BOOLEAN
    BY <1>3 DEF Open, TypeOK
  <2> QED
    BY <2>1, <2>2, <2>3, SendType
<1>4. CASE Leave
  <2>1. kind \in Kind /\ Start["own"] \in Options[kind]["own"] /\ "own" \in Field
    BY FetchingAssumption DEF TypeOK, Field
  <2>2. [sel EXCEPT !["own"] = Start["own"]] \in Selection
    BY <2>1, ChosenIsSelection
  <2> QED
    BY <1>4, <2>2 DEF Leave, TypeOK, Selection, Fate, Request, Nothing
<1>5. CASE Return
  <2>1. sel \in Selection
    BY DEF TypeOK, Selection
  <2>2. Send(sel) /\ kind' = kind /\ sel' = sel /\ mounted' \in BOOLEAN
    BY <1>5 DEF Return
  <2> QED
    BY <2>1, <2>2, SendType
<1>6. ASSUME NEW r \in requests, NEW got \in Answers[kind], Land(r, got) PROVE TypeOK'
  <2>1. Ended(r, "ok") /\ "ok" \in Fate /\ err' \in BOOLEAN
    BY <1>6 DEF Land, Fate, TypeOK
  <2>2. \E b \in Answers[kind] \cup {Empty} : shown' = [key |-> r.key, body |-> b]
    BY <1>6 DEF Land
  <2> QED
    BY <2>1, <2>2, EndedType
<1>7. ASSUME NEW r \in requests, Refuse(r) PROVE TypeOK'
  <2>1. CASE kind \in OfCachePage
    <3>1. Ended(r, "lost") /\ "lost" \in Fate /\ err' \in BOOLEAN /\ shown' = shown
      BY <1>7, <2>1 DEF Refuse, Fate
    <3> QED
      BY <3>1, EndedType
  <2>2. CASE kind \notin OfCachePage
    <3>1. Ended(r, "refused") /\ "refused" \in Fate /\ err' \in BOOLEAN
      BY <1>7, <2>2 DEF Refuse, Fate, TypeOK
    <3>2. \E b \in Answers[kind] \cup {Empty} : shown' = [key |-> r.key, body |-> b]
      BY <1>7, <2>2 DEF Refuse
    <3> QED
      BY <3>1, <3>2, EndedType
  <2> QED
    BY <2>1, <2>2
<1>8. ASSUME NEW r \in requests, Lose(r) PROVE TypeOK'
  <2>1. Ended(r, "lost") /\ "lost" \in Fate /\ err' \in BOOLEAN /\ shown' = shown
    BY <1>8 DEF Lose, Fate, TypeOK
  <2> QED
    BY <2>1, EndedType
<1>9. CASE UNCHANGED vars
  BY <1>9 DEF vars, TypeOK, Request, Nothing
<1> QED
  BY <1>1, <1>2, <1>3, <1>4, <1>5, <1>6, <1>7, <1>8, <1>9 DEF Next

(* The page just loaded has them.                                          *)
LEMMA TypeInit == Init => TypeOK
<1> SUFFICES ASSUME Init PROVE TypeOK
  OBVIOUS
<1>1. kind \in Kind /\ kind \in AllKinds
  BY FetchingAssumption DEF Init
<1>2. Query(kind) \subseteq Field
  BY <1>1, QueryIsSelected
<1>3. Key(Start) \in [Query(kind) -> Nat]
  BY <1>2, FetchingAssumption DEF Key
<1>4. MaxRequests[kind] \in Nat \ {0}
  BY <1>1, FetchingAssumption
<1>5. requests \in SUBSET Request
  BY <1>3, <1>4 DEF Init, Request
<1>6. sel \in [Field -> Nat] /\ \A f \in Field : sel[f] \in Options[kind][f]
  BY <1>1, FetchingAssumption DEF Init
<1>7. lastId \in 0 .. MaxRequests[kind] /\ newest \in Fate
  BY <1>4 DEF Init, Fate
<1> QED
  BY <1>1, <1>5, <1>6, <1>7 DEF Init, TypeOK

(* Every variable of a part keeps its type, in particular no request is    *)
(* sent, and none can land, with parameters outside the options.           *)
THEOREM TypeCorrect == Spec => []TypeOK
  BY TypeInit, TypeStep, PTL DEF Spec
(***************************************************************************)
(* What is shown belongs to what is selected                               *)
(*                                                                         *)
(* An answer is not compared with the selection when it lands, so the      *)
(* requests must be: the newest one in flight asks for the selection of    *)
(* now, because every change of a parameter sends a new one.               *)
(***************************************************************************)
(* A change of a field that is no dependency leaves the request's          *)
(* parameters as they are.                                                 *)
LEMMA KeyKept ==
  ASSUME TypeOK, NEW s \in Selection, \A f \in Query(kind) : s[f] = sel[f], kind' = kind
  PROVE  Key(s) = Key(sel)
BY DEF Key

(* A request just sent asks for what is selected.                          *)
LEMMA SendKeeps ==
  ASSUME TypeOK, IInv, NEW s \in Selection, Send(s), kind' = kind, sel' = s, mounted'
  PROVE  IInv'
<1>1. lastId \in Nat
  BY FetchingAssumption DEF TypeOK
<1>2. Key(sel)' = Key(s)
  BY DEF Key, Query, OfDashboard, OwnModel, OfCachePage
<1>3. \A r \in requests' : r.id <= lastId' /\ (r.id = lastId' => r.key = Key(s))
  <2> SUFFICES ASSUME NEW r \in requests'
               PROVE  r.id <= lastId' /\ (r.id = lastId' => r.key = Key(s))
    OBVIOUS
  <2>1. CASE r \in requests
    <3>1. r.id <= lastId /\ r.id \in Nat
      BY <2>1 DEF IInv, NewestAsksSelection, TypeOK, Request
    <3> QED
      BY <1>1, <3>1 DEF Send
  <2>2. CASE r = [id |-> lastId + 1, key |-> Key(s)]
    BY <1>1, <2>2 DEF Send
  <2> QED
    BY <2>1, <2>2 DEF Send
<1>4. newest' = "pending"
  BY DEF Send
<1> QED
  BY <1>2, <1>3, <1>4 DEF IInv, NewestAsksSelection

(* A selection that outdates the newest request sends another.             *)
LEMMA SelectKeeps ==
  ASSUME TypeOK, IInv, NEW s \in Selection, Select(s),
         \A f \in Query(kind) : f \notin Deps(kind) => s[f] = sel[f]
  PROVE  IInv'
<1>1. CASE mounted /\ \E f \in Deps(kind) : s[f] # sel[f]
  BY <1>1, SendKeeps DEF Select
<1>2. CASE mounted /\ ~ \E f \in Deps(kind) : s[f] # sel[f]
  <2>1. kind' = kind /\ sel' = s /\ UNCHANGED <<mounted, requests, lastId, newest, shown>>
    BY <1>2 DEF Select
  <2>2. Key(s) = Key(sel)
    BY <1>2, <2>1, KeyKept
  <2>3. Key(sel)' = Key(s)
    BY <2>1 DEF Key, Query, OfDashboard, OwnModel, OfCachePage
  <2> QED
    BY <2>1, <2>2, <2>3 DEF IInv, NewestAsksSelection
<1>3. CASE ~mounted
  BY <1>3 DEF Select, IInv, NewestAsksSelection
<1> QED
  BY <1>1, <1>2, <1>3

(* The end of a request leaves the others as they were.                    *)
LEMMA EndedKeeps ==
  ASSUME TypeOK, IInv, NEW r \in requests, NEW outcome \in Fate \ {"overtaken"},
         Ended(r, outcome),
         outcome = "ok" => shown'.key = r.key,
         outcome = "lost" => shown' = shown
  PROVE  IInv'
<1>1. kind' = kind /\ sel' = sel /\ mounted' = mounted /\ lastId' = lastId
  BY DEF Ended
<1>2. Key(sel)' = Key(sel)
  BY <1>1 DEF Key, Query, OfDashboard, OwnModel, OfCachePage
<1>3. requests' \subseteq requests /\ newest' = After(r, outcome)
  BY DEF Ended
<1>4. mounted
  BY DEF IInv
<1>5. newest' = "ok" => shown'.key = Key(sel)
  <2> SUFFICES ASSUME newest' = "ok" PROVE shown'.key = Key(sel)
    OBVIOUS
  <2>1. CASE r.id = lastId
    <3>1. outcome = "ok"
      BY <1>3, <2>1 DEF After
    <3>2. r.key = Key(sel)
      BY <2>1 DEF IInv, NewestAsksSelection
    <3> QED
      BY <3>1, <3>2
  <2>2. CASE r.id # lastId
    <3>1. newest = "ok" /\ outcome = "lost"
      BY <1>3, <2>2 DEF After
    <3> QED
      BY <3>1 DEF IInv
  <2> QED
    BY <2>1, <2>2
<1> QED
  BY <1>1, <1>2, <1>3, <1>4, <1>5 DEF IInv, NewestAsksSelection

(* The invariant is inductive.                                             *)
LEMMA IInvStep == TypeOK /\ IInv /\ [Next]_vars => IInv'
<1> SUFFICES ASSUME TypeOK, IInv, [Next]_vars PROVE IInv'
  OBVIOUS
<1>0. kind \in AllKinds /\ Query(kind) \subseteq Field
  BY FetchingAssumption, QueryIsSelected DEF TypeOK
<1>1. ASSUME NEW f \in Field, NEW v \in Options[kind][f], Choose(f, v) PROVE IInv'
  <2> DEFINE s == [sel EXCEPT ![f] = v]
  <2>1. s \in Selection /\ Select(s)
    BY <1>1, ChosenIsSelection DEF Choose
  <2>2. ASSUME NEW g \in Query(kind), g \notin Deps(kind) PROVE s[g] = sel[g]
    <3>1. kind = "session"
      BY <1>0, <2>2, QueryIsSelected
    <3>2. g = "own"
      BY <2>2, <3>1 DEF Query, OfDashboard, OwnModel, OfCachePage
    <3>3. f # "own"
      BY <1>1, <3>1 DEF Choose, OwnModel
    <3> QED
      BY <3>2, <3>3 DEF TypeOK, Field
  <2> QED
    BY <2>1, <2>2, SelectKeeps
<1>2. CASE IngestDone
  <2> DEFINE s == [sel EXCEPT !["nonce"] = sel["nonce"] + 1]
  <2>1. s \in Selection /\ Select(s)
    BY <1>2, ChosenIsSelection DEF IngestDone, Field
  <2>2. \A g \in Query(kind) : s[g] = sel[g]
    BY <1>0 DEF Query, OfDashboard, OwnModel, OfCachePage, TypeOK, AllKinds, OfApp
  <2> QED
    BY <2>1, <2>2, SelectKeeps
<1>3. ASSUME NEW sid \in Options[kind]["own"], Open(sid) PROVE IInv'
  <2>1. [sel EXCEPT !["own"] = sid] \in Selection
    BY ChosenIsSelection DEF Field
  <2>2. mounted
    BY <1>3 DEF Open, IInv, OfApp
  <2> QED
    BY <1>3, <2>1, <2>2, SendKeeps DEF Open
<1>4. CASE Leave
  BY <1>4 DEF Leave, IInv, NewestAsksSelection
<1>5. CASE Return
  <2>1. sel \in Selection
    BY DEF TypeOK, Selection
  <2> QED
    BY <1>5, <2>1, SendKeeps DEF Return
<1>6. ASSUME NEW r \in requests, NEW got \in Answers[kind], Land(r, got) PROVE IInv'
  BY <1>6, EndedKeeps DEF Land, Fate
<1>7. ASSUME NEW r \in requests, Refuse(r) PROVE IInv'
  BY <1>7, EndedKeeps DEF Refuse, Fate
<1>8. ASSUME NEW r \in requests, Lose(r) PROVE IInv'
  BY <1>8, EndedKeeps DEF Lose, Fate
<1>9. CASE UNCHANGED vars
  BY <1>9 DEF vars, IInv, NewestAsksSelection, Key, Query, OfDashboard, OwnModel, OfCachePage
<1> QED
  BY <1>1, <1>2, <1>3, <1>4, <1>5, <1>6, <1>7, <1>8, <1>9 DEF Next

(* It holds when the page is loaded.                                       *)
LEMMA IInvInit == Init => IInv
BY DEF Init, IInv, NewestAsksSelection

(* The newest request in flight asks for the current selection, and only a *)
(* mounted part has requests or an answer to the newest one.               *)
THEOREM Inductive == Spec => []IInv
<1>1. Init => TypeOK /\ IInv
  BY TypeInit, IInvInit
<1>2. TypeOK /\ IInv /\ [Next]_vars => (TypeOK /\ IInv)'
  BY TypeStep, IInvStep
<1> QED
  BY <1>1, <1>2, PTL DEF Spec

(* Whatever is selected in whatever order while requests are in flight,    *)
(* once the newest one is answered, and until an older answer overtakes    *)
(* it, a part shows what was fetched for the current selection.            *)
THEOREM SelectionShown == Spec => []ShowsSelection
<1>1. IInv => ShowsSelection
  BY DEF IInv, ShowsSelection
<1> QED
  BY <1>1, Inductive, PTL

(***************************************************************************)
(* Panels at work                                                          *)
(***************************************************************************)
(* The steps of a panel are steps of Fetching or leave its variables alone. *)
LEMMA PanelStep == [NextPanels]_pvars => [Next]_vars
<1> SUFFICES ASSUME [NextPanels]_pvars PROVE [Next]_vars
  OBVIOUS
<1>1. ASSUME NEW f \in Field \ {"nonce"}, NEW v \in Options[kind][f], Choose(f, v) PROVE Next
  BY <1>1 DEF Next
<1>2. ASSUME NEW sid \in Options[kind]["own"], Open(sid) PROVE Next
  BY <1>2 DEF Next
<1>3. CASE IngestDone \/ Return \/ Leave
  BY <1>3 DEF Next
<1>4. ASSUME NEW r \in requests,
             Lose(r) \/ Refuse(r) \/ \E b \in Answers[kind] : Land(r, b)
      PROVE  Next
  BY <1>4 DEF Next
<1>5. ASSUME NEW b, Toggle(b) PROVE UNCHANGED vars
  BY <1>5 DEF Toggle
<1>6. ASSUME NEW on, ToggleAll(on) PROVE UNCHANGED vars
  BY <1>6 DEF ToggleAll
<1>7. ASSUME NEW p, Pick(p) PROVE UNCHANGED vars
  BY <1>7, Zenon DEF Pick
<1>8. CASE Reopen
  BY <1>8 DEF Reopen
<1>9. CASE UNCHANGED pvars
  BY <1>9 DEF pvars
<1> QED
  BY <1>1, <1>2, <1>3, <1>4, <1>5, <1>6, <1>7, <1>8, <1>9 DEF NextPanels

(* Every behaviour of a panel, its checkboxes, picks and route changes     *)
(* included, is one of a part that fetches.                                *)
THEOREM PanelFetches == SpecPanels => Spec
<1>1. InitPanels => Init
  BY DEF InitPanels
<1> QED
  BY <1>1, PanelStep, PTL DEF SpecPanels, Spec

(* No panel shows an answer for another selection than the current one     *)
(* once its newest request is answered and until an older answer overtakes *)
(* it, whatever is clicked, checked or picked meanwhile.                   *)
THEOREM PanelShowsSelection == SpecPanels => []ShowsSelection
  BY PanelFetches, SelectionShown, PTL
(***************************************************************************)
(* What a panel keeps of checkboxes and picks                              *)
(***************************************************************************)
(* What is on display came from the server, or is nothing.                 *)
LEMMA BodyIs ==
  ASSUME TypeOK
  PROVE  kind \in Kind /\ body \in Answers[kind] \cup {Empty}
BY DEF TypeOK, body, Nothing

(* The buttons "all" and "none" set or clear every checkbox.               *)
LEMMA SetAllType ==
  ASSUME over \in [Boxes[kind] -> {"default", "on", "off"}], NEW on \in {"on", "off"}, NEW rows
  PROVE  setAll(rows, over, on) \in [Boxes[kind] -> {"default", "on", "off"}]
BY DEF setAll

(* What an answer leaves of the checkboxes and of the pick.                *)
LEMMA DigestType ==
  ASSUME TypeOKPanels, NEW b \in Answers[kind] \cup {Empty}, Digest(b), kind' = kind, TypeOK'
  PROVE  TypeOKPanels'
<1>1. b.bucket \in Nat
  BY PanelsAssumption DEF TypeOKPanels, TypeOK
<1>2. bucketMs' \in Nat
  BY <1>1 DEF Digest, TypeOKPanels
<1>3. PickFresh' = PickFresh
  BY DEF PickFresh
<1>4. picked' \in Picks[kind] \cup {PickFresh}
  BY DEF Digest, TypeOKPanels
<1>5. OverFresh \in [Boxes[kind] -> {"default", "on", "off"}]
  BY DEF OverFresh
<1>6. OverAfter(b) \in [Boxes[kind] -> {"default", "on", "off"}]
  <2>1. CASE kind = "errors"
    BY <2>1 DEF OverAfter, TypeOKPanels
  <2>2. CASE kind # "errors"
    BY <2>2, <1>5 DEF OverAfter, TypeOKPanels
  <2> QED
    BY <2>1, <2>2
<1> QED
  BY <1>2, <1>3, <1>4, <1>6 DEF Digest, TypeOKPanels

(* A part taken down or opened again starts with nothing checked or picked. *)
LEMMA ResetType ==
  ASSUME Reset, kind' = kind, TypeOK'
  PROVE  TypeOKPanels'
<1>1. PickFresh' = PickFresh
  BY DEF PickFresh
<1>2. OverFresh \in [Boxes[kind] -> {"default", "on", "off"}]
  BY DEF OverFresh
<1> QED
  BY <1>1, <1>2, PanelsAssumption DEF Reset, TypeOKPanels

(* Every step of a panel keeps the types.                                  *)
LEMMA PanelTypeStep == TypeOKPanels /\ [NextPanels]_pvars => TypeOKPanels'
<1> SUFFICES ASSUME TypeOKPanels, [NextPanels]_pvars PROVE TypeOKPanels'
  OBVIOUS
<1>0. TypeOK /\ TypeOK'
  BY PanelStep, TypeStep DEF TypeOKPanels
<1>1. ASSUME Keeps, kind' = kind PROVE TypeOKPanels'
  <2>1. PickFresh' = PickFresh
    BY <1>1 DEF PickFresh
  <2> QED
    BY <1>0, <1>1, <2>1 DEF Keeps, TypeOKPanels
<1>2. ASSUME NEW f \in Field \ {"nonce"}, NEW v \in Options[kind][f], Choose(f, v), Keeps
      PROVE  TypeOKPanels'
  BY <1>1, <1>2 DEF Choose, Select
<1>3. ASSUME NEW sid \in Options[kind]["own"], Open(sid), Keeps PROVE TypeOKPanels'
  BY <1>1, <1>3 DEF Open
<1>4. CASE (IngestDone \/ Return) /\ Keeps
  BY <1>1, <1>4 DEF IngestDone, Select, Return
<1>5. ASSUME NEW r \in requests, Lose(r), Keeps PROVE TypeOKPanels'
  BY <1>1, <1>5 DEF Lose, Ended
<1>6. CASE Leave /\ Reset
  BY <1>0, <1>6, ResetType DEF Leave
<1>7. ASSUME NEW r \in requests, NEW b \in Answers[kind], Land(r, b), Digest(b)
      PROVE  TypeOKPanels'
  BY <1>0, <1>7, DigestType DEF Land, Ended
<1>8. ASSUME NEW r \in requests, Refuse(r), IF kind \in OfCachePage THEN Keeps ELSE Digest(Empty)
      PROVE  TypeOKPanels'
  <2>1. kind' = kind
    BY <1>8 DEF Refuse, Ended
  <2> QED
    BY <1>0, <1>1, <1>8, <2>1, DigestType
<1>9. ASSUME NEW b \in Boxes[kind], Toggle(b) PROVE TypeOKPanels'
  <2>1. UNCHANGED <<kind, bucketMs, picked>>
    BY <1>9 DEF Toggle, vars
  <2>2. PickFresh' = PickFresh
    BY <2>1 DEF PickFresh
  <2>3. over' \in [Boxes[kind] -> {"default", "on", "off"}]
    BY <1>9 DEF Toggle, TypeOKPanels
  <2> QED
    BY <1>0, <2>1, <2>2, <2>3 DEF TypeOKPanels
<1>10. ASSUME NEW on \in {"on", "off"}, ToggleAll(on) PROVE TypeOKPanels'
  <2>1. UNCHANGED <<kind, bucketMs, picked>>
    BY <1>10 DEF ToggleAll, vars
  <2>2. PickFresh' = PickFresh
    BY <2>1 DEF PickFresh
  <2>3. over' \in [Boxes[kind] -> {"default", "on", "off"}]
    BY <1>10, SetAllType DEF ToggleAll, TypeOKPanels
  <2> QED
    BY <1>0, <2>1, <2>2, <2>3 DEF TypeOKPanels
<1>11. ASSUME NEW p \in Picks[kind], Pick(p) PROVE TypeOKPanels'
  <2>1. UNCHANGED <<kind, over, bucketMs>> /\ picked' = p
    BY <1>11, Zenon DEF Pick, vars
  <2> QED
    BY <1>0, <2>1 DEF TypeOKPanels
<1>12. CASE Reopen
  BY <1>0, <1>12, ResetType DEF Reopen, vars
<1>13. CASE UNCHANGED pvars
  BY <1>1, <1>13 DEF pvars, vars, Keeps
<1> QED
  BY <1>2, <1>3, <1>4, <1>5, <1>6, <1>7, <1>8, <1>9, <1>10, <1>11, <1>12, <1>13 DEF NextPanels

(* However answers come and go under them, the checkboxes of a panel keep  *)
(* their three states, its bucket stays a width and its pick one that can  *)
(* be made.                                                                *)
THEOREM PanelTypeCorrect == SpecPanels => []TypeOKPanels
<1>1. InitPanels => TypeOKPanels
  BY TypeInit, PanelsAssumption DEF InitPanels, TypeOKPanels, OverFresh
<1> QED
  BY <1>1, PanelTypeStep, PTL DEF SpecPanels
(***************************************************************************)
(* The pages of the project picker                                         *)
(***************************************************************************)
(* The lesser of two numbers.                                              *)
LEMMA MinOf ==
  ASSUME NEW a \in Int, NEW b \in Int
  PROVE  Min({a, b}) = IF a <= b THEN a ELSE b
<1>1. PICK x \in {a, b} : \A y \in {a, b} : x <= y
  <2>1. a <= b \/ b <= a
    OBVIOUS
  <2> QED
    BY <2>1
<1>2. Min({a, b}) \in {a, b} /\ \A y \in {a, b} : Min({a, b}) <= y
  BY <1>1 DEF Min
<1> QED
  BY <1>2

(* And the greater.                                                        *)
LEMMA MaxOf ==
  ASSUME NEW a \in Int, NEW b \in Int
  PROVE  Max({a, b}) = IF a <= b THEN b ELSE a
<1>1. PICK x \in {a, b} : \A y \in {a, b} : x >= y
  <2>1. a <= b \/ b <= a
    OBVIOUS
  <2> QED
    BY <2>1
<1>2. Max({a, b}) \in {a, b} /\ \A y \in {a, b} : Max({a, b}) >= y
  BY <1>1 DEF Max
<1> QED
  BY <1>2

(* Division rounds down.                                                   *)
LEMMA Quotient ==
  ASSUME NEW n \in Int, NEW d \in Nat \ {0}
  PROVE  n \div d \in Int /\ (n \div d) * d <= n /\ n < (n \div d) * d + d
  OBVIOUS

(* All pages but the last are full, and the last is not empty.             *)
LEMMA PageCount ==
  ASSUME NEW rows, Len(rows) \in Nat \ {0}
  PROVE  /\ pageCount(rows) \in Nat \ {0}
         /\ (pageCount(rows) - 1) * PerPage < Len(rows)
         /\ Len(rows) <= pageCount(rows) * PerPage
<1> DEFINE n == Len(rows)
           q == (n + PerPage - 1) \div PerPage
<1>1. PerPage \in Nat \ {0}
  BY ListsAssumption
<1>2. q \in Int /\ q * PerPage <= n + PerPage - 1 /\ n + PerPage - 1 < q * PerPage + PerPage
  BY <1>1, Quotient
<1> HIDE DEF q
<1>3. q >= 1
  BY <1>1, <1>2
<1>4. pageCount(rows) = q
  BY <1>2, <1>3, MaxOf DEF pageCount, q
<1>5. (q - 1) * PerPage = q * PerPage - PerPage
  BY <1>1, <1>2
<1> QED
  BY <1>1, <1>2, <1>3, <1>4, <1>5

(* Where page p ends.                                                      *)
End(rows, p) == IF p * PerPage <= Len(rows) THEN p * PerPage ELSE Len(rows)

(* A page within the list is cut out of it.                                *)
LEMMA PageIs ==
  ASSUME NEW rows, Len(rows) \in Nat \ {0}, NEW p \in Nat, p < pageCount(rows)
  PROVE  /\ p * PerPage \in Nat /\ p * PerPage < Len(rows)
         /\ End(rows, p) = p * PerPage
         /\ End(rows, p + 1) \in p * PerPage + 1 .. Len(rows)
         /\ chips(rows, p) = SubSeq(rows, p * PerPage + 1, End(rows, p + 1))
<1> DEFINE n == Len(rows)
           s == p * PerPage
           t == p * PerPage + PerPage
<1>1. PerPage \in Nat \ {0}
  BY ListsAssumption
<1>2. /\ pageCount(rows) \in Nat \ {0}
      /\ (pageCount(rows) - 1) * PerPage < n
  BY PageCount
<1>3. s \in Nat /\ t \in Nat /\ t > s /\ t = (p + 1) * PerPage
  BY <1>1
<1>4. s <= (pageCount(rows) - 1) * PerPage
  <2>1. \A a, b \in Nat, d \in Nat : a <= b => a * d <= b * d
    OBVIOUS
  <2>2. pageCount(rows) - 1 \in Nat /\ p <= pageCount(rows) - 1
    BY <1>2
  <2> QED
    BY <1>1, <2>1, <2>2
<1>5. s < n
  <2>1. (pageCount(rows) - 1) * PerPage \in Int
    BY <1>1, <1>2
  <2> QED
    BY <1>2, <1>3, <1>4, <2>1
<1>6. safePage(rows, p) = p
  BY <1>2, MinOf DEF safePage
<1> HIDE DEF s, t
<1>7. chips(rows, p) = Slice(rows, s, t)
  BY <1>6 DEF chips, s, t
<1>8. Min({s, n}) = s /\ Min({t, n}) = IF t <= n THEN t ELSE n
  BY <1>3, <1>5, MinOf
<1>9. chips(rows, p) = SubSeq(rows, s + 1, IF t <= n THEN t ELSE n)
  <2>1. ~(s < 0) /\ ~(t < 0)
    BY <1>3
  <2>2. Slice(rows, s, t) = SubSeq(rows, Min({s, n}) + 1, Min({t, n}))
    BY <2>1, Zenon DEF Slice
  <2> QED
    BY <1>7, <1>8, <2>2, Zenon
<1>10. End(rows, p + 1) = IF t <= n THEN t ELSE n
  BY <1>3 DEF End
<1>11. End(rows, p) = s
  BY <1>3, <1>5 DEF End, s
<1> QED
  <2>1. End(rows, p + 1) \in s + 1 .. n
    BY <1>3, <1>5, <1>10
  <2>2. chips(rows, p) = SubSeq(rows, s + 1, End(rows, p + 1))
    BY <1>9, <1>10, Zenon
  <2> QED
    BY <1>3, <1>5, <1>11, <2>1, <2>2, Zenon DEF s

(* FlattenSeq is any function that joins the sequences from the left.      *)
Joined(ss, g, i) == IF i = 1 THEN ss[i] ELSE g[i - 1] \o ss[i]
Joins(ss, g) == g = [i \in 1 .. Len(ss) |-> Joined(ss, g, i)]

(* There is only one.                                                      *)
LEMMA FlattenIs ==
  ASSUME NEW ss, Len(ss) \in Nat \ {0}, NEW h, Joins(ss, h)
  PROVE  FlattenSeq(ss) = h[Len(ss)]
<1> DEFINE g == CHOOSE u : Joins(ss, u)
           T == {i \in Nat : i \in 1 .. Len(ss) /\ g[i] # h[i]}
<1>1. FlattenSeq(ss) = g[Len(ss)]
  BY DEF FlattenSeq, Joins, Joined
<1>2. Joins(ss, g)
  OBVIOUS
<1> HIDE DEF g
<1>3. T = {}
  <2>1. SUFFICES ASSUME T # {} PROVE FALSE
    OBVIOUS
  <2>2. PICK i \in T : \A k \in T : i <= k
    BY <2>1, LeastNat
  <2>3. g[i] = Joined(ss, g, i) /\ h[i] = Joined(ss, h, i)
    BY <1>2 DEF Joins
  <2>4. i = 1 \/ (i - 1 \in 1 .. Len(ss) /\ ~(i <= i - 1) /\ i - 1 \in Nat)
    OBVIOUS
  <2>5. i = 1 \/ g[i - 1] = h[i - 1]
    BY <2>2, <2>4
  <2> QED
    BY <2>3, <2>5 DEF Joined
<1> QED
  BY <1>1, <1>3

(* The pages, one after the other, are the list.                           *)
LEMMA PagesJoin ==
  ASSUME NEW S, NEW rows \in Seq(S), rows # <<>>
  PROVE  FlattenSeq([p \in 1 .. pageCount(rows) |-> chips(rows, p - 1)]) = rows
<1> DEFINE c == pageCount(rows)
           ss == [p \in 1 .. c |-> chips(rows, p - 1)]
           h == [p \in 1 .. c |-> SubSeq(rows, 1, End(rows, p))]
<1>1. Len(rows) \in Nat \ {0} /\ PerPage \in Nat \ {0}
  BY ListsAssumption
<1>2. c \in Nat \ {0} /\ Len(rows) <= c * PerPage
  BY <1>1, PageCount
<1>3. Len(ss) = c
  BY <1>2
<1>4. ASSUME NEW p \in 1 .. c PROVE h[p] = Joined(ss, h, p)
  <2> DEFINE s == (p - 1) * PerPage
  <2>1. p - 1 \in Nat /\ p - 1 < c /\ (p - 1) + 1 = p
    BY <1>2
  <2>2. /\ s \in Nat /\ s < Len(rows) /\ End(rows, p - 1) = s
        /\ End(rows, p) \in s + 1 .. Len(rows)
        /\ ss[p] = SubSeq(rows, s + 1, End(rows, p))
    BY <1>1, <2>1, PageIs
  <2>3. CASE p = 1
    <3>1. s = 0
      BY <1>1, <2>3
    <3>2. s + 1 = 1 /\ p \in 1 .. c
      BY <3>1
    <3> HIDE DEF s, ss
    <3>3. h[p] = ss[p]
      BY <2>2, <3>2
    <3> QED
      BY <2>3, <3>3 DEF Joined
  <2>4. CASE p # 1
    <3>1. p - 1 \in 1 .. c
      BY <1>2, <2>4
    <3> HIDE DEF s
    <3>2. SubSeq(rows, 1, s) \o SubSeq(rows, s + 1, End(rows, p)) = SubSeq(rows, 1, End(rows, p))
      <4>1. 1 \in 1 .. Len(rows) + 1 /\ s \in 1 - 1 .. Len(rows) /\ End(rows, p) \in s .. Len(rows)
        BY <1>1, <2>2
      <4> QED
        BY <4>1, ConcatAdjacentSubSeq
    <3>3. h[p - 1] = SubSeq(rows, 1, s)
      BY <2>2, <3>1
    <3> QED
      BY <2>2, <2>4, <3>2, <3>3 DEF Joined
  <2> QED
    BY <2>3, <2>4
<1>5. Joins(ss, h)
  BY <1>3, <1>4 DEF Joins
<1>6. FlattenSeq(ss) = h[c]
  BY <1>2, <1>3, <1>5, FlattenIs
<1>7. End(rows, c) = Len(rows)
  BY <1>1, <1>2 DEF End
<1> QED
  BY <1>2, <1>6, <1>7, SubSeqFull

(* Whatever page is stored, unless it is negative, some project is shown.  *)
LEMMA PageShowsSome ==
  ASSUME NEW S, NEW rows \in Seq(S), rows # <<>>, NEW page \in Nat
  PROVE  chips(rows, page) # <<>>
<1> DEFINE p == safePage(rows, page)
<1>1. Len(rows) \in Nat \ {0}
  OBVIOUS
<1>2. pageCount(rows) \in Nat \ {0}
  BY <1>1, PageCount
<1>3. p \in Nat /\ p < pageCount(rows)
  BY <1>2, MinOf DEF safePage
<1>4. safePage(rows, p) = p
  BY <1>2, <1>3, MinOf DEF safePage
<1> HIDE DEF p
<1>5. chips(rows, page) = chips(rows, p)
  BY <1>4 DEF chips, p
<1>6. chips(rows, p) = SubSeq(rows, p * PerPage + 1, End(rows, p + 1))
      /\ p * PerPage \in Nat /\ End(rows, p + 1) \in p * PerPage + 1 .. Len(rows)
  BY <1>1, <1>3, PageIs
<1> DEFINE a == p * PerPage + 1
           b == End(rows, p + 1)
<1> HIDE DEF a, b
<1>7. a \in Int /\ b \in Int /\ a <= b /\ 1 <= a /\ b <= Len(rows) /\ chips(rows, p) = SubSeq(rows, a, b)
  BY <1>1, <1>6 DEF a, b
<1>8. Len(SubSeq(rows, a, b)) = b - a + 1
  BY <1>7
<1> QED
  <2>1. Len(SubSeq(rows, a, b)) # 0
    BY <1>7, <1>8
  <2>2. Len(<<>>) = 0
    OBVIOUS
  <2> QED
    BY <1>5, <1>7, <2>1, <2>2, Zenon

(* However often the list of projects is replaced under the picker, by one *)
(* of any length and for any page size, its pages hold every project once  *)
(* and in order, and the page drawn has a project on it, unless a jump to  *)
(* a project that had gone has stored a negative page.                     *)
THEOREM NoPageStranded == SpecPanels => []NoStrandedPage
<1>1. TypeOKPanels => NoStrandedPage
  <2> SUFFICES ASSUME TypeOKPanels, kind = "projects", body.rows # <<>>
               PROVE  /\ FlattenSeq([p \in 1 .. pageCount(body.rows) |-> chips(body.rows, p - 1)]) = body.rows
                      /\ chips(body.rows, picked) = <<>> => picked < 0
    BY DEF NoStrandedPage
  <2>1. kind \in Kind /\ body.rows \in Seq(ToSet(body.rows))
    BY BodyIs, PanelsAssumption DEF TypeOKPanels
  <2>2. picked \in Int
    BY <2>1, PanelsAssumption DEF TypeOKPanels, PickFresh
  <2>3. picked \in Nat => chips(body.rows, picked) # <<>>
    BY <2>1, PageShowsSome
  <2> QED
    BY <2>1, <2>2, <2>3, PagesJoin
<1> QED
  BY <1>1, PanelTypeCorrect, PTL
(***************************************************************************)
(* The margins of the activity heatmap                                     *)
(***************************************************************************)
(* What a metric adds to the margins, by rows; what its cells show, by     *)
(* hours and by weekdays; and what the tooltips of the weekdays say.       *)
Values(rows, k) == [i \in DOMAIN rows |-> rows[i].value[k]]
CellRow(rows, d, k) == [h \in 0 .. 23 |-> byCell(rows, d, h)[k]]
CellColumn(rows, h, k) == [d \in 1 .. 7 |-> byCell(rows, d, h)[k]]
RowSums(rows, k) == [d \in 1 .. 7 |-> onSumColEnter(rows, d, k).total]

(* A margin is a sum over the rows of its cells.                           *)
LEMMA MarginIs ==
  ASSUME NEW rows, IsFiniteSet(DOMAIN rows), NEW k, NEW D, NEW H
  PROVE  Margin(rows, D, H, k) = SumFunctionOnSet(Values(rows, k), CellsOf(rows, D, H))
<1> DEFINE C == CellsOf(rows, D, H)
           f == Values(rows, k)
           g == [i \in C |-> rows[i].value[k]]
<1>1. IsFiniteSet(C) /\ \A x \in C : f[x] = g[x]
  <2>1. C \in SUBSET DOMAIN rows
    BY DEF CellsOf
  <2> QED
    BY <2>1, FS_Subset DEF Values
<1>2. Margin(rows, D, H, k) = SumFunctionOnSet(g, C)
  BY DEF Margin, SumEach
<1> HIDE DEF C, f, g
<1> QED
  BY <1>1, <1>2, SumExtensional DEF C, f

(* What MarginsAddUp may assume of the rows on display.                    *)
HeatRows(rows) == IsFiniteSet(DOMAIN rows) /\ CellRows(rows)

(* The sum over a cell is what the cell shows.                             *)
LEMMA CellValue ==
  ASSUME NEW rows, HeatRows(rows), NEW k \in Metric, NEW d, NEW h
  PROVE  /\ byCell(rows, d, h)[k] \in Nat
         /\ byCell(rows, d, h)[k] = SumFunctionOnSet(Values(rows, k), CellsOf(rows, {d}, {h}))
         /\ CellsOf(rows, {d}, {h}) = {} => byCell(rows, d, h)[k] = 0
         /\ byCell(rows, d, h)[k] = 0 \/ \E i \in DOMAIN rows : byCell(rows, d, h)[k] = rows[i].value[k]
<1> DEFINE C == CellsOf(rows, {d}, {h})
           f == Values(rows, k)
<1>1. CASE C = {}
  BY <1>1, SumOfNone DEF byCell
<1>2. CASE C # {}
  <2>1. PICK i : i \in C
    BY <1>2
  <2>2. i \in DOMAIN rows /\ C = {i}
    BY <2>1 DEF CellsOf, HeatRows, CellRows
  <2>3. Max({i}) = i
    <3>1. i >= i \/ \A y \in {i} : ~(i >= y)
      OBVIOUS
    <3> QED
      BY DEF Max
  <2>4. byCell(rows, d, h)[k] = f[i]
    BY <1>2, <2>2, <2>3 DEF byCell, Values
  <2>5. f[i] \in Nat /\ f[i] = rows[i].value[k]
    BY <2>2 DEF Values, HeatRows, CellRows
  <2> HIDE DEF f, C
  <2>6. SumFunctionOnSet(f, {i}) = f[i] + SumFunctionOnSet(f, {i} \ {i})
    <3>1. IsFiniteSet({i}) /\ \A y \in {i} : f[y] \in Int
      <4>1. IsFiniteSet({i})
        BY FS_Singleton
      <4> QED
        BY <2>5, <4>1
    <3> QED
      BY <3>1, SumWithout
  <2>7. {i} \ {i} = {}
    OBVIOUS
  <2>8. SumFunctionOnSet(f, {i} \ {i}) = 0
    BY <2>7, SumOfNone
  <2>9. SumFunctionOnSet(f, C) = f[i]
    BY <2>2, <2>5, <2>6, <2>8
  <2> QED
    BY <1>2, <2>2, <2>4, <2>5, <2>9 DEF C, f
<1> QED
  BY <1>1, <1>2

(* Nothing in a margin is negative.                                        *)
LEMMA MarginType ==
  ASSUME NEW rows, HeatRows(rows), NEW k \in Metric, NEW D, NEW H
  PROVE  Margin(rows, D, H, k) \in Nat
<1> DEFINE C == CellsOf(rows, D, H)
           f == Values(rows, k)
<1>1. IsFiniteSet(DOMAIN rows)
  BY DEF HeatRows
<1>2. IsFiniteSet(C) /\ C \subseteq DOMAIN rows
  BY <1>1, FS_Subset DEF CellsOf
<1>3. \A x \in C : f[x] \in Int /\ f[x] \in Nat
  BY <1>2 DEF Values, HeatRows, CellRows
<1>4. Margin(rows, D, H, k) = SumFunctionOnSet(f, C)
  BY <1>1, MarginIs
<1> HIDE DEF f, C
<1>5. SumFunctionOnSet(f, C) \in Int /\ SumFunctionOnSet(f, C) >= 0
  BY <1>2, <1>3, SumType
<1> QED
  BY <1>4, <1>5

(* The margins of the hours and of the weekdays of another.                *)
ByHours(rows, D, H, k, g) == \A h \in H : g[h] = Margin(rows, D, {h}, k)
ByDows(rows, D, H, k, g) == \A d \in D : g[d] = Margin(rows, {d}, H, k)

(* A margin is the sum of the margins of its hours                         *)
LEMMA MarginByHours ==
  ASSUME NEW rows, HeatRows(rows), NEW k \in Metric, NEW D, NEW H, IsFiniteSet(H),
         NEW g, ByHours(rows, D, H, k, g)
  PROVE  Margin(rows, D, H, k) = SumFunctionOnSet(g, H)
<1> DEFINE C == CellsOf(rows, D, H)
           f == Values(rows, k)
<1>1. IsFiniteSet(DOMAIN rows)
  BY DEF HeatRows
<1>2. IsFiniteSet(C) /\ C \subseteq DOMAIN rows
  BY <1>1, FS_Subset DEF CellsOf
<1>3. \A x \in C : f[x] \in Int /\ f[x] \in Nat
  BY <1>2 DEF Values, HeatRows, CellRows
<1>4. Margin(rows, D, H, k) = SumFunctionOnSet(f, C)
  BY <1>1, MarginIs
<1> DEFINE parts == [h \in H |-> CellsOf(rows, D, {h})]
<1>5. parts \in [H -> SUBSET C]
  BY DEF CellsOf
<1>6. \A x \in C : \E h \in H : x \in parts[h]
  BY DEF CellsOf
<1>7. \A h, other \in H : h # other => parts[h] \cap parts[other] = {}
  BY DEF CellsOf
<1>8. \A h \in H : g[h] = SumFunctionOnSet(f, parts[h])
  BY <1>1, MarginIs DEF ByHours
<1>9. Splits(C, H, parts)
  BY <1>2, <1>5, <1>6, <1>7 DEF Splits
<1> HIDE DEF parts, C, f
<1>10. \A x \in C : f[x] \in Int
  BY <1>3
<1>11. SumFunctionOnSet(f, C) = SumFunctionOnSet(g, H)
  BY <1>8, <1>9, <1>10, SumByParts
<1> QED
  BY <1>4, <1>11

(* or of its weekdays.                                                     *)
LEMMA MarginByDows ==
  ASSUME NEW rows, HeatRows(rows), NEW k \in Metric, NEW D, NEW H, IsFiniteSet(D),
         NEW g, ByDows(rows, D, H, k, g)
  PROVE  Margin(rows, D, H, k) = SumFunctionOnSet(g, D)
<1> DEFINE C == CellsOf(rows, D, H)
           f == Values(rows, k)
<1>1. IsFiniteSet(DOMAIN rows)
  BY DEF HeatRows
<1>2. IsFiniteSet(C) /\ C \subseteq DOMAIN rows
  BY <1>1, FS_Subset DEF CellsOf
<1>3. \A x \in C : f[x] \in Int /\ f[x] \in Nat
  BY <1>2 DEF Values, HeatRows, CellRows
<1>4. Margin(rows, D, H, k) = SumFunctionOnSet(f, C)
  BY <1>1, MarginIs
<1> DEFINE parts == [d \in D |-> CellsOf(rows, {d}, H)]
<1>5. parts \in [D -> SUBSET C]
  BY DEF CellsOf
<1>6. \A x \in C : \E d \in D : x \in parts[d]
  BY DEF CellsOf
<1>7. \A d, other \in D : d # other => parts[d] \cap parts[other] = {}
  BY DEF CellsOf
<1>8. \A d \in D : g[d] = SumFunctionOnSet(f, parts[d])
  BY <1>1, MarginIs DEF ByDows
<1>9. Splits(C, D, parts)
  BY <1>2, <1>5, <1>6, <1>7 DEF Splits
<1> HIDE DEF parts, C, f
<1>10. \A x \in C : f[x] \in Int
  BY <1>3
<1>11. SumFunctionOnSet(f, C) = SumFunctionOnSet(g, D)
  BY <1>8, <1>9, <1>10, SumByParts
<1> QED
  BY <1>4, <1>11

(* The greatest of a bounded set of natural numbers.                       *)
LEMMA MaxIs ==
  ASSUME NEW T \in SUBSET Nat, NEW bound \in Nat, \A m \in T : m <= bound, NEW v \in T
  PROVE  Max(T) \in T /\ Max(T) \in Nat /\ v <= Max(T)
<1>1. \E n \in T : \A m \in T : m <= n
  BY GreatestNat
<1>2. \E n \in T : \A m \in T : n >= m
  BY <1>1
<1>3. Max(T) \in T /\ \A m \in T : Max(T) >= m
  BY <1>2 DEF Max
<1> QED
  BY <1>3

(* Of values on a scale that ends at or above them, those without are dark. *)
LEMMA DarkIsZero ==
  ASSUME NEW v \in Nat, NEW top \in Nat, v <= top
  PROVE  fillFor(v, top).shade = "dark" <=> v = 0
BY DEF fillFor

(* The total of a weekday is that of its cells.                            *)
LEMMA RowTotal ==
  ASSUME NEW rows, HeatRows(rows), NEW k \in Metric, NEW d
  PROVE  /\ rowTotals(rows, d, k) \in Nat
         /\ rowTotals(rows, d, k) = SumFunctionOnSet(CellRow(rows, d, k), 0 .. 23)
<1>1. IsFiniteSet({d}) /\ IsFiniteSet(0 .. 23)
  <2>1. IsFiniteSet({d})
    BY FS_Singleton
  <2>2. IsFiniteSet(0 .. 23)
    BY FS_Interval, 0 \in Int, 23 \in Int
  <2> QED
    BY <2>1, <2>2
<1> DEFINE R == 0 .. 23
           g == CellRow(rows, d, k)
<1>2. ASSUME NEW h \in R PROVE g[h] = Margin(rows, {d}, {h}, k)
  <2>1. g[h] = byCell(rows, d, h)[k]
    BY DEF CellRow
  <2>2. byCell(rows, d, h)[k] = SumFunctionOnSet(Values(rows, k), CellsOf(rows, {d}, {h}))
    BY CellValue
  <2>3. Margin(rows, {d}, {h}, k) = SumFunctionOnSet(Values(rows, k), CellsOf(rows, {d}, {h}))
    BY MarginIs DEF HeatRows
  <2> QED
    BY <2>1, <2>2, <2>3, Zenon
<1> HIDE DEF R, g
<1>3. Margin(rows, {d}, R, k) = SumFunctionOnSet(g, R)
  <2>1. IsFiniteSet({d}) /\ IsFiniteSet(R)
    BY <1>1 DEF R
  <2>2. ByHours(rows, {d}, R, k, g)
    BY <1>2 DEF ByHours
  <2> QED
    BY <2>1, <2>2, MarginByHours
<1> QED
  BY <1>3, MarginType DEF rowTotals, R, g

(* The same of an hour.                                                    *)
LEMMA ColTotal ==
  ASSUME NEW rows, HeatRows(rows), NEW k \in Metric, NEW h
  PROVE  /\ colTotals(rows, h, k) \in Nat
         /\ colTotals(rows, h, k) = SumFunctionOnSet(CellColumn(rows, h, k), 1 .. 7)
<1>1. IsFiniteSet({h}) /\ IsFiniteSet(1 .. 7)
  <2>1. IsFiniteSet({h})
    BY FS_Singleton
  <2>2. IsFiniteSet(1 .. 7)
    BY FS_Interval, 1 \in Int, 7 \in Int
  <2> QED
    BY <2>1, <2>2
<1> DEFINE R == 1 .. 7
           g == CellColumn(rows, h, k)
<1>2. ASSUME NEW d \in R PROVE g[d] = Margin(rows, {d}, {h}, k)
  <2>1. g[d] = byCell(rows, d, h)[k]
    BY DEF CellColumn
  <2>2. byCell(rows, d, h)[k] = SumFunctionOnSet(Values(rows, k), CellsOf(rows, {d}, {h}))
    BY CellValue
  <2>3. Margin(rows, {d}, {h}, k) = SumFunctionOnSet(Values(rows, k), CellsOf(rows, {d}, {h}))
    BY MarginIs DEF HeatRows
  <2> QED
    BY <2>1, <2>2, <2>3, Zenon
<1> HIDE DEF R, g
<1>3. Margin(rows, R, {h}, k) = SumFunctionOnSet(g, R)
  <2>1. IsFiniteSet({h}) /\ IsFiniteSet(R)
    BY <1>1 DEF R
  <2>2. ByDows(rows, R, {h}, k, g)
    BY <1>2 DEF ByDows
  <2> QED
    BY <2>1, <2>2, MarginByDows
<1> QED
  BY <1>3, MarginType DEF colTotals, R, g

(* Every total is within the grand one.                                    *)
LEMMA GrandTotal ==
  ASSUME NEW rows, HeatRows(rows), NEW k \in Metric
  PROVE  /\ grand(rows, k) \in Nat
         /\ grand(rows, k) = SumFunctionOnSet(RowSums(rows, k), 1 .. 7)
         /\ \A d \in 1 .. 7 : rowTotals(rows, d, k) <= grand(rows, k)
         /\ \A h \in 0 .. 23 : colTotals(rows, h, k) <= grand(rows, k)
<1> DEFINE columns == [h \in 0 .. 23 |-> colTotals(rows, h, k)]
           sums == RowSums(rows, k)
<1>1. IsFiniteSet(1 .. 7) /\ IsFiniteSet(0 .. 23)
  <2>1. IsFiniteSet(1 .. 7)
    BY FS_Interval, 1 \in Int, 7 \in Int
  <2>2. IsFiniteSet(0 .. 23)
    BY FS_Interval, 0 \in Int, 23 \in Int
  <2> QED
    BY <2>1, <2>2
<1>2. \A d \in 1 .. 7 : sums[d] = rowTotals(rows, d, k) /\ sums[d] = Margin(rows, {d}, 0 .. 23, k)
  BY DEF RowSums, onSumColEnter, rowTotals
<1>3. \A h \in 0 .. 23 : columns[h] = Margin(rows, 1 .. 7, {h}, k)
  BY DEF colTotals
<1>4. \A d \in 1 .. 7 : sums[d] \in Nat
  BY <1>2, RowTotal
<1>5. \A h \in 0 .. 23 : columns[h] \in Nat
  BY ColTotal
<1> DEFINE Dows == 1 .. 7
           Hours == 0 .. 23
<1> HIDE DEF sums, columns, Dows, Hours
<1>6. Margin(rows, Dows, Hours, k) = SumFunctionOnSet(sums, Dows)
  <2>1. IsFiniteSet(Dows) /\ ByDows(rows, Dows, Hours, k, sums)
    BY <1>1, <1>2 DEF Dows, Hours, ByDows
  <2> QED
    BY <2>1, MarginByDows
<1>7. Margin(rows, Dows, Hours, k) = SumFunctionOnSet(columns, Hours)
  <2>1. IsFiniteSet(Hours) /\ ByHours(rows, Dows, Hours, k, columns)
    BY <1>1, <1>3 DEF Dows, Hours, ByHours
  <2> QED
    BY <2>1, MarginByHours
<1>8. grand(rows, k) = Margin(rows, Dows, Hours, k) /\ grand(rows, k) \in Nat
  BY MarginType DEF grand, Dows, Hours
<1>9. \A d \in Dows : sums[d] <= grand(rows, k)
  BY <1>1, <1>4, <1>6, <1>8, SumAtLeast DEF Dows
<1>10. \A h \in Hours : columns[h] <= grand(rows, k)
  BY <1>1, <1>5, <1>7, <1>8, SumAtLeast DEF Hours
<1>11. \A h \in Hours : columns[h] = colTotals(rows, h, k)
  BY DEF columns, Hours
<1> QED
  BY <1>2, <1>6, <1>8, <1>9, <1>10, <1>11 DEF sums, Dows, Hours

(* A cell is dark when it is zero,                                         *)
LEMMA CellDark ==
  ASSUME NEW rows, HeatRows(rows), NEW k \in Metric, NEW d, NEW h
  PROVE  CellFill(rows, d, h, k).shade = "dark" <=> byCell(rows, d, h)[k] = 0
<1> DEFINE T == {0} \cup {c.value[k] : c \in ToSet(rows)}
           f == Values(rows, k)
           v == byCell(rows, d, h)[k]
<1>1. \A i \in DOMAIN rows : f[i] \in Nat /\ f[i] = rows[i].value[k] /\ rows[i].value[k] \in Nat
  BY DEF Values, HeatRows, CellRows
<1>2. \A i \in DOMAIN rows : f[i] <= SumFunctionOnSet(f, DOMAIN rows)
  <2> HIDE DEF f
  <2> QED
    BY <1>1, SumAtLeast DEF HeatRows
<1>3. SumFunctionOnSet(f, DOMAIN rows) \in Nat
  <2> HIDE DEF f
  <2>1. SumFunctionOnSet(f, DOMAIN rows) \in Int /\ SumFunctionOnSet(f, DOMAIN rows) >= 0
    BY <1>1, SumType DEF HeatRows
  <2> QED
    BY <2>1
<1> HIDE DEF f
<1>4. T \in SUBSET Nat /\ \A m \in T : m <= SumFunctionOnSet(f, DOMAIN rows)
  BY <1>1, <1>2, <1>3 DEF ToSet
<1>5. v \in T /\ v \in Nat
  <2>1. v \in Nat /\ (v = 0 \/ \E i \in DOMAIN rows : v = rows[i].value[k])
    BY CellValue
  <2> HIDE DEF v
  <2> QED
    BY <2>1 DEF ToSet
<1> HIDE DEF T, v
<1>6. Max(T) \in Nat /\ v <= Max(T)
  BY <1>3, <1>4, <1>5, MaxIs
<1>7. fillFor(v, Max(T)).shade = "dark" <=> v = 0
  BY <1>5, <1>6, DarkIsZero
<1> QED
  BY <1>7 DEF CellFill, maxVal, T, v

(* and so is the total of a weekday.                                       *)
LEMMA RowDark ==
  ASSUME NEW rows, HeatRows(rows), NEW k \in Metric, NEW d \in 1 .. 7
  PROVE  RowFill(rows, d, k).shade = "dark" <=> rowTotals(rows, d, k) = 0
<1> DEFINE T == {rowTotals(rows, x, k) : x \in 1 .. 7}
           v == rowTotals(rows, d, k)
<1>1. T \in SUBSET Nat /\ v \in T /\ v \in Nat
  BY RowTotal
<1>2. grand(rows, k) \in Nat /\ \A m \in T : m <= grand(rows, k)
  BY GrandTotal
<1> HIDE DEF T, v
<1>3. Max(T) \in Nat /\ v <= Max(T)
  BY <1>1, <1>2, MaxIs
<1>4. fillFor(v, Max(T)).shade = "dark" <=> v = 0
  BY <1>1, <1>3, DarkIsZero
<1> QED
  BY <1>4 DEF RowFill, T, v

(* The same of an hour.                                                    *)
LEMMA ColDark ==
  ASSUME NEW rows, HeatRows(rows), NEW k \in Metric, NEW h \in 0 .. 23
  PROVE  ColFill(rows, h, k).shade = "dark" <=> colTotals(rows, h, k) = 0
<1> DEFINE T == {colTotals(rows, x, k) : x \in 0 .. 23}
           v == colTotals(rows, h, k)
<1>1. T \in SUBSET Nat /\ v \in T /\ v \in Nat
  BY ColTotal
<1>2. grand(rows, k) \in Nat /\ \A m \in T : m <= grand(rows, k)
  BY GrandTotal
<1> HIDE DEF T, v
<1>3. Max(T) \in Nat /\ v <= Max(T)
  BY <1>1, <1>2, MaxIs
<1>4. fillFor(v, Max(T)).shade = "dark" <=> v = 0
  BY <1>1, <1>3, DarkIsZero
<1> QED
  BY <1>4 DEF ColFill, T, v

(* Whatever grid is on display and whichever metric is picked, the margins *)
(* of the heatmap are the sums of the cells drawn, both ways and in the    *)
(* corner, no total exceeds the grand one, a margin is dark exactly when   *)
(* all its cells are, and a cell without a tooltip shows nothing.          *)
THEOREM MarginsSum == SpecPanels => []MarginsAddUp
<1>1. ASSUME TypeOKPanels, kind = "heat" PROVE HeatRows(body.rows) /\ picked \in Metric
  <2>1. kind \in Kind /\ body \in Answers[kind] \cup {Empty}
    BY <1>1, BodyIs DEF TypeOKPanels
  <2>2. body.rows \in Seq(ToSet(body.rows)) /\ CellRows(body.rows)
    BY <1>1, <2>1, PanelsAssumption
  <2>3. IsFiniteSet(DOMAIN body.rows)
    <3> DEFINE n == Len(body.rows)
    <3>1. DOMAIN body.rows = 1 .. n /\ n \in Int /\ 1 \in Int
      BY <2>2
    <3> HIDE DEF n
    <3> QED
      BY <3>1, FS_Interval
  <2>4. picked \in Metric
    BY <1>1, <2>1, PanelsAssumption DEF TypeOKPanels, PickFresh, Metric
  <2> QED
    BY <2>2, <2>3, <2>4 DEF HeatRows
<1>2. ASSUME TypeOKPanels, kind = "heat" PROVE MarginsAddUp
  <2> DEFINE rows == body.rows
             k == picked
  <2>1. HeatRows(rows) /\ k \in Metric
    BY <1>1, <1>2
  <2> HIDE DEF rows, k
  <2>2. ASSUME NEW d \in 1 .. 7
        PROVE  /\ rowTotals(rows, d, k) = SumEach(0 .. 23, LAMBDA h : byCell(rows, d, h)[k])
               /\ RowFill(rows, d, k).shade = "dark"
                    <=> \A h \in 0 .. 23 : CellFill(rows, d, h, k).shade = "dark"
               /\ \A h \in 0 .. 23 : onCellEnter(rows, d, h) = <<>> => byCell(rows, d, h)[k] = 0
    <3> DEFINE Hours == 0 .. 23
               g == CellRow(rows, d, k)
    <3>1. rowTotals(rows, d, k) = SumFunctionOnSet(g, Hours)
      BY <2>1, RowTotal
    <3>2. SumEach(0 .. 23, LAMBDA h : byCell(rows, d, h)[k]) = SumFunctionOnSet(g, Hours)
      BY DEF SumEach, CellRow
    <3>3. \A h \in Hours : g[h] \in Nat /\ (g[h] = 0 <=> CellFill(rows, d, h, k).shade = "dark")
      <4> SUFFICES ASSUME NEW h \in Hours
                   PROVE  g[h] \in Nat /\ (g[h] = 0 <=> CellFill(rows, d, h, k).shade = "dark")
        OBVIOUS
      <4>1. g[h] = byCell(rows, d, h)[k]
        BY DEF CellRow
      <4>2. byCell(rows, d, h)[k] \in Nat
        BY <2>1, CellValue
      <4>3. CellFill(rows, d, h, k).shade = "dark" <=> byCell(rows, d, h)[k] = 0
        BY <2>1, CellDark
      <4> HIDE DEF g
      <4> QED
        BY <4>1, <4>2, <4>3, Zenon
    <3>4. IsFiniteSet(Hours)
      BY FS_Interval, 0 \in Int, 23 \in Int
    <3>5. RowFill(rows, d, k).shade = "dark" <=> rowTotals(rows, d, k) = 0
      BY <2>1, RowDark
    <3>6. ASSUME NEW h \in Hours, onCellEnter(rows, d, h) = <<>> PROVE byCell(rows, d, h)[k] = 0
      <4>1. CellsOf(rows, {d}, {h}) = {}
        <5>1. SUFFICES ASSUME CellsOf(rows, {d}, {h}) # {} PROVE FALSE
          OBVIOUS
        <5>2. <<>> = [m \in Metric |-> byCell(rows, d, h)[m]]
          BY <3>6, <5>1 DEF onCellEnter
        <5>3. DOMAIN <<>> = Metric
          BY <5>2, Zenon
        <5>4. DOMAIN <<>> = {} /\ Metric # {}
          BY DEF Metric
        <5> QED
          BY <5>3, <5>4
      <4> QED
        BY <2>1, <4>1, CellValue
    <3> HIDE DEF g, Hours
    <3>7. SumFunctionOnSet(g, Hours) = 0 <=> \A h \in Hours : g[h] = 0
      BY <3>3, <3>4, SumIsZero
    <3>8. RowFill(rows, d, k).shade = "dark" <=> \A h \in Hours : CellFill(rows, d, h, k).shade = "dark"
      BY <3>1, <3>3, <3>5, <3>7
    <3> QED
      BY <3>1, <3>2, <3>6, <3>8 DEF Hours
  <2>3. ASSUME NEW h \in 0 .. 23
        PROVE  /\ colTotals(rows, h, k) = SumEach(1 .. 7, LAMBDA d : byCell(rows, d, h)[k])
               /\ ColFill(rows, h, k).shade = "dark"
                    <=> \A d \in 1 .. 7 : CellFill(rows, d, h, k).shade = "dark"
               /\ onSumRowEnter(rows, h, k).total <= grand(rows, k)
    <3> DEFINE Dows == 1 .. 7
               g == CellColumn(rows, h, k)
    <3>1. colTotals(rows, h, k) = SumFunctionOnSet(g, Dows)
      BY <2>1, ColTotal
    <3>2. SumEach(1 .. 7, LAMBDA d : byCell(rows, d, h)[k]) = SumFunctionOnSet(g, Dows)
      BY DEF SumEach, CellColumn
    <3>3. \A d \in Dows : g[d] \in Nat /\ (g[d] = 0 <=> CellFill(rows, d, h, k).shade = "dark")
      <4> SUFFICES ASSUME NEW d \in Dows
                   PROVE  g[d] \in Nat /\ (g[d] = 0 <=> CellFill(rows, d, h, k).shade = "dark")
        OBVIOUS
      <4>1. g[d] = byCell(rows, d, h)[k]
        BY DEF CellColumn
      <4>2. byCell(rows, d, h)[k] \in Nat
        BY <2>1, CellValue
      <4>3. CellFill(rows, d, h, k).shade = "dark" <=> byCell(rows, d, h)[k] = 0
        BY <2>1, CellDark
      <4> HIDE DEF g
      <4> QED
        BY <4>1, <4>2, <4>3, Zenon
    <3>4. IsFiniteSet(Dows)
      BY FS_Interval, 1 \in Int, 7 \in Int
    <3>5. ColFill(rows, h, k).shade = "dark" <=> colTotals(rows, h, k) = 0
      BY <2>1, ColDark
    <3>6. onSumRowEnter(rows, h, k).total <= grand(rows, k)
      BY <2>1, GrandTotal DEF onSumRowEnter
    <3> HIDE DEF g, Dows
    <3>7. SumFunctionOnSet(g, Dows) = 0 <=> \A d \in Dows : g[d] = 0
      BY <3>3, <3>4, SumIsZero
    <3>8. ColFill(rows, h, k).shade = "dark" <=> \A d \in Dows : CellFill(rows, d, h, k).shade = "dark"
      BY <3>1, <3>3, <3>5, <3>7
    <3> QED
      BY <3>1, <3>2, <3>6, <3>8 DEF Dows
  <2>4. grand(rows, k) = SumEach(1 .. 7, LAMBDA d : onSumColEnter(rows, d, k).total)
    BY <2>1, GrandTotal DEF SumEach, RowSums
  <2> QED
    BY <1>2, <2>2, <2>3, <2>4, Zenon DEF MarginsAddUp, rows, k
<1>3. TypeOKPanels => MarginsAddUp
  BY <1>2 DEF MarginsAddUp
<1> QED
  BY <1>3, PanelTypeCorrect, PTL

(***************************************************************************)
(* Sorting, filtering and grouping                                         *)
(***************************************************************************)
(* A sequence that has every element of a set once.                        *)
Enumerates(s, S) ==
  /\ s \in Seq(S)
  /\ \A x \in S : \E k \in DOMAIN s : s[k] = x
  /\ \A j, k \in DOMAIN s : s[j] = s[k] => j = k

(* A function of the first numbers is a sequence, and the one computed.    *)
LEMMA ComputedIs ==
  ASSUME NEW n \in Nat, NEW S, NEW f \in [1 .. n -> S]
  PROVE  Computed(f) = f /\ f \in Seq(S) /\ Len(f) = n
<1>1. f \in Seq(S) /\ Len(f) = n
  OBVIOUS
<1> QED
  BY <1>1, SubSeqFull DEF Computed

(* The places of a sequence are finitely many.                             *)
LEMMA PlacesFinite ==
  ASSUME NEW X, NEW s \in Seq(X), NEW S \in SUBSET DOMAIN s
  PROVE  /\ IsFiniteSet(DOMAIN s) /\ Cardinality(DOMAIN s) = Len(s)
         /\ IsFiniteSet(S) /\ Cardinality(S) \in Nat /\ S \subseteq Nat
<1> DEFINE n == Len(s)
<1>1. DOMAIN s = 1 .. n /\ n \in Nat
  OBVIOUS
<1> HIDE DEF n
<1>2. IsFiniteSet(1 .. n) /\ Cardinality(1 .. n) = IF 1 > n THEN 0 ELSE n - 1 + 1
  BY <1>1, FS_Interval, 1 \in Int
<1>3. IsFiniteSet(S)
  BY <1>1, <1>2, FS_Subset
<1>4. Cardinality(S) \in Nat
  BY <1>3, FS_CardinalityType
<1>5. Cardinality(1 .. n) = n
  BY <1>1, <1>2
<1> QED
  BY <1>1, <1>2, <1>3, <1>4, <1>5 DEF n

(* As many numbers as there are elements: none is left over.               *)
LEMMA AllPlacesTaken ==
  ASSUME NEW S, IsFiniteSet(S), NEW f \in [S -> 1 .. Cardinality(S)],
         \A x, y \in S : f[x] = f[y] => x = y
  PROVE  \A k \in 1 .. Cardinality(S) : \E x \in S : f[x] = k
<1> DEFINE n == Cardinality(S)
           T == 1 .. n
<1>1. n \in Nat
  BY FS_CardinalityType
<1> HIDE DEF n
<1>2. IsFiniteSet(T) /\ Cardinality(T) = n
  <2>1. IsFiniteSet(1 .. n) /\ Cardinality(1 .. n) = IF 1 > n THEN 0 ELSE n - 1 + 1
    BY <1>1, FS_Interval, 1 \in Int
  <2>2. Cardinality(1 .. n) = n
    BY <1>1, <2>1
  <2> QED
    BY <2>1, <2>2
<1> HIDE DEF T
<1>3. f \in Injection(S, T)
  BY DEF Injection, IsInjective, T, n
<1>4. f \in Surjection(S, T)
  BY <1>2, <1>3, FS_Injection DEF n
<1> QED
  BY <1>4 DEF Surjection, T, n

(* More elements lie up to a greater number.                               *)
LEMMA UptoGrows ==
  ASSUME NEW S \in SUBSET Int, IsFiniteSet(S), NEW v \in S, NEW w \in S, v < w
  PROVE  Cardinality(Upto(S, v)) # Cardinality(Upto(S, w))
<1>1. IsFiniteSet(Upto(S, w))
  BY FS_Subset DEF Upto
<1>2. v \in Int /\ w \in Int /\ \A u \in Int : u <= v => u <= w
  OBVIOUS
<1>3. Upto(S, v) \in SUBSET Upto(S, w)
  BY <1>2 DEF Upto
<1>4. w \notin Upto(S, v) /\ w \in Upto(S, w)
  BY <1>2 DEF Upto
<1> QED
  BY <1>1, <1>3, <1>4, FS_Subset

(* The numbers of a set, each once.                                        *)
LEMMA AscendingIs ==
  ASSUME NEW S \in SUBSET Int, IsFiniteSet(S)
  PROVE  Enumerates(Ascending(S), S) /\ Len(Ascending(S)) = Cardinality(S)
<1> DEFINE n == Cardinality(S)
           f == [v \in S |-> Cardinality(Upto(S, v))]
           a == [k \in 1 .. n |-> CHOOSE v \in S : Cardinality(Upto(S, v)) = k]
<1>1. n \in Nat
  BY FS_CardinalityType
<1>2. ASSUME NEW v \in S PROVE f[v] \in 1 .. n
  <2>1. Upto(S, v) \in SUBSET S /\ v \in Upto(S, v)
    BY DEF Upto
  <2>2. IsFiniteSet(Upto(S, v)) /\ Cardinality(Upto(S, v)) <= n
    BY <2>1, FS_Subset
  <2>3. Cardinality(Upto(S, v)) \in Nat /\ Cardinality(Upto(S, v)) # 0
    BY <2>1, <2>2, FS_CardinalityType, FS_EmptySet
  <2> HIDE DEF n
  <2> QED
    BY <1>1, <2>2, <2>3
<1>3. \A v, w \in S : f[v] = f[w] => v = w
  <2> SUFFICES ASSUME NEW v \in S, NEW w \in S, v # w PROVE f[v] # f[w]
    OBVIOUS
  <2>1. v < w \/ w < v
    OBVIOUS
  <2> QED
    BY <2>1, UptoGrows
<1>4. f \in [S -> 1 .. n]
  BY <1>2
<1>5. \A k \in 1 .. n : \E v \in S : f[v] = k
  <2> HIDE DEF f
  <2> QED
    BY <1>3, <1>4, AllPlacesTaken
<1>6. \A k \in 1 .. n : a[k] \in S /\ f[a[k]] = k
  <2> SUFFICES ASSUME NEW k \in 1 .. n PROVE a[k] \in S /\ f[a[k]] = k
    OBVIOUS
  <2>1. \E v \in S : Cardinality(Upto(S, v)) = k
    BY <1>5
  <2> QED
    BY <2>1
<1>7. Ascending(S) = Computed(a)
  BY DEF Ascending
<1>8. DOMAIN a = 1 .. n /\ a = [k \in 1 .. n |-> a[k]]
  OBVIOUS
<1> HIDE DEF a, f, n
<1>9. a \in [1 .. n -> S]
  BY <1>6, <1>8
<1>10. Computed(a) = a /\ a \in Seq(S) /\ Len(a) = n
  BY <1>1, <1>9, ComputedIs
<1>11. \A x \in S : \E k \in DOMAIN a : a[k] = x
  BY <1>2, <1>3, <1>6, <1>8
<1>12. \A j, k \in DOMAIN a : a[j] = a[k] => j = k
  BY <1>6, <1>8
<1> QED
  BY <1>7, <1>10, <1>11, <1>12 DEF Enumerates, n

(* What stands at some places of a sequence.                               *)
LEMMA AtIs ==
  ASSUME NEW X, NEW s \in Seq(X), NEW S \in SUBSET DOMAIN s
  PROVE  /\ At(s, S) \in Seq({s[i] : i \in S})
         /\ \A i \in S : \E k \in DOMAIN At(s, S) : At(s, S)[k] = s[i]
         /\ (\A i, j \in S : s[i] = s[j] => i = j) => Enumerates(At(s, S), {s[i] : i \in S})
<1> DEFINE a == Ascending(S)
           T == {s[i] : i \in S}
           f == [k \in DOMAIN a |-> s[a[k]]]
<1>1. IsFiniteSet(S) /\ S \subseteq Int /\ Cardinality(S) \in Nat
  BY PlacesFinite
<1>2. Enumerates(a, S) /\ Len(a) = Cardinality(S)
  BY <1>1, AscendingIs
<1>3. At(s, S) = Computed(f)
  BY DEF At
<1> HIDE DEF a
<1>4. DOMAIN a = 1 .. Cardinality(S) /\ \A k \in DOMAIN a : a[k] \in S
  BY <1>2 DEF Enumerates
<1>5. f \in [1 .. Cardinality(S) -> T]
  BY <1>4
<1>6. \A k \in DOMAIN a : f[k] = s[a[k]]
  OBVIOUS
<1>7. DOMAIN f = DOMAIN a
  OBVIOUS
<1> HIDE DEF f
<1>8. At(s, S) = f /\ f \in Seq(T)
  <2> HIDE DEF T
  <2> QED
    BY <1>1, <1>3, <1>5, ComputedIs
<1>9. \A i \in S : \E k \in DOMAIN f : f[k] = s[i]
  <2> SUFFICES ASSUME NEW i \in S PROVE \E k \in DOMAIN f : f[k] = s[i]
    OBVIOUS
  <2>1. PICK k \in DOMAIN a : a[k] = i
    BY <1>2 DEF Enumerates
  <2> QED
    BY <1>6, <1>7, <2>1
<1>10. ASSUME \A i, j \in S : s[i] = s[j] => i = j
       PROVE  \A j, k \in DOMAIN f : f[j] = f[k] => j = k
  <2> SUFFICES ASSUME NEW j \in DOMAIN f, NEW k \in DOMAIN f, f[j] = f[k] PROVE j = k
    OBVIOUS
  <2>1. a[j] \in S /\ a[k] \in S /\ s[a[j]] = s[a[k]]
    BY <1>4, <1>6, <1>7
  <2>2. a[j] = a[k]
    BY <1>10, <2>1
  <2> QED
    BY <1>2, <1>7, <2>2 DEF Enumerates
<1>11. \A x \in T : \E k \in DOMAIN f : f[k] = x
  BY <1>9
<1> QED
  BY <1>8, <1>9, <1>10, <1>11 DEF Enumerates

(* Of the values of a sequence, each once.                                 *)
LEMMA DistinctIs ==
  ASSUME NEW X, NEW s \in Seq(X)
  PROVE  Enumerates(Distinct(s), ToSet(s))
<1> DEFINE F == {i \in DOMAIN s : \A j \in 1 .. i - 1 : s[j] # s[i]}
<1>1. DOMAIN s = 1 .. Len(s) /\ Len(s) \in Nat
  OBVIOUS
<1>2. \A i, j \in F : s[i] = s[j] => i = j
  <2> SUFFICES ASSUME NEW i \in F, NEW j \in F, i # j PROVE s[i] # s[j]
    OBVIOUS
  <2>1. i \in 1 .. j - 1 \/ j \in 1 .. i - 1
    BY <1>1
  <2> QED
    BY <2>1
<1>3. \A i \in DOMAIN s : \E j \in F : s[j] = s[i]
  <2> SUFFICES ASSUME NEW i \in DOMAIN s PROVE \E j \in F : s[j] = s[i]
    OBVIOUS
  <2> DEFINE T == {k \in Nat : k \in DOMAIN s /\ s[k] = s[i]}
  <2>1. PICK j \in T : \A k \in T : j <= k
    <3>1. i \in T
      BY <1>1
    <3> QED
      BY <3>1, LeastNat
  <2>2. \A k \in 1 .. j - 1 : s[k] # s[j]
    <3> SUFFICES ASSUME NEW k \in 1 .. j - 1, s[k] = s[j] PROVE FALSE
      OBVIOUS
    <3>1. k \in T /\ ~(j <= k)
      BY <1>1
    <3> QED
      BY <2>1, <3>1
  <2> QED
    BY <2>1, <2>2
<1>4. {s[i] : i \in F} = ToSet(s)
  BY <1>3 DEF ToSet
<1>5. F \in SUBSET DOMAIN s /\ Distinct(s) = At(s, F)
  BY DEF Distinct
<1> HIDE DEF F
<1> QED
  BY <1>2, <1>4, <1>5, AtIs

(* What passes a filter, if nothing was there twice.                       *)
LEMMA AtEnumerates ==
  ASSUME NEW X, NEW s, Enumerates(s, X), NEW S \in SUBSET DOMAIN s
  PROVE  Enumerates(At(s, S), {s[i] : i \in S})
BY AtIs DEF Enumerates

(* Fewer go before those that go first.                                    *)
LEMMA BeforeGrows ==
  ASSUME NEW D \in SUBSET Int, IsFiniteSet(D), NEW rank \in [D -> Int], NEW i \in D, NEW j \in D,
         rank[i] < rank[j] \/ (rank[i] = rank[j] /\ i < j)
  PROVE  Cardinality(Before(rank, i)) # Cardinality(Before(rank, j))
<1>1. IsFiniteSet(Before(rank, j))
  BY FS_Subset DEF Before
<1>2. Before(rank, i) \in SUBSET Before(rank, j)
  <2> SUFFICES ASSUME NEW k \in Before(rank, i) PROVE k \in Before(rank, j)
    OBVIOUS
  <2>1. k \in D /\ (rank[k] < rank[i] \/ (rank[k] = rank[i] /\ k <= i))
    BY DEF Before
  <2>2. rank[k] \in Int /\ rank[i] \in Int /\ rank[j] \in Int /\ k \in Int /\ i \in Int /\ j \in Int
    BY <2>1
  <2>3. rank[k] < rank[j] \/ (rank[k] = rank[j] /\ k <= j)
    BY <2>1, <2>2
  <2> QED
    BY <2>1, <2>3 DEF Before
<1>3. j \notin Before(rank, i) /\ j \in Before(rank, j)
  BY DEF Before
<1> QED
  BY <1>1, <1>2, <1>3, FS_Subset

(* Sorting keeps what there is.                                            *)
LEMMA OrderedIs ==
  ASSUME NEW S, NEW s, Enumerates(s, S), NEW rank \in [DOMAIN s -> Int]
  PROVE  Enumerates(Ordered(s, rank), S)
<1> DEFINE n == Len(s)
           D == DOMAIN s
           f == [i \in D |-> Cardinality(Before(rank, i))]
           P(p) == [k \in D |-> s[CHOOSE i \in D : p[i] = k]]
           g == P(f)
           at(k) == CHOOSE i \in D : f[i] = k
<1>1. s \in Seq(S) /\ n \in Nat /\ D = 1 .. n
  BY DEF Enumerates
<1>2. IsFiniteSet(D) /\ Cardinality(D) = n /\ D \in SUBSET Int
  BY <1>1, PlacesFinite
<1>3. DOMAIN rank = D /\ rank \in [D -> Int]
  OBVIOUS
<1>4. ASSUME NEW i \in D PROVE f[i] \in 1 .. n
  <2>1. Before(rank, i) \in SUBSET D /\ i \in Before(rank, i)
    BY <1>2, <1>3 DEF Before
  <2>2. IsFiniteSet(Before(rank, i)) /\ Cardinality(Before(rank, i)) <= n
    BY <1>2, <2>1, FS_Subset
  <2>3. Cardinality(Before(rank, i)) \in Nat /\ Cardinality(Before(rank, i)) # 0
    BY <2>1, <2>2, FS_CardinalityType, FS_EmptySet
  <2> HIDE DEF n, D
  <2> QED
    BY <1>1, <2>2, <2>3
<1>5. \A i, j \in D : f[i] = f[j] => i = j
  <2> SUFFICES ASSUME NEW i \in D, NEW j \in D, i # j PROVE f[i] # f[j]
    OBVIOUS
  <2>1. \/ rank[i] < rank[j] \/ (rank[i] = rank[j] /\ i < j)
        \/ rank[j] < rank[i] \/ (rank[j] = rank[i] /\ j < i)
    BY <1>1
  <2> HIDE DEF D
  <2> QED
    BY <1>2, <1>3, <2>1, BeforeGrows
<1>6. f \in [D -> 1 .. Cardinality(D)]
  BY <1>2, <1>4
<1>7. Ordered(s, rank) = Computed(g)
  <2>1. f \in [1 .. n -> Nat]
    BY <1>1, <1>4
  <2>2. Computed(f) = f
    BY <1>1, <2>1, ComputedIs
  <2>3. Ordered(s, rank) = Computed(P(Computed(f)))
    BY <1>3 DEF Ordered
  <2> HIDE DEF f, P
  <2> QED
    BY <2>2, <2>3, Zenon
<1>8. \A k \in D : g[k] = s[at(k)]
  OBVIOUS
<1> HIDE DEF D, f, n
<1>9. \A k \in D : \E i \in D : f[i] = k
  <2>1. \A k \in 1 .. Cardinality(D) : \E i \in D : f[i] = k
    BY <1>2, <1>5, <1>6, AllPlacesTaken
  <2> QED
    BY <1>1, <1>2, <2>1
<1>10. \A k \in D : at(k) \in D /\ f[at(k)] = k
  BY <1>9
<1>11. DOMAIN g = D /\ g = [k \in D |-> g[k]]
  OBVIOUS
<1> HIDE DEF g, at
<1>12. \A i \in D : f[i] \in D /\ at(f[i]) = i
  BY <1>1, <1>4, <1>5, <1>10
<1>13. \A k \in D : g[k] \in S
  BY <1>1, <1>8, <1>10 DEF D
<1>14. Computed(g) = g /\ g \in Seq(S)
  <2>1. g \in [1 .. n -> S]
    BY <1>1, <1>11, <1>13
  <2> QED
    BY <1>1, <2>1, ComputedIs
<1>15. \A x \in S : \E k \in D : g[k] = x
  <2> SUFFICES ASSUME NEW x \in S PROVE \E k \in D : g[k] = x
    OBVIOUS
  <2>1. PICK i \in D : s[i] = x
    BY DEF Enumerates, D
  <2> QED
    BY <1>8, <1>12, <2>1
<1>16. \A j, k \in D : g[j] = g[k] => j = k
  <2> SUFFICES ASSUME NEW j \in D, NEW k \in D, g[j] = g[k] PROVE j = k
    OBVIOUS
  <2>1. at(j) = at(k)
    BY <1>8, <1>10 DEF Enumerates, D
  <2> QED
    BY <1>10, <2>1
<1> QED
  <2>1. Enumerates(g, S)
    BY <1>11, <1>14, <1>15, <1>16 DEF Enumerates
  <2> QED
    BY <1>7, <1>14, <2>1

(* Where sort puts what stands at i before what stands at j.               *)
Precedes(rank, i, j) == rank[i] < rank[j] \/ (rank[i] = rank[j] /\ i < j)

(* p lists the places of a sequence as a sort by rank does.                *)
Lists(p, D, rank) ==
  /\ p \in [D -> D]
  /\ \A i \in D : \E k \in D : p[k] = i
  /\ \A j, k \in D : j < k => Precedes(rank, p[j], p[k])

(* The k-th number of a set has k numbers up to it, so they rise.          *)
LEMMA AscendingRises ==
  ASSUME NEW S \in SUBSET Int, IsFiniteSet(S)
  PROVE  LET a == Ascending(S)
         IN  \A j, k \in DOMAIN a : j < k => a[j] < a[k]
<1> DEFINE n == Cardinality(S)
           h == [k \in 1 .. n |-> CHOOSE v \in S : Cardinality(Upto(S, v)) = k]
           a == Ascending(S)
<1>1. n \in Nat /\ Enumerates(a, S) /\ Len(a) = n
  BY FS_CardinalityType, AscendingIs
<1>2. DOMAIN a = 1 .. n /\ \A k \in 1 .. n : a[k] \in S
  BY <1>1 DEF Enumerates
<1>3. \A v \in S : Cardinality(Upto(S, v)) \in 1 .. n
  <2> SUFFICES ASSUME NEW v \in S PROVE Cardinality(Upto(S, v)) \in 1 .. n
    OBVIOUS
  <2>1. Upto(S, v) \in SUBSET S /\ v \in Upto(S, v)
    BY DEF Upto
  <2>2. IsFiniteSet(Upto(S, v)) /\ Cardinality(Upto(S, v)) <= n
    BY <2>1, FS_Subset
  <2>3. Cardinality(Upto(S, v)) \in Nat /\ Cardinality(Upto(S, v)) # 0
    BY <2>1, <2>2, FS_CardinalityType, FS_EmptySet
  <2> HIDE DEF n
  <2> QED
    BY <1>1, <2>2, <2>3
<1> DEFINE f == [v \in S |-> Cardinality(Upto(S, v))]
<1>4. \A k \in 1 .. n : \E v \in S : f[v] = k
  <2>1. f \in [S -> 1 .. Cardinality(S)]
    BY <1>3
  <2>2. \A v, w \in S : f[v] = f[w] => v = w
    <3> SUFFICES ASSUME NEW v \in S, NEW w \in S, v # w PROVE f[v] # f[w]
      OBVIOUS
    <3>1. v < w \/ w < v
      OBVIOUS
    <3> QED
      BY <3>1, UptoGrows
  <2> HIDE DEF f
  <2> QED
    BY <2>1, <2>2, AllPlacesTaken
<1>5. \A k \in 1 .. n : h[k] \in S /\ Cardinality(Upto(S, h[k])) = k
  BY <1>4
<1>6. a = h
  <2>1. DOMAIN h = 1 .. n /\ h = [k \in 1 .. n |-> h[k]]
    OBVIOUS
  <2>2. a = Computed(h)
    BY DEF Ascending
  <2> HIDE DEF h, a
  <2>3. h \in [1 .. n -> S]
    BY <1>5, <2>1
  <2> HIDE DEF n
  <2> QED
    BY <1>1, <2>2, <2>3, ComputedIs
<1> HIDE DEF a, h, f, n
<1> SUFFICES ASSUME NEW j \in 1 .. n, NEW k \in 1 .. n, j < k, ~(a[j] < a[k]) PROVE FALSE
  BY <1>2 DEF a
<1>7. a[j] \in Int /\ a[k] \in Int /\ a[k] <= a[j]
  <2>1. a[j] \in S /\ a[k] \in S
    BY <1>2
  <2>2. \A v, w \in Int : ~(v < w) => w <= v
    OBVIOUS
  <2> QED
    BY <2>1, <2>2
<1>8. Upto(S, a[k]) \in SUBSET Upto(S, a[j])
  <2> SUFFICES ASSUME NEW v \in S, v <= a[k] PROVE v <= a[j]
    BY DEF Upto
  <2> QED
    BY <1>7
<1>9. IsFiniteSet(Upto(S, a[j]))
  BY FS_Subset DEF Upto
<1>10. k <= j
  BY <1>5, <1>6, <1>8, <1>9, FS_Subset
<1> QED
  BY <1>1, <1>10

(* Sorting is one listing of the places.                                   *)
LEMMA OrderedLists ==
  ASSUME NEW S, NEW s \in Seq(S), NEW rank \in [DOMAIN s -> Int]
  PROVE  \E p : Lists(p, DOMAIN s, rank) /\ Ordered(s, rank) = [k \in DOMAIN s |-> s[p[k]]]
<1> DEFINE n == Len(s)
           D == DOMAIN s
           f == [i \in D |-> Cardinality(Before(rank, i))]
           P(p) == [k \in D |-> s[CHOOSE i \in D : p[i] = k]]
           g == P(f)
           at == [k \in D |-> CHOOSE i \in D : f[i] = k]
<1>1. n \in Nat /\ D = 1 .. n
  OBVIOUS
<1>2. IsFiniteSet(D) /\ Cardinality(D) = n /\ D \in SUBSET Int
  BY <1>1, PlacesFinite
<1>3. DOMAIN rank = D /\ rank \in [D -> Int]
  OBVIOUS
<1>4. ASSUME NEW i \in D PROVE f[i] \in 1 .. n
  <2>1. Before(rank, i) \in SUBSET D /\ i \in Before(rank, i)
    BY <1>2, <1>3 DEF Before
  <2>2. IsFiniteSet(Before(rank, i)) /\ Cardinality(Before(rank, i)) <= n
    BY <1>2, <2>1, FS_Subset
  <2>3. Cardinality(Before(rank, i)) \in Nat /\ Cardinality(Before(rank, i)) # 0
    BY <2>1, <2>2, FS_CardinalityType, FS_EmptySet
  <2> HIDE DEF n, D
  <2> QED
    BY <1>1, <2>2, <2>3
<1>5. \A i, j \in D : i # j => Precedes(rank, i, j) \/ Precedes(rank, j, i)
  <2> SUFFICES ASSUME NEW i \in D, NEW j \in D, i # j
               PROVE  Precedes(rank, i, j) \/ Precedes(rank, j, i)
    OBVIOUS
  <2>1. i \in Int /\ j \in Int /\ rank[i] \in Int /\ rank[j] \in Int
    BY <1>1, <1>3
  <2> QED
    BY <2>1 DEF Precedes
<1>6. \A i, j \in D : f[i] = f[j] => i = j
  <2> SUFFICES ASSUME NEW i \in D, NEW j \in D, i # j PROVE f[i] # f[j]
    OBVIOUS
  <2>1. Precedes(rank, i, j) \/ Precedes(rank, j, i)
    BY <1>5
  <2> HIDE DEF D
  <2> QED
    BY <1>2, <1>3, <2>1, BeforeGrows DEF Precedes
<1>7. Ordered(s, rank) = Computed(g)
  <2>1. f \in [1 .. n -> Nat]
    BY <1>1, <1>4
  <2>2. Computed(f) = f
    BY <1>1, <2>1, ComputedIs
  <2>3. Ordered(s, rank) = Computed(P(Computed(f)))
    BY <1>3 DEF Ordered
  <2> HIDE DEF f, P
  <2> QED
    BY <2>2, <2>3, Zenon
<1>8. \A k \in D : \E i \in D : f[i] = k
  <2>1. f \in [D -> 1 .. Cardinality(D)]
    BY <1>2, <1>4
  <2> HIDE DEF f, D, n
  <2>2. \A k \in 1 .. Cardinality(D) : \E i \in D : f[i] = k
    BY <1>2, <1>6, <2>1, AllPlacesTaken
  <2> QED
    BY <1>1, <1>2, <2>2
<1>9. at \in [D -> D] /\ \A k \in D : f[at[k]] = k
  BY <1>8
<1>10. \A i \in D : f[i] \in D /\ at[f[i]] = i
  <2> HIDE DEF f, at, D
  <2> QED
    BY <1>1, <1>4, <1>6, <1>9
<1>11. g = [k \in D |-> s[at[k]]]
  OBVIOUS
<1>12. ASSUME NEW j \in D, NEW k \in D, j < k PROVE Precedes(rank, at[j], at[k])
  <2>1. at[j] \in D /\ at[k] \in D /\ at[j] # at[k]
    <3> HIDE DEF at, f, D
    <3> QED
      BY <1>1, <1>9, <1>12
  <2>2. SUFFICES ASSUME Precedes(rank, at[k], at[j]) PROVE FALSE
    BY <1>5, <2>1
  <2>3. Before(rank, at[k]) \in SUBSET Before(rank, at[j])
    <3> SUFFICES ASSUME NEW i \in Before(rank, at[k]) PROVE i \in Before(rank, at[j])
      OBVIOUS
    <3> DEFINE x == at[j]
               y == at[k]
    <3>1. x \in D /\ y \in D
      BY <2>1
    <3>2. i \in Before(rank, y) /\ Precedes(rank, y, x)
      BY <2>2
    <3> HIDE DEF x, y, D
    <3>3. i \in D /\ (rank[i] < rank[y] \/ (rank[i] = rank[y] /\ i <= y))
      BY <1>3, <3>2 DEF Before
    <3>4. i \in Int /\ x \in Int /\ y \in Int /\ rank[i] \in Int /\ rank[x] \in Int /\ rank[y] \in Int
      BY <1>2, <1>3, <3>1, <3>3
    <3>5. rank[i] < rank[x] \/ (rank[i] = rank[x] /\ i <= x)
      BY <3>2, <3>3, <3>4 DEF Precedes
    <3>6. i \in Before(rank, x)
      BY <1>3, <3>3, <3>5 DEF Before
    <3> QED
      BY <3>6 DEF x
  <2>4. IsFiniteSet(Before(rank, at[j]))
    <3>1. Before(rank, at[j]) \in SUBSET D
      BY <1>3 DEF Before
    <3> QED
      BY <1>2, <3>1, FS_Subset
  <2>5. Cardinality(Before(rank, at[k])) <= Cardinality(Before(rank, at[j]))
    BY <2>3, <2>4, FS_Subset
  <2>6. f[at[j]] = j /\ f[at[k]] = k
    BY <1>9
  <2>7. k <= j
    BY <2>1, <2>5, <2>6
  <2> QED
    BY <1>1, <1>12, <2>7
<1>13. Computed(g) = g
  <2>1. g \in [1 .. n -> S]
    <3> HIDE DEF at, g
    <3> QED
      BY <1>1, <1>9, <1>11
  <2> HIDE DEF g, n
  <2> QED
    BY <1>1, <2>1, ComputedIs
<1>14. \A i \in D : \E k \in D : at[k] = i
  BY <1>10
<1> HIDE DEF at, f, g, P
<1>15. Lists(at, D, rank)
  BY <1>9, <1>12, <1>14 DEF Lists
<1> QED
  BY <1>7, <1>11, <1>13, <1>15

(* A stable sort is determined by the ranks.                               *)
LEMMA ListsUnique ==
  ASSUME NEW n \in Nat, NEW rank \in [1 .. n -> Int],
         NEW p, Lists(p, 1 .. n, rank), NEW q, Lists(q, 1 .. n, rank)
  PROVE  p = q
<1> DEFINE T == {k \in Nat : k \in 1 .. n /\ p[k] # q[k]}
<1>1. p \in [1 .. n -> 1 .. n] /\ q \in [1 .. n -> 1 .. n]
  BY DEF Lists
<1>2. ASSUME NEW i \in 1 .. n, NEW j \in 1 .. n, Precedes(rank, i, j)
      PROVE  i # j /\ ~Precedes(rank, j, i)
  <2>1. i \in Int /\ j \in Int /\ rank[i] \in Int /\ rank[j] \in Int
    OBVIOUS
  <2> QED
    BY <1>2, <2>1 DEF Precedes
<1>3. ASSUME NEW k \in 1 .. n, NEW u \in [1 .. n -> 1 .. n], NEW v \in [1 .. n -> 1 .. n],
             Lists(u, 1 .. n, rank), Lists(v, 1 .. n, rank),
             u[k] # v[k], \A l \in 1 .. k - 1 : u[l] = v[l]
      PROVE  Precedes(rank, v[k], u[k])
  <2>1. PICK l \in 1 .. n : v[l] = u[k]
    BY <1>3 DEF Lists
  <2>2. l # k
    BY <1>3, <2>1
  <2>3. ~(l < k)
    <3> SUFFICES ASSUME l < k PROVE FALSE
      OBVIOUS
    <3>1. l \in 1 .. k - 1
      OBVIOUS
    <3>2. u[l] = u[k]
      BY <1>3, <2>1, <3>1
    <3>3. Precedes(rank, u[l], u[k])
      BY <1>3 DEF Lists
    <3> QED
      BY <1>2, <3>2, <3>3
  <2>4. k < l
    BY <2>2, <2>3
  <2> QED
    BY <1>3, <2>1, <2>4 DEF Lists
<1>4. T = {}
  <2> SUFFICES ASSUME T # {} PROVE FALSE
    OBVIOUS
  <2>1. PICK k \in T : \A l \in T : k <= l
    BY LeastNat
  <2>2. k \in 1 .. n /\ p[k] # q[k] /\ k \in Nat
    OBVIOUS
  <2>3. \A l \in 1 .. k - 1 : p[l] = q[l]
    <3> SUFFICES ASSUME NEW l \in 1 .. k - 1, p[l] # q[l] PROVE FALSE
      OBVIOUS
    <3>1. l \in T /\ ~(k <= l)
      BY <2>2
    <3> QED
      BY <2>1, <3>1
  <2>4. Precedes(rank, q[k], p[k]) /\ Precedes(rank, p[k], q[k])
    BY <1>1, <1>3, <2>2, <2>3
  <2> QED
    BY <1>1, <1>2, <2>2, <2>4
<1>5. \A k \in 1 .. n : p[k] = q[k]
  <2> SUFFICES ASSUME NEW k \in 1 .. n, p[k] # q[k] PROVE FALSE
    OBVIOUS
  <2>1. k \in T
    OBVIOUS
  <2> QED
    BY <1>4, <2>1
<1> HIDE DEF T
<1> QED
  BY <1>1, <1>5

(* What is sorted already stays as it is.                                  *)
LEMMA SortedAlready ==
  ASSUME NEW S, NEW s \in Seq(S), NEW rank \in [DOMAIN s -> Int],
         \A i, j \in DOMAIN s : i < j => rank[i] <= rank[j]
  PROVE  Ordered(s, rank) = s
<1>1. PICK n \in Nat : n = Len(s)
  OBVIOUS
<1>2. DOMAIN s = 1 .. n
  BY <1>1
<1>3. PICK p : Lists(p, DOMAIN s, rank) /\ Ordered(s, rank) = [k \in DOMAIN s |-> s[p[k]]]
  BY OrderedLists
<1> DEFINE q == [k \in 1 .. n |-> k]
<1>4. Lists(q, 1 .. n, rank)
  <2>1. ASSUME NEW j \in 1 .. n, NEW k \in 1 .. n, j < k PROVE Precedes(rank, j, k)
    <3>1. rank[j] \in Int /\ rank[k] \in Int /\ rank[j] <= rank[k]
      BY <1>2, <2>1
    <3> QED
      BY <2>1, <3>1 DEF Precedes
  <2> QED
    BY <2>1 DEF Lists
<1>5. rank \in [1 .. n -> Int] /\ Lists(p, 1 .. n, rank)
  BY <1>2, <1>3
<1> HIDE DEF q
<1>6. p = q
  BY <1>4, <1>5, ListsUnique
<1>7. \A k \in 1 .. n : p[k] = k
  BY <1>6 DEF q
<1> QED
  BY <1>1, <1>2, <1>3, <1>7

(* The least and the greatest of finitely many numbers.                    *)
LEMMA ExtremesAre ==
  ASSUME NEW S \in SUBSET Int, IsFiniteSet(S), S # {}
  PROVE  /\ Min(S) \in S /\ \A x \in S : Min(S) <= x
         /\ Max(S) \in S /\ \A x \in S : x <= Max(S)
<1>1. PICK a : a = Ascending(S)
  OBVIOUS
<1>2. Enumerates(a, S) /\ Len(a) \in Nat /\ DOMAIN a = 1 .. Len(a)
  BY <1>1, AscendingIs DEF Enumerates
<1>3. PICK n \in Nat : n = Len(a)
  BY <1>2, Zenon
<1>4. \A j, k \in 1 .. n : j < k => a[j] < a[k]
  BY <1>1, <1>2, <1>3, AscendingRises
<1>5. \A k \in 1 .. n : a[k] \in S
  BY <1>2, <1>3 DEF Enumerates
<1>6. \A x \in S : \E k \in 1 .. n : a[k] = x
  BY <1>2, <1>3 DEF Enumerates
<1>7. 1 \in 1 .. n /\ n \in 1 .. n
  <2>1. PICK x \in S : TRUE
    OBVIOUS
  <2>2. PICK k \in 1 .. n : a[k] = x
    BY <1>6
  <2> QED
    BY <2>2
<1>8. \A x \in S : a[1] <= x /\ x <= a[n]
  <2> SUFFICES ASSUME NEW x \in S PROVE a[1] <= x /\ x <= a[n]
    OBVIOUS
  <2>1. PICK k \in 1 .. n : a[k] = x
    BY <1>6
  <2>2. a[1] \in Int /\ a[k] \in Int /\ a[n] \in Int
    BY <1>5, <1>7
  <2>3. k = 1 \/ a[1] < a[k]
    BY <1>4, <1>7
  <2>4. k = n \/ a[k] < a[n]
    BY <1>4, <1>7
  <2> QED
    BY <2>1, <2>2, <2>3, <2>4
<1> QED
  BY <1>5, <1>7, <1>8 DEF Min, Max

(***************************************************************************)
(* Joining sequences                                                       *)
(***************************************************************************)
(* There is a function that joins them.                                    *)
LEMMA JoinsExists ==
  ASSUME NEW ss, Len(ss) \in Nat
  PROVE  \E g : Joins(ss, g)
<1> DEFINE Part(n, g) == g = [i \in 1 .. n |-> Joined(ss, g, i)]
           T == {n \in Nat : ~ \E g : Part(n, g)}
<1>1. T = {}
  <2>1. SUFFICES ASSUME T # {} PROVE FALSE
    OBVIOUS
  <2>2. PICK n \in T : \A m \in T : n <= m
    BY <2>1, LeastNat
  <2>3. n # 0
    <3> DEFINE g == [i \in 1 .. 0 |-> 0]
    <3>1. Part(0, g)
      OBVIOUS
    <3> QED
      BY <3>1
  <2> HIDE DEF Part
  <2>4. n - 1 \in Nat /\ n - 1 \notin T
    <3>1. n \in Nat /\ ~(n <= n - 1)
      OBVIOUS
    <3> QED
      BY <3>1, <2>2, <2>3
  <2>5. PICK g : Part(n - 1, g)
    BY <2>4
  <2> USE DEF Part
  <2> DEFINE h == [i \in 1 .. n |-> IF i = n THEN Joined(ss, g, n) ELSE g[i]]
  <2>6. ASSUME NEW i \in 1 .. n PROVE h[i] = Joined(ss, h, i)
    <3>1. n \in Nat
      BY <2>2
    <3>2. i = 1 \/ (i - 1 \in 1 .. n - 1 /\ i - 1 \in 1 .. n /\ i - 1 # n)
      BY <3>1
    <3>3. Joined(ss, h, i) = Joined(ss, g, i)
      BY <3>2 DEF Joined
    <3>4. CASE i = n
      BY <3>3, <3>4
    <3>5. CASE i # n
      <4>1. i \in 1 .. n - 1
        BY <3>1, <3>5
      <4>2. g[i] = Joined(ss, g, i)
        BY <4>1, <2>5
      <4> QED
        BY <4>2, <3>3, <3>5
    <3> QED
      BY <3>4, <3>5
  <2>7. Part(n, h)
    BY <2>6
  <2> QED
    BY <2>7, <2>2
<1> QED
  BY <1>1 DEF Joins

(* Before the i-th of some joined sequences stand off[i] elements.         *)
Offsets(off, ss) ==
  /\ off \in [1 .. Len(ss) + 1 -> Nat] /\ off[1] = 0
  /\ \A i \in 1 .. Len(ss) : off[i + 1] = off[i] + Len(ss[i])

(* They are the sums of the lengths.                                       *)
LEMMA OffsetsExist ==
  ASSUME NEW X, NEW ss \in Seq(Seq(X))
  PROVE  \E off : Offsets(off, ss)
<1> DEFINE n == Len(ss)
           len == [i \in 1 .. n |-> Len(ss[i])]
           off == [i \in 1 .. n + 1 |-> SumFunctionOnSet(len, 1 .. i - 1)]
<1>1. n \in Nat /\ \A i \in 1 .. n : len[i] \in Nat
  OBVIOUS
<1> HIDE DEF n, len
<1>2. ASSUME NEW i \in 1 .. n + 1
      PROVE  IsFiniteSet(1 .. i - 1) /\ SumFunctionOnSet(len, 1 .. i - 1) \in Nat
  <2>1. i - 1 \in Nat
    BY <1>1
  <2>2. IsFiniteSet(1 .. i - 1)
    BY <2>1, FS_Interval
  <2>3. \A y \in 1 .. i - 1 : len[y] \in Int /\ len[y] >= 0
    BY <1>1
  <2>4. SumFunctionOnSet(len, 1 .. i - 1) \in Int /\ SumFunctionOnSet(len, 1 .. i - 1) >= 0
    BY <2>2, <2>3, SumType
  <2> QED
    BY <2>2, <2>4
<1>3. off[1] = 0
  <2>1. 1 \in 1 .. n + 1 /\ 1 .. 1 - 1 = {}
    BY <1>1
  <2> QED
    BY <2>1, SumOfNone
<1>4. ASSUME NEW i \in 1 .. n PROVE off[i + 1] = off[i] + len[i]
  <2>1. i \in 1 .. n + 1 /\ i + 1 \in 1 .. n + 1
    BY <1>1
  <2>2. 1 .. (i + 1) - 1 = (1 .. i - 1) \cup {i} /\ i \notin 1 .. i - 1
    BY <1>1
  <2>3. len[i] \in Int /\ \A y \in 1 .. i - 1 : len[y] \in Int
    BY <1>1
  <2>4. SumFunctionOnSet(len, (1 .. i - 1) \cup {i}) = len[i] + SumFunctionOnSet(len, 1 .. i - 1)
    BY <1>2, <2>1, <2>2, <2>3, SumWith
  <2>5. off[i + 1] = SumFunctionOnSet(len, (1 .. i - 1) \cup {i}) /\ off[i] = SumFunctionOnSet(len, 1 .. i - 1)
    BY <2>1, <2>2
  <2>6. off[i] \in Nat
    BY <1>2, <2>1
  <2> HIDE DEF off
  <2> QED
    BY <2>3, <2>4, <2>5, <2>6
<1>5. off \in [1 .. n + 1 -> Nat]
  BY <1>2
<1>6. \A i \in 1 .. n : len[i] = Len(ss[i])
  BY DEF len
<1> HIDE DEF off
<1>7. Offsets(off, ss)
  BY <1>3, <1>4, <1>5, <1>6 DEF Offsets, n
<1> QED
  BY <1>7

(* The later a sequence comes, the more stands before it.                  *)
LEMMA OffsetsRise ==
  ASSUME NEW X, NEW ss \in Seq(Seq(X)), NEW off, Offsets(off, ss)
  PROVE  \A i, k \in 1 .. Len(ss) + 1 : i <= k => off[i] <= off[k]
<1>1. PICK n \in Nat : n = Len(ss)
  OBVIOUS
<1>2. \A i \in 1 .. n : /\ Len(ss[i]) \in Nat /\ off[i] \in Nat /\ off[i + 1] \in Nat
                        /\ off[i + 1] = off[i] + Len(ss[i])
  <2> SUFFICES ASSUME NEW i \in 1 .. n
               PROVE  /\ Len(ss[i]) \in Nat /\ off[i] \in Nat /\ off[i + 1] \in Nat
                      /\ off[i + 1] = off[i] + Len(ss[i])
    OBVIOUS
  <2>1. Len(ss[i]) \in Nat
    BY <1>1
  <2>2. i \in 1 .. n + 1 /\ i + 1 \in 1 .. n + 1
    OBVIOUS
  <2> QED
    BY <1>1, <2>1, <2>2 DEF Offsets
<1>3. \A i \in 1 .. n + 1 : off[i] \in Nat
  BY <1>1 DEF Offsets
<1> SUFFICES ASSUME NEW i \in 1 .. n + 1, NEW k \in 1 .. n + 1, i <= k PROVE off[i] <= off[k]
  BY <1>1
<1> DEFINE U == {q \in Nat : q \in i .. k /\ ~(off[i] <= off[q])}
<1>4. U = {}
  <2> SUFFICES ASSUME U # {} PROVE FALSE
    OBVIOUS
  <2>1. PICK q \in U : \A r \in U : q <= r
    BY LeastNat
  <2>2. q \in i .. k /\ ~(off[i] <= off[q]) /\ off[i] \in Nat
    BY <1>3
  <2>3. q # i
    BY <2>2
  <2>4. PICK r \in Nat : r = q - 1
    BY <2>2
  <2>5. r \in i .. k /\ r \in 1 .. n /\ ~(q <= r) /\ r + 1 = q
    BY <2>2, <2>3, <2>4
  <2>6. r \notin U
    BY <2>1, <2>5
  <2>7. off[i] <= off[r]
    BY <2>5, <2>6
  <2>8. off[q] = off[r] + Len(ss[r]) /\ off[r] \in Nat /\ Len(ss[r]) \in Nat
    BY <1>2, <2>5
  <2> HIDE DEF U
  <2> QED
    BY <2>2, <2>7, <2>8
<1> QED
  BY <1>4

(* Where the elements of two joined sequences stand.                       *)
LEMMA ConcatPlaces ==
  ASSUME NEW X, NEW a \in Seq(X), NEW b \in Seq(X)
  PROVE  /\ a \o b \in Seq(X) /\ Len(a \o b) = Len(a) + Len(b)
         /\ \A j \in 1 .. Len(a) : (a \o b)[j] = a[j]
         /\ \A j \in 1 .. Len(b) : (a \o b)[Len(a) + j] = b[j]
OBVIOUS

(* Where the elements of joined sequences stand.                           *)
LEMMA FlattenPlaces ==
  ASSUME NEW X, NEW ss \in Seq(Seq(X)), NEW off, Offsets(off, ss)
  PROVE  /\ FlattenSeq(ss) \in Seq(X) /\ Len(FlattenSeq(ss)) = off[Len(ss) + 1]
         /\ \A i \in 1 .. Len(ss) : \A j \in 1 .. Len(ss[i]) :
              FlattenSeq(ss)[off[i] + j] = ss[i][j]
<1> DEFINE Good(u, m) == /\ u \in Seq(X) /\ Len(u) = off[m + 1]
                         /\ \A i \in 1 .. m : \A j \in 1 .. Len(ss[i]) : u[off[i] + j] = ss[i][j]
<1>0. PICK n \in Nat : n = Len(ss)
  OBVIOUS
<1>1. \A i \in 1 .. n : ss[i] \in Seq(X) /\ Len(ss[i]) \in Nat
  BY <1>0
<1>2. PICK g : Joins(ss, g)
  BY JoinsExists
<1>3. \A i \in 1 .. n + 1 : off[i] \in Nat
  BY <1>0 DEF Offsets
<1>4. ASSUME NEW i \in 1 .. n
      PROVE  off[i + 1] = off[i] + Len(ss[i]) /\ off[i] \in Nat /\ off[i + 1] \in Nat
  <2>1. i \in 1 .. n + 1 /\ i + 1 \in 1 .. n + 1
    OBVIOUS
  <2> QED
    BY <1>0, <1>3, <2>1 DEF Offsets
<1>5. \A m \in 1 .. n : Good(g[m], m)
  <2> DEFINE T == {m \in Nat : m \in 1 .. n /\ ~Good(g[m], m)}
  <2> SUFFICES ASSUME T # {} PROVE FALSE
    <3> HIDE DEF Good
    <3> QED
      OBVIOUS
  <2>1. PICK m \in T : \A k \in T : m <= k
    BY LeastNat
  <2>2. m \in 1 .. n /\ ~Good(g[m], m) /\ m \in Nat
    OBVIOUS
  <2>3. g[m] = Joined(ss, g, m)
    BY <1>0, <1>2, <2>2 DEF Joins
  <2>4. CASE m = 1
    <3>1. g[m] = ss[1] /\ off[1] = 0
      BY <2>3, <2>4 DEF Joined, Offsets
    <3>2. 1 \in 1 .. n
      BY <2>2, <2>4
    <3>3. ss[1] \in Seq(X) /\ Len(ss[1]) \in Nat /\ off[1 + 1] = off[1] + Len(ss[1])
      BY <1>1, <1>4, <3>2
    <3>4. off[m + 1] = Len(ss[1])
      BY <2>4, <3>1, <3>3
    <3>5. ASSUME NEW i \in 1 .. m, NEW j \in 1 .. Len(ss[i]) PROVE ss[1][off[i] + j] = ss[i][j]
      <4>1. i = 1
        BY <2>4
      <4>2. off[i] + j = j
        BY <3>1, <3>3, <4>1
      <4> QED
        BY <4>1, <4>2
    <3> QED
      BY <2>2, <3>1, <3>3, <3>4, <3>5
  <2>5. CASE m # 1
    <3>1. PICK k \in Nat : k = m - 1
      <4> HIDE DEF T, Good
      <4> QED
        BY <2>2
    <3>2. k \in 1 .. n /\ k + 1 = m /\ ~(m <= k)
      <4> HIDE DEF T, Good
      <4> QED
        BY <2>2, <2>5, <3>1
    <3>3. k \notin T
      BY <2>1, <3>2
    <3>4. Good(g[k], k)
      BY <3>2, <3>3
    <3>5. g[m] = g[k] \o ss[m]
      BY <2>3, <2>5, <3>1 DEF Joined
    <3>6. /\ g[k] \in Seq(X) /\ Len(g[k]) = off[m] /\ off[m] \in Nat /\ ss[m] \in Seq(X)
          /\ Len(ss[m]) \in Nat /\ off[m + 1] = off[m] + Len(ss[m])
      BY <1>1, <1>4, <2>2, <3>2, <3>4
    <3>7. /\ g[m] \in Seq(X) /\ Len(g[m]) = off[m + 1]
          /\ \A j \in 1 .. off[m] : g[m][j] = g[k][j]
          /\ \A j \in 1 .. Len(ss[m]) : g[m][off[m] + j] = ss[m][j]
      <4>7. PICK a : a = g[k]
        OBVIOUS
      <4>8. PICK b : b = ss[m]
        OBVIOUS
      <4>1. a \in Seq(X) /\ b \in Seq(X) /\ g[m] = a \o b /\ Len(a) = off[m]
        BY <3>5, <3>6, <4>7, <4>8
      <4>6. a \in Seq(X) /\ b \in Seq(X)
        BY <4>1
      <4>2. /\ a \o b \in Seq(X) /\ Len(a \o b) = Len(a) + Len(b)
            /\ \A j \in 1 .. Len(a) : (a \o b)[j] = a[j]
            /\ \A j \in 1 .. Len(b) : (a \o b)[Len(a) + j] = b[j]
        BY <4>6, ConcatPlaces
      <4>3. PICK c : c = a \o b
        OBVIOUS
      <4>4. /\ c \in Seq(X) /\ Len(c) = off[m] + Len(b)
            /\ \A j \in 1 .. off[m] : c[j] = a[j]
            /\ \A j \in 1 .. Len(b) : c[off[m] + j] = b[j]
        BY <4>1, <4>2, <4>3
      <4>5. c = g[m]
        BY <4>1, <4>3
      <4> QED
        BY <3>6, <4>4, <4>5, <4>7, <4>8
    <3>8. ASSUME NEW i \in 1 .. m, NEW j \in 1 .. Len(ss[i]) PROVE g[m][off[i] + j] = ss[i][j]
      <4>1. CASE i = m
        BY <3>7, <4>1
      <4>2. CASE i # m
        <5>1. i \in 1 .. k /\ i \in 1 .. n /\ i + 1 \in 1 .. n + 1 /\ m \in 1 .. n + 1 /\ i + 1 <= m
          BY <2>2, <3>2, <4>2
        <5>2. g[k][off[i] + j] = ss[i][j]
          BY <3>4, <5>1
        <5>3. off[i + 1] <= off[m]
          BY <1>0, <5>1, OffsetsRise
        <5>4. off[i + 1] = off[i] + Len(ss[i]) /\ Len(ss[i]) \in Nat /\ off[i] \in Nat
          BY <1>1, <1>4, <5>1
        <5>5. off[i] + j \in 1 .. off[m]
          <6> PICK l : l = Len(ss[i])
            OBVIOUS
          <6>1. l \in Nat /\ j \in 1 .. l /\ off[i + 1] = off[i] + l /\ off[i] \in Nat /\ off[m] \in Nat
            BY <3>6, <5>4
          <6>2. off[i] + l <= off[m]
            BY <5>3, <6>1
          <6>3. \A x, y, z \in Nat : z \in 1 .. l /\ x + l <= y => x + z \in 1 .. y
            BY <6>1
          <6>4. j \in Nat
            BY <6>1
          <6> QED
            BY <6>1, <6>2, <6>3, <6>4
        <5> QED
          BY <3>7, <5>2, <5>5
      <4> QED
        BY <4>1, <4>2
    <3> QED
      BY <2>2, <3>7, <3>8
  <2> QED
    BY <2>4, <2>5
<1>6. CASE n = 0
  <2>0. ss = <<>>
    BY <1>0, <1>6, EmptySeq
  <2>1. FlattenSeq(ss) = <<>>
    BY <2>0 DEF FlattenSeq
  <2>2. off[1] = 0
    BY DEF Offsets
  <2>3. <<>> \in Seq(X) /\ Len(<<>>) = 0 /\ 1 .. 0 = {}
    OBVIOUS
  <2>4. off[Len(ss) + 1] = 0 /\ 1 .. Len(ss) = {}
    BY <1>0, <1>6, <2>2, <2>3
  <2> QED
    BY <2>1, <2>3, <2>4
<1>7. CASE n # 0
  <2>1. FlattenSeq(ss) = g[n] /\ n \in 1 .. n
    BY <1>0, <1>2, <1>7, FlattenIs
  <2>2. Good(FlattenSeq(ss), n)
    BY <1>5, <2>1
  <2> QED
    BY <1>0, <2>2
<1> QED
  BY <1>6, <1>7

(* Each place of the joined sequences is one of the sequences.             *)
LEMMA PlaceOf ==
  ASSUME NEW X, NEW ss \in Seq(Seq(X)), NEW off, Offsets(off, ss)
  PROVE  \A k \in 1 .. off[Len(ss) + 1] : \E i \in 1 .. Len(ss) : \E j \in 1 .. Len(ss[i]) : k = off[i] + j
<1> SUFFICES ASSUME NEW k \in 1 .. off[Len(ss) + 1]
             PROVE  \E i \in 1 .. Len(ss) : \E j \in 1 .. Len(ss[i]) : k = off[i] + j
  OBVIOUS
<1>1. PICK n \in Nat : n = Len(ss)
  OBVIOUS
<1>2. off[1] = 0 /\ \A i \in 1 .. n + 1 : off[i] \in Nat
  BY <1>1 DEF Offsets
<1> DEFINE T == {i \in Nat : i \in 1 .. n + 1 /\ off[i] < k}
<1>3. 1 \in T /\ n \in Nat /\ \A m \in T : m <= n + 1
  BY <1>1, <1>2
<1>4. PICK i \in T : \A m \in T : m <= i
  <2>1. n + 1 \in Nat /\ T \in SUBSET Nat /\ T # {}
    BY <1>3
  <2> HIDE DEF T
  <2> QED
    BY <1>3, <2>1, GreatestNat
<1>5. k \in Nat /\ k <= off[n + 1] /\ off[n + 1] \in Nat
  BY <1>1, <1>2
<1>6. i \in 1 .. n
  <2>1. i \in 1 .. n + 1 /\ off[i] < k
    OBVIOUS
  <2>2. i # n + 1
    BY <1>5, <2>1
  <2> QED
    BY <2>1, <2>2
<1>7. i + 1 \in 1 .. n + 1 /\ i + 1 \in Nat /\ ~(i + 1 <= i)
  BY <1>6
<1>8. ~(off[i + 1] < k)
  BY <1>4, <1>7
<1>9. off[i + 1] = off[i] + Len(ss[i]) /\ Len(ss[i]) \in Nat
  BY <1>1, <1>6 DEF Offsets
<1>10. off[i] \in Nat /\ off[i + 1] \in Nat /\ off[i] < k
  BY <1>2, <1>6, <1>7
<1>11. k - off[i] \in 1 .. Len(ss[i]) /\ k = off[i] + (k - off[i])
  BY <1>5, <1>8, <1>9, <1>10, SMTT(30)
<1> QED
  BY <1>1, <1>6, <1>11

(* Consecutive pieces of a sequence make it again.                         *)
LEMMA PiecesJoin ==
  ASSUME NEW X, NEW s \in Seq(X), NEW ss \in Seq(Seq(X)), NEW off, Offsets(off, ss),
         off[Len(ss) + 1] = Len(s),
         \A i \in 1 .. Len(ss) : \A j \in 1 .. Len(ss[i]) : ss[i][j] = s[off[i] + j]
  PROVE  FlattenSeq(ss) = s
<1>1. PICK f : f = FlattenSeq(ss)
  OBVIOUS
<1>2. f \in Seq(X) /\ Len(f) = Len(s)
  BY <1>1, FlattenPlaces
<1>3. ASSUME NEW k \in 1 .. Len(s) PROVE f[k] = s[k]
  <2>0. k \in 1 .. off[Len(ss) + 1]
    OBVIOUS
  <2>1. PICK i \in 1 .. Len(ss) : \E j \in 1 .. Len(ss[i]) : k = off[i] + j
    <3>1. \A y \in 1 .. off[Len(ss) + 1] : \E i \in 1 .. Len(ss) : \E j \in 1 .. Len(ss[i]) : y = off[i] + j
      BY PlaceOf, SMTT(30)
    <3> QED
      BY <2>0, <3>1
  <2>3. PICK j \in 1 .. Len(ss[i]) : k = off[i] + j
    BY <2>1
  <2>2. FlattenSeq(ss)[off[i] + j] = ss[i][j]
    BY FlattenPlaces
  <2> QED
    BY <1>1, <2>3, <2>2
<1> QED
  BY <1>1, <1>2, <1>3

(* What f gives the i-th sequence is part[i], and sum[i] is its sum.       *)
SumsOf(sum, part, f, off, ss) ==
  /\ \A k \in DOMAIN FlattenSeq(ss) : f[k] \in Int
  /\ \A i \in 1 .. Len(ss) : \A j \in 1 .. Len(ss[i]) : part[i][j] = f[off[i] + j]
  /\ \A i \in 1 .. Len(ss) : sum[i] = SumFunctionOnSet(part[i], 1 .. Len(ss[i]))

(* The sum over joined sequences is the sum of theirs.                     *)
LEMMA FlattenSum ==
  ASSUME NEW X, NEW ss \in Seq(Seq(X)), NEW off, Offsets(off, ss),
         NEW f, NEW part, NEW sum
  PROVE  SumsOf(sum, part, f, off, ss)
           => SumFunctionOnSet(f, DOMAIN FlattenSeq(ss)) = SumFunctionOnSet(sum, 1 .. Len(ss))
<1>12. \A y \in 1 .. off[Len(ss) + 1] : \E i \in 1 .. Len(ss) : \E j \in 1 .. Len(ss[i]) : y = off[i] + j
  BY PlaceOf
<1> SUFFICES ASSUME SumsOf(sum, part, f, off, ss)
             PROVE  SumFunctionOnSet(f, DOMAIN FlattenSeq(ss)) = SumFunctionOnSet(sum, 1 .. Len(ss))
  OBVIOUS
<1>0. /\ \A k \in DOMAIN FlattenSeq(ss) : f[k] \in Int
      /\ \A i \in 1 .. Len(ss) : \A j \in 1 .. Len(ss[i]) : part[i][j] = f[off[i] + j]
      /\ \A i \in 1 .. Len(ss) : sum[i] = SumFunctionOnSet(part[i], 1 .. Len(ss[i]))
  BY DEF SumsOf
<1>1. PICK n \in Nat : n = Len(ss)
  OBVIOUS
<1> DEFINE S == 1 .. off[n + 1]
           parts == [i \in 1 .. n |-> off[i] + 1 .. off[i + 1]]
<1>2. \A i \in 1 .. n + 1 : off[i] \in Nat
  BY <1>1 DEF Offsets
<1>3. DOMAIN FlattenSeq(ss) = S
  <2>1. FlattenSeq(ss) \in Seq(X) /\ Len(FlattenSeq(ss)) = off[n + 1]
    BY <1>1, FlattenPlaces
  <2> QED
    BY <2>1
<1>4. ASSUME NEW i \in 1 .. n
      PROVE  /\ off[i] \in Nat /\ off[i + 1] \in Nat /\ Len(ss[i]) \in Nat
             /\ off[i + 1] = off[i] + Len(ss[i]) /\ off[i + 1] <= off[n + 1] /\ off[n + 1] \in Nat
  <2>1. i \in 1 .. n + 1 /\ i + 1 \in 1 .. n + 1 /\ n + 1 \in 1 .. n + 1 /\ i + 1 <= n + 1
    OBVIOUS
  <2>2. off[i + 1] <= off[n + 1]
    BY <1>1, <2>1, OffsetsRise
  <2>3. Len(ss[i]) \in Nat /\ off[i + 1] = off[i] + Len(ss[i])
    BY <1>1 DEF Offsets
  <2> QED
    BY <1>2, <2>1, <2>2, <2>3
<1>5. IsFiniteSet(S) /\ IsFiniteSet(1 .. n)
  <2>1. n + 1 \in 1 .. n + 1
    OBVIOUS
  <2>2. PICK m \in Nat : m = off[n + 1]
    BY <1>2, <2>1
  <2>3. IsFiniteSet(1 .. m) /\ IsFiniteSet(1 .. n)
    BY FS_Interval
  <2> QED
    BY <2>2, <2>3
<1>6. parts \in [1 .. n -> SUBSET S]
  <2> SUFFICES ASSUME NEW i \in 1 .. n, NEW x \in off[i] + 1 .. off[i + 1] PROVE x \in S
    OBVIOUS
  <2> QED
    BY <1>4
<1>7. ASSUME NEW x \in S PROVE \E i \in 1 .. n : x \in parts[i]
  <2>2. x \in 1 .. off[Len(ss) + 1]
    BY <1>1
  <2>0. PICK i \in 1 .. n : \E j \in 1 .. Len(ss[i]) : x = off[i] + j
    BY <1>1, <1>12, <2>2
  <2>1. PICK j \in 1 .. Len(ss[i]) : x = off[i] + j
    BY <2>0
  <2>3. x \in off[i] + 1 .. off[i + 1]
    <3> PICK l \in Nat : l = Len(ss[i])
      BY <1>4
    <3>1. \A y \in Nat : \A z \in 1 .. l : y + z \in y + 1 .. y + l
      OBVIOUS
    <3> QED
      BY <1>4, <2>1, <3>1
  <2> QED
    BY <2>3
<1>8. ASSUME NEW i \in 1 .. n, NEW k \in 1 .. n, i < k PROVE parts[i] \cap parts[k] = {}
  <2>1. i + 1 \in 1 .. n + 1 /\ k \in 1 .. n + 1 /\ i + 1 <= k
    BY <1>8
  <2>2. off[i + 1] <= off[k]
    BY <1>1, <2>1, OffsetsRise
  <2> QED
    BY <1>4, <2>2
<1>9. Splits(S, 1 .. n, parts)
  <2>1. \A i, k \in 1 .. n : i # k => i < k \/ k < i
    OBVIOUS
  <2>2. \A i, k \in 1 .. n : i # k => parts[i] \cap parts[k] = {}
    <3> HIDE DEF parts
    <3> QED
      BY <1>8, <2>1
  <2> HIDE DEF S, parts
  <2> QED
    BY <1>5, <1>6, <1>7, <2>2 DEF Splits
<1>10. ASSUME NEW i \in 1 .. n PROVE sum[i] = SumFunctionOnSet(f, parts[i])
  <2>1. PICK l \in Nat : l = Len(ss[i])
    BY <1>4
  <2> DEFINE h == [j \in 1 .. l |-> off[i] + j]
             P == off[i] + 1 .. off[i] + l
  <2>2. off[i] \in Nat /\ parts[i] = P
    BY <1>4, <2>1
  <2>3. h \in [1 .. l -> P]
    BY <2>2
  <2>4. \A x \in P : \E j \in 1 .. l : h[j] = x
    <3> SUFFICES ASSUME NEW x \in P PROVE \E j \in 1 .. l : h[j] = x
      OBVIOUS
    <3>1. x - off[i] \in 1 .. l /\ off[i] + (x - off[i]) = x
      BY <2>2
    <3> QED
      BY <3>1
  <2>5. \A j, k \in 1 .. l : h[j] = h[k] => j = k
    BY <2>2
  <2>6. IsFiniteSet(1 .. l) /\ IsFiniteSet(P)
    <3>1. PICK a \in Int : a = off[i] + 1
      BY <2>2
    <3>2. PICK z \in Int : z = off[i] + l
      BY <2>2
    <3>3. IsFiniteSet(a .. z)
      BY FS_Interval
    <3>4. l \in Int /\ 1 \in Int
      OBVIOUS
    <3>5. IsFiniteSet(1 .. l)
      BY <3>4, FS_Interval
    <3> QED
      BY <3>1, <3>2, <3>3, <3>5
  <2>7. \A x \in P : f[x] \in Int
    BY <1>0, <1>3, <1>6, <2>2
  <2>8. \A j \in 1 .. l : part[i][j] = f[h[j]]
    BY <1>0, <1>1, <2>1
  <2> HIDE DEF h, P, parts
  <2>10. PICK e : e = part[i]
    OBVIOUS
  <2>11. \A j \in 1 .. l : e[j] = f[h[j]]
    BY <2>8, <2>10
  <2>13. Renames(h, 1 .. l, P)
    BY <2>3, <2>4, <2>5, <2>6 DEF Renames
  <2>12. SumFunctionOnSet(e, 1 .. l) = SumFunctionOnSet(f, P)
    BY <2>7, <2>11, <2>13, SumRenamed
  <2>9. SumFunctionOnSet(part[i], 1 .. l) = SumFunctionOnSet(f, P)
    BY <2>10, <2>12
  <2> QED
    BY <1>0, <1>1, <2>1, <2>2, <2>9
<1> HIDE DEF parts
<1>11. \A x \in S : f[x] \in Int
  BY <1>0, <1>3
<1> HIDE DEF S
<1>13. SumFunctionOnSet(f, S) = SumFunctionOnSet(sum, 1 .. n)
  BY <1>9, <1>10, <1>11, SumByParts
<1> QED
  BY <1>1, <1>3, <1>13

(***************************************************************************)
(* Tool usage and tool error rate                                          *)
(***************************************************************************)
(* The tools of some rows, the rows of some tools in a bucket, and what    *)
(* they count.                                                             *)
ToolSet(rows) == {rows[i].tool : i \in DOMAIN rows}
RowsAt(rows, ts, T) == {i \in DOMAIN rows : rows[i].ts = ts /\ rows[i].tool \in T}
CallsOf(rows) == [i \in DOMAIN rows |-> rows[i].n]
ErrorsOf(rows) == [i \in DOMAIN rows |-> rows[i].error]

(* What a panel may assume of the rows on display.                         *)
CallRows(rows) == rows \in Seq(ToSet(rows)) /\ ToolRows(rows)

(* Only a finite number of rows, with numbers in them.                     *)
LEMMA RowsFinite ==
  ASSUME NEW rows, CallRows(rows), NEW S \in SUBSET DOMAIN rows
  PROVE  /\ IsFiniteSet(DOMAIN rows) /\ IsFiniteSet(S)
         /\ \A i \in DOMAIN rows : rows[i].n \in Nat /\ CallsOf(rows)[i] \in Int
         /\ SumFunctionOnSet([i \in S |-> rows[i].n], S) = SumFunctionOnSet(CallsOf(rows), S)
         /\ SumFunctionOnSet(CallsOf(rows), S) \in Int
<1>1. IsFiniteSet(DOMAIN rows) /\ IsFiniteSet(S)
  BY PlacesFinite DEF CallRows
<1>2. \A i \in DOMAIN rows : rows[i].n \in Nat /\ CallsOf(rows)[i] = rows[i].n
  BY DEF CallRows, ToolRows, ToSet, CallsOf
<1> DEFINE f == [i \in S |-> rows[i].n]
<1>3. \A i \in S : f[i] = CallsOf(rows)[i]
  BY <1>2
<1> HIDE DEF f
<1>4. SumFunctionOnSet(f, S) = SumFunctionOnSet(CallsOf(rows), S)
  BY <1>1, <1>3, SumExtensional
<1>5. SumFunctionOnSet(CallsOf(rows), S) \in Int
  BY <1>1, <1>2, SumType
<1> QED
  BY <1>1, <1>2, <1>4, <1>5 DEF f

(* The tools of a panel, each once.                                        *)
LEMMA ToolsIs ==
  ASSUME NEW X, NEW rows \in Seq(X)
  PROVE  Enumerates(ToolsOf(rows), ToolSet(rows))
<1> DEFINE f == [i \in DOMAIN rows |-> rows[i].tool]
<1>1. Len(rows) \in Nat /\ DOMAIN rows = 1 .. Len(rows)
  OBVIOUS
<1>2. f \in [1 .. Len(rows) -> ToolSet(rows)]
  BY <1>1 DEF ToolSet
<1>3. ToSet(f) = ToolSet(rows)
  BY DEF ToSet, ToolSet
<1>4. ToolsOf(rows) = Distinct(Computed(f))
  BY DEF ToolsOf, Apply
<1> HIDE DEF f
<1>5. Computed(f) = f /\ f \in Seq(ToolSet(rows))
  BY <1>1, <1>2, ComputedIs
<1> QED
  BY <1>3, <1>4, <1>5, DistinctIs

(* The order of the tools does not matter to what they are.                *)
LEMMA MostCalledIs ==
  ASSUME NEW rows, CallRows(rows), NEW S, NEW tools, Enumerates(tools, S)
  PROVE  Enumerates(MostCalled(rows, tools), S)
<1> DEFINE rank == [i \in DOMAIN tools |-> -totalsByTool(rows, tools[i])]
<1>1. ASSUME NEW t PROVE totalsByTool(rows, t) \in Int
  <2> DEFINE J == {i \in DOMAIN rows : rows[i].tool = t}
  <2>1. totalsByTool(rows, t) = SumFunctionOnSet([i \in J |-> rows[i].n], J)
    BY DEF totalsByTool, SumWhere, SumEach
  <2>2. J \in SUBSET DOMAIN rows
    OBVIOUS
  <2> HIDE DEF J
  <2> QED
    BY <2>1, <2>2, RowsFinite
<1>2. rank \in [DOMAIN tools -> Int]
  BY <1>1
<1>3. Len(tools) \in Nat /\ DOMAIN tools = 1 .. Len(tools)
  BY DEF Enumerates
<1>4. MostCalled(rows, tools) = Ordered(tools, Computed(rank))
  BY DEF MostCalled, SortedBy
<1> HIDE DEF rank
<1>5. Computed(rank) = rank
  BY <1>2, <1>3, ComputedIs
<1> QED
  BY <1>2, <1>4, <1>5, OrderedIs

(* The first elements of a sequence.                                       *)
LEMMA FirstIs ==
  ASSUME NEW S, NEW s \in Seq(S), NEW n \in Nat
  PROVE  First(s, n) = SubSeq(s, 1, IF n <= Len(s) THEN n ELSE Len(s))
BY MinOf DEF First

(* A promoted tool is one of the rows'.                                    *)
LEMMA PromotedIs ==
  ASSUME NEW rows, CallRows(rows)
  PROVE  promoted(rows) \subseteq ToolSet(rows)
<1> DEFINE top(ts) ==
             ToSet(First(SortedBy(ToolsOf(In(rows, ts)), LAMBDA t : -perBucket(rows, ts, t)), UsageTopN))
<1>0. promoted(rows) = UNION {top(ts) : ts \in ToSet(Buckets(rows))}
  BY Zenon DEF promoted
<1> SUFFICES ASSUME NEW ts PROVE top(ts) \subseteq ToolSet(rows)
  <2> HIDE DEF top
  <2> QED
    BY <1>0
<1> DEFINE J == {i \in DOMAIN rows : rows[i].ts = ts}
           Y == {rows[i] : i \in J}
           tools == ToolsOf(In(rows, ts))
           rank == [i \in DOMAIN tools |-> -perBucket(rows, ts, tools[i])]
           T == ToolSet(In(rows, ts))
           sorted == SortedBy(tools, LAMBDA t : -perBucket(rows, ts, t))
<1>1. In(rows, ts) \in Seq(Y)
  <2>1. In(rows, ts) = At(rows, J)
    BY DEF In, Where
  <2>2. rows \in Seq(ToSet(rows)) /\ J \in SUBSET DOMAIN rows
    BY DEF CallRows
  <2> HIDE DEF J
  <2> QED
    BY <2>1, <2>2, AtIs
<1>2. T \subseteq ToolSet(rows)
  <2> HIDE DEF J
  <2>1. \A i \in DOMAIN In(rows, ts) : In(rows, ts)[i] \in Y
    BY <1>1
  <2> QED
    BY <2>1 DEF ToolSet, J
<1>3. ASSUME NEW t PROVE perBucket(rows, ts, t) \in Int
  <2> DEFINE K == {i \in DOMAIN rows : rows[i].ts = ts /\ rows[i].tool = t}
  <2>1. perBucket(rows, ts, t) = SumFunctionOnSet([i \in K |-> rows[i].n], K)
    BY DEF perBucket, SumWhere, SumEach
  <2>2. K \in SUBSET DOMAIN rows
    OBVIOUS
  <2> HIDE DEF K
  <2> QED
    BY <2>1, <2>2, RowsFinite
<1>4. Enumerates(tools, T)
  BY <1>1, ToolsIs
<1>5. sorted = Ordered(tools, Computed(rank))
  BY DEF SortedBy
<1> HIDE DEF tools, T, sorted
<1>6. rank \in [DOMAIN tools -> Int]
  BY <1>3
<1> HIDE DEF rank
<1>7. Computed(rank) = rank
  <2>1. Len(tools) \in Nat /\ DOMAIN tools = 1 .. Len(tools)
    BY <1>4 DEF Enumerates
  <2> QED
    BY <1>6, <2>1, ComputedIs
<1>8. sorted \in Seq(T)
  BY <1>4, <1>5, <1>6, <1>7, OrderedIs DEF Enumerates
<1>9. UsageTopN \in Nat
  BY ToolPanelAssumption
<1>10. ToSet(First(sorted, UsageTopN)) \subseteq T
  <2> DEFINE m == IF UsageTopN <= Len(sorted) THEN UsageTopN ELSE Len(sorted)
  <2>1. First(sorted, UsageTopN) = SubSeq(sorted, 1, m)
    BY <1>8, <1>9, FirstIs
  <2>2. m \in 0 .. Len(sorted)
    BY <1>8, <1>9
  <2> HIDE DEF m
  <2>3. SubSeq(sorted, 1, m) \in Seq(T)
    BY <1>8, <2>2
  <2> QED
    BY <2>1, <2>3 DEF ToSet
<1> QED
  BY <1>2, <1>10, Zenon DEF sorted, tools

(* What passes a filter of the tools.                                      *)
LEMMA KeptIs ==
  ASSUME NEW S, NEW s, Enumerates(s, S), NEW P
  PROVE  Enumerates(At(s, {i \in DOMAIN s : s[i] \in P}), S \cap P)
<1> DEFINE J == {i \in DOMAIN s : s[i] \in P}
<1>1. {s[i] : i \in J} = S \cap P
  BY DEF Enumerates
<1>2. J \in SUBSET DOMAIN s
  OBVIOUS
<1> HIDE DEF J
<1>3. Enumerates(At(s, J), {s[i] : i \in J})
  BY <1>2, AtEnumerates
<1> QED
  BY <1>1, <1>3 DEF J

(* The tools with a band of their own, and the others.                     *)
LEMMA ToolLists ==
  ASSUME NEW rows, CallRows(rows)
  PROVE  /\ Enumerates(promotedList(rows), promoted(rows))
         /\ Enumerates(otherTools(rows), ToolSet(rows) \ promoted(rows))
<1> DEFINE tools == ToolsOf(rows)
           T == ToolSet(rows)
           P == promoted(rows)
           Q == T \ P
<1>1. Enumerates(tools, T)
  BY ToolsIs DEF CallRows
<1>2. P \subseteq T
  BY PromotedIs
<1>3. promotedList(rows) = MostCalled(rows, At(tools, {i \in DOMAIN tools : tools[i] \in P}))
  BY DEF promotedList, Where
<1>4. otherTools(rows) = MostCalled(rows, At(tools, {i \in DOMAIN tools : tools[i] \notin P}))
  BY DEF otherTools, Where
<1> HIDE DEF tools, T, P
<1>5. {i \in DOMAIN tools : tools[i] \notin P} = {i \in DOMAIN tools : tools[i] \in Q}
  BY <1>1 DEF Enumerates
<1>6. T \cap P = P /\ T \cap Q = Q
  BY <1>2
<1> HIDE DEF Q
<1>7. Enumerates(promotedList(rows), T \cap P)
  <2>1. Enumerates(At(tools, {i \in DOMAIN tools : tools[i] \in P}), T \cap P)
    BY <1>1, KeptIs
  <2> QED
    BY <1>3, <2>1, MostCalledIs
<1>8. Enumerates(otherTools(rows), T \cap Q)
  <2>1. Enumerates(At(tools, {i \in DOMAIN tools : tools[i] \in Q}), T \cap Q)
    BY <1>1, KeptIs
  <2> QED
    BY <1>4, <1>5, <2>1, MostCalledIs
<1> QED
  BY <1>6, <1>7, <1>8 DEF Q, P, T

(* With everything checked, the promoted tools are the bands.              *)
LEMMA BandsAre ==
  ASSUME NEW rows, CallRows(rows), NEW checked,
         usageSel(rows, checked) = promoted(rows) \cup {OtherTools}
  PROVE  Enumerates(bands(rows, checked), promoted(rows))
<1> DEFINE P == promoted(rows)
           list == promotedList(rows)
           on == usageSel(rows, checked)
           kept == At(list, {i \in DOMAIN list : list[i] \in on})
           lost == on \ (ToSet(kept) \cup {OtherTools})
<1>1. bands(rows, checked) = MostCalled(rows, kept \o SetToSeq(lost))
  BY DEF bands, Where
<1>2. Enumerates(list, P)
  BY ToolLists
<1>3. on = P \cup {OtherTools}
  OBVIOUS
<1> HIDE DEF P, list, on
<1>4. Enumerates(kept, P)
  <2>1. Enumerates(kept, P \cap on)
    BY <1>2, KeptIs
  <2>2. P \cap on = P
    BY <1>3
  <2> QED
    BY <2>1, <2>2
<1> HIDE DEF kept
<1>5. ToSet(kept) = P
  BY <1>4 DEF Enumerates, ToSet
<1>6. lost = {}
  BY <1>3, <1>5
<1>7. SetToSeq(lost) = <<>>
  <2>1. Cardinality({}) = 0
    BY FS_EmptySet
  <2>2. SetToSeq({}) = CHOOSE f \in [1 .. 0 -> {}] : IsInjective(f)
    BY <2>1 DEF SetToSeq
  <2>3. 1 .. 0 = {}
    OBVIOUS
  <2>4. \A f \in [{} -> {}] : f = <<>>
    OBVIOUS
  <2>5. <<>> \in [{} -> {}] /\ IsInjective(<<>>)
    BY DEF IsInjective
  <2>6. SetToSeq({}) = <<>>
    BY <2>2, <2>3, <2>4, <2>5
  <2> QED
    BY <1>6, <2>6
<1>8. kept \o SetToSeq(lost) = kept
  BY <1>4, <1>7, ConcatEmptySeq DEF Enumerates
<1> QED
  BY <1>1, <1>4, <1>8, MostCalledIs DEF P

(* Rows of a bucket, counted tool by tool.                                 *)
LEMMA ToolParts ==
  ASSUME NEW rows, CallRows(rows), NEW f, \A i \in DOMAIN rows : f[i] \in Int, NEW ts, NEW T,
         NEW R, IsFiniteSet(R), NEW M, \A r \in R : M[r] \subseteq T,
         \A t \in T : \E r \in R : t \in M[r],
         \A r, q \in R : r # q => M[r] \cap M[q] = {},
         NEW part, \A r \in R : part[r] = SumFunctionOnSet(f, RowsAt(rows, ts, M[r]))
  PROVE  SumFunctionOnSet(f, RowsAt(rows, ts, T)) = SumFunctionOnSet(part, R)
<1> DEFINE S == RowsAt(rows, ts, T)
           parts == [r \in R |-> RowsAt(rows, ts, M[r])]
<1>1. S \in SUBSET DOMAIN rows
  BY DEF RowsAt
<1>2. IsFiniteSet(S) /\ \A x \in S : f[x] \in Int
  BY <1>1, RowsFinite
<1>3. \A r \in R : parts[r] = RowsAt(rows, ts, M[r]) /\ parts[r] \subseteq S
  BY DEF RowsAt
<1>4. \A x \in S : \E r \in R : x \in parts[r]
  BY DEF RowsAt
<1>5. \A r, q \in R : r # q => parts[r] \cap parts[q] = {}
  BY DEF RowsAt
<1>6. parts = [r \in R |-> parts[r]]
  OBVIOUS
<1> HIDE DEF S, parts
<1>7. Splits(S, R, parts)
  <2>1. parts \in [R -> SUBSET S]
    BY <1>3, <1>6
  <2> QED
    BY <1>2, <1>4, <1>5, <2>1 DEF Splits
<1>8. \A r \in R : part[r] = SumFunctionOnSet(f, parts[r])
  BY <1>3
<1> QED
  BY <1>2, <1>7, <1>8, SumByParts DEF S

(* What a layer counts of a bucket.                                        *)
LEMMA CallsAre ==
  ASSUME NEW rows, CallRows(rows), NEW ts, NEW layer, IsFiniteSet(Members(rows, layer))
  PROVE  Calls(rows, ts, layer) = SumFunctionOnSet(CallsOf(rows), RowsAt(rows, ts, Members(rows, layer)))
<1> DEFINE T == Members(rows, layer)
           f == CallsOf(rows)
           part == [t \in T |-> perBucket(rows, ts, t)]
           M == [t \in T |-> {t}]
<1>1. ASSUME NEW t \in T PROVE part[t] = SumFunctionOnSet(f, RowsAt(rows, ts, M[t]))
  <2> DEFINE K == {i \in DOMAIN rows : rows[i].ts = ts /\ rows[i].tool = t}
  <2>1. part[t] = SumFunctionOnSet([i \in K |-> rows[i].n], K)
    BY DEF perBucket, SumWhere, SumEach
  <2>2. K \in SUBSET DOMAIN rows /\ K = RowsAt(rows, ts, M[t])
    BY DEF RowsAt
  <2> HIDE DEF K
  <2> QED
    BY <2>1, <2>2, RowsFinite
<1>2. Calls(rows, ts, layer) = SumFunctionOnSet(part, T)
  BY DEF Calls, SumEach
<1>3. \A t \in T : M[t] = {t}
  OBVIOUS
<1> HIDE DEF T, f, part, M
<1>4. \A i \in DOMAIN rows : f[i] \in Int
  BY RowsFinite DEF f
<1>5. IsFiniteSet(T)
  BY DEF T
<1>6. SumFunctionOnSet(f, RowsAt(rows, ts, T)) = SumFunctionOnSet(part, T)
  <2>1. \A t \in T : M[t] \subseteq T
    BY <1>3
  <2>2. \A t \in T : \E r \in T : t \in M[r]
    BY <1>3
  <2>3. \A r, q \in T : r # q => M[r] \cap M[q] = {}
    BY <1>3
  <2> QED
    BY <1>1, <1>4, <1>5, <2>1, <2>2, <2>3, ToolParts, SMTT(30)
<1> QED
  BY <1>2, <1>6 DEF T, f

(* A set that a sequence lists is finite.                                  *)
LEMMA ListedFinite ==
  ASSUME NEW S, NEW s, Enumerates(s, S)
  PROVE  IsFiniteSet(S)
<1>1. IsFiniteSet(DOMAIN s)
  BY PlacesFinite DEF Enumerates
<1>2. s \in [DOMAIN s -> S]
  BY DEF Enumerates
<1>3. s \in Surjection(DOMAIN s, S)
  BY <1>2 DEF Enumerates, Surjection
<1> QED
  BY <1>1, <1>3, FS_Surjection

(* All rows of a bucket.                                                   *)
LEMMA BucketIs ==
  ASSUME NEW rows, NEW ts
  PROVE  RowsAt(rows, ts, ToolSet(rows)) = {i \in DOMAIN rows : rows[i].ts = ts}
BY DEF RowsAt, ToolSet

(* The layers of the tool usage share the calls of a bucket.               *)
LEMMA LayersShare ==
  ASSUME NEW rows, CallRows(rows), NEW checked,
         usageSel(rows, checked) = promoted(rows) \cup {OtherTools}, NEW ts
  PROVE  SumOver(layers(rows, checked), LAMBDA l : Calls(rows, ts, l))
           = SumWhere(rows, LAMBDA r : r.ts = ts, LAMBDA r : r.n)
<1> DEFINE T == ToolSet(rows)
           P == promoted(rows)
           B == bands(rows, checked)
           O == otherTools(rows)
           L == layers(rows, checked)
           R == DOMAIN L
           M == [k \in R |-> Members(rows, L[k])]
           part == [k \in R |-> Calls(rows, ts, L[k])]
           J == {i \in DOMAIN rows : rows[i].ts = ts}
<1>1. Enumerates(B, P) /\ Enumerates(O, T \ P) /\ P \subseteq T
  BY BandsAre, ToolLists, PromotedIs
<1>2. OtherTools \notin T
  BY DEF CallRows, ToolRows, ToolSet, ToSet
<1>3. L = B \o (IF O # <<>> THEN <<OtherTools>> ELSE <<>>)
  BY DEF layers, showOther
<1>4. \A l : Members(rows, l) = IF l = OtherTools THEN ToSet(O) ELSE {l}
  BY DEF Members
<1>5. \A k \in R : M[k] = Members(rows, L[k]) /\ part[k] = Calls(rows, ts, L[k])
  OBVIOUS
<1>6. SumOver(L, LAMBDA l : Calls(rows, ts, l)) = SumFunctionOnSet(part, R)
  BY DEF SumOver, SumEach
<1>7. SumWhere(rows, LAMBDA r : r.ts = ts, LAMBDA r : r.n) = SumFunctionOnSet(CallsOf(rows), RowsAt(rows, ts, T))
  <2>1. SumWhere(rows, LAMBDA r : r.ts = ts, LAMBDA r : r.n) = SumFunctionOnSet([i \in J |-> rows[i].n], J)
    BY DEF SumWhere, SumEach
  <2>2. J \in SUBSET DOMAIN rows /\ J = RowsAt(rows, ts, T)
    BY BucketIs
  <2> HIDE DEF J
  <2> QED
    BY <2>1, <2>2, RowsFinite
<1> HIDE DEF T, P, B, O, L, M, part
<1>8. ToSet(O) = T \ P /\ (O = <<>> => T = P)
  <2>1. ToSet(O) = T \ P
    BY <1>1 DEF Enumerates, ToSet
  <2>2. O = <<>> => ToSet(O) = {}
    BY DEF ToSet
  <2> QED
    BY <1>1, <2>1, <2>2
<1> DEFINE n == Len(B)
<1>9. n \in Nat /\ DOMAIN B = 1 .. n /\ B \in Seq(P)
  BY <1>1 DEF Enumerates
<1>10. \A k \in 1 .. n : B[k] \in P /\ B[k] # OtherTools
  BY <1>1, <1>2, <1>9
<1> HIDE DEF n
<1>11. /\ R = IF O # <<>> THEN 1 .. n + 1 ELSE 1 .. n
       /\ \A k \in 1 .. n : L[k] = B[k]
       /\ O # <<>> => L[n + 1] = OtherTools
  BY <1>3, <1>9 DEF n
<1>12. /\ \A k \in 1 .. n : k \in R /\ M[k] = {B[k]}
       /\ O # <<>> => n + 1 \in R /\ M[n + 1] = T \ P
       /\ \A k \in R : k \in 1 .. n \/ (O # <<>> /\ k = n + 1)
  BY <1>4, <1>5, <1>8, <1>9, <1>10, <1>11
<1>13. \A k \in R : M[k] \subseteq T
  BY <1>1, <1>10, <1>12
<1>14. \A t \in T : \E k \in R : t \in M[k]
  <2> SUFFICES ASSUME NEW t \in T PROVE \E k \in R : t \in M[k]
    OBVIOUS
  <2>1. CASE t \in P
    <3>1. PICK k \in 1 .. n : B[k] = t
      BY <1>1, <1>9, <2>1 DEF Enumerates
    <3> QED
      BY <1>12, <3>1
  <2>2. CASE t \notin P
    BY <1>8, <1>12, <2>2
  <2> QED
    BY <2>1, <2>2
<1>15. \A k, j \in R : k # j => M[k] \cap M[j] = {}
  <2> SUFFICES ASSUME NEW k \in R, NEW j \in R, k # j PROVE M[k] \cap M[j] = {}
    OBVIOUS
  <2>1. CASE k \in 1 .. n /\ j \in 1 .. n
    BY <1>1, <1>9, <1>12, <2>1 DEF Enumerates
  <2>2. CASE ~(k \in 1 .. n /\ j \in 1 .. n)
    BY <1>10, <1>12, <2>2
  <2> QED
    BY <2>1, <2>2
<1>16. \A k \in R : part[k] = SumFunctionOnSet(CallsOf(rows), RowsAt(rows, ts, M[k]))
  <2> SUFFICES ASSUME NEW k \in R
               PROVE  part[k] = SumFunctionOnSet(CallsOf(rows), RowsAt(rows, ts, M[k]))
    OBVIOUS
  <2>1. IsFiniteSet(T \ P) /\ \A x : IsFiniteSet({x})
    BY <1>1, ListedFinite, FS_Singleton
  <2>2. CASE k \in 1 .. n
    <3>1. M[k] = {B[k]}
      BY <1>12, <2>2
    <3>2. IsFiniteSet(Members(rows, L[k]))
      BY <1>5, <2>1, <3>1
    <3> QED
      BY <1>5, <3>2, CallsAre
  <2>3. CASE k \notin 1 .. n
    <3>1. M[k] = T \ P
      BY <1>12, <2>3
    <3>2. IsFiniteSet(Members(rows, L[k]))
      BY <1>5, <2>1, <3>1
    <3> QED
      BY <1>5, <3>2, CallsAre
  <2> QED
    BY <2>2, <2>3
<1>17. IsFiniteSet(R)
  <2>1. n \in Int /\ n + 1 \in Int /\ 1 \in Int
    BY <1>9
  <2>2. IsFiniteSet(1 .. n) /\ IsFiniteSet(1 .. n + 1)
    BY <2>1, FS_Interval
  <2> QED
    BY <1>11, <2>2
<1>18. \A i \in DOMAIN rows : CallsOf(rows)[i] \in Int
  BY RowsFinite
<1> HIDE DEF R
<1> QED
  BY <1>6, <1>7, <1>13, <1>14, <1>15, <1>16, <1>17, <1>18, ToolParts DEF L

(* A key of the error rates counts the rows of its tools.                  *)
LEMMA TallyIs ==
  ASSUME NEW rows, CallRows(rows), \A i \in DOMAIN rows : rows[i].error \in Nat, NEW ts, NEW key
  PROVE  LET S == RowsAt(rows, ts, ErrorMembers(rows, key))
         IN  /\ TallyAt(rows, ts, key).total = SumFunctionOnSet(CallsOf(rows), S)
             /\ TallyAt(rows, ts, key).error = SumFunctionOnSet(ErrorsOf(rows), S)
<1> DEFINE T == ErrorMembers(rows, key)
           S == RowsAt(rows, ts, T)
           J == {i \in DOMAIN rows : rows[i].ts = ts /\ rows[i].tool \in T}
           f == [i \in J |-> rows[i].error]
<1>1. /\ TallyAt(rows, ts, key).total = SumFunctionOnSet([i \in J |-> rows[i].n], J)
      /\ TallyAt(rows, ts, key).error = SumFunctionOnSet(f, J)
  BY DEF TallyAt, SumEach
<1>2. J = S /\ J \in SUBSET DOMAIN rows
  BY DEF RowsAt
<1>3. \A i \in J : f[i] = ErrorsOf(rows)[i]
  BY DEF ErrorsOf
<1> HIDE DEF S, J, f
<1>4. IsFiniteSet(J) /\ SumFunctionOnSet([i \in J |-> rows[i].n], J) = SumFunctionOnSet(CallsOf(rows), J)
  BY <1>2, RowsFinite
<1>5. SumFunctionOnSet(f, J) = SumFunctionOnSet(ErrorsOf(rows), J)
  BY <1>3, <1>4, SumExtensional
<1> QED
  BY <1>1, <1>2, <1>4, <1>5 DEF S

(* The tools with a line of their own come first, the rest follows.        *)
LEMMA LinesSplit ==
  ASSUME NEW rows, CallRows(rows)
  PROVE  \E c \in Nat :
           /\ DOMAIN visibleTools(rows) = 1 .. c /\ visibleTools(rows) \in Seq(ToolSet(rows))
           /\ \A t \in ToolSet(rows) :
                t \in ToSet(restTools(rows)) <=> \A k \in 1 .. c : visibleTools(rows)[k] # t
           /\ \A j, k \in 1 .. c : visibleTools(rows)[j] = visibleTools(rows)[k] => j = k
           /\ ToSet(restTools(rows)) \subseteq ToolSet(rows)
<1> DEFINE T == ToolSet(rows)
           s == sortedTools(rows)
           n == Len(s)
           N == ErrorTopN
           c == IF N <= n THEN N ELSE n
           V == visibleTools(rows)
           Q == restTools(rows)
<1>1. Enumerates(s, T)
  BY ToolsIs, MostCalledIs DEF sortedTools, CallRows
<1>2. N \in Nat \ {0}
  BY ToolPanelAssumption
<1>3. V = First(s, N) /\ Q = SubSeq(s, N + 1, n)
  BY DEF visibleTools, restTools
<1> HIDE DEF T, s, V, Q, N
<1>4. s \in Seq(T) /\ n \in Nat /\ DOMAIN s = 1 .. n
  BY <1>1 DEF Enumerates
<1>5. V = SubSeq(s, 1, c)
  BY <1>2, <1>3, <1>4, FirstIs
<1> HIDE DEF n
<1>6. c \in Nat /\ c <= n /\ c <= N
  BY <1>2, <1>4
<1> HIDE DEF c
<1>7. V \in Seq(T) /\ DOMAIN V = 1 .. c /\ \A k \in 1 .. c : k \in 1 .. n /\ V[k] = s[k]
  BY <1>4, <1>5, <1>6 DEF n
<1>8. \A t : t \in ToSet(Q) <=> \E k \in 1 .. n : k > N /\ s[k] = t
  <2>1. CASE n <= N
    <3>1. Q = <<>>
      BY <1>2, <1>3, <1>4, <2>1 DEF n
    <3>2. ToSet(Q) = {}
      BY <3>1 DEF ToSet
    <3> QED
      BY <1>2, <1>4, <2>1, <3>2
  <2>2. CASE n > N
    <3>1. DOMAIN Q = 1 .. n - N /\ \A i \in 1 .. n - N : Q[i] = s[N + i]
      BY <1>2, <1>3, <1>4, <2>2 DEF n
    <3>2. \A i \in 1 .. n - N : N + i \in 1 .. n /\ N + i > N
      BY <1>2, <1>4, <2>2
    <3>3. \A k \in 1 .. n : k > N => k - N \in 1 .. n - N /\ N + (k - N) = k
      BY <1>2, <1>4, <2>2
    <3> QED
      BY <3>1, <3>2, <3>3 DEF ToSet
  <2> QED
    BY <1>2, <1>4, <2>1, <2>2
<1>9. \A k \in 1 .. n : k \in 1 .. c <=> ~(k > N)
  BY <1>2, <1>4 DEF c
<1>10. \A t \in T : t \in ToSet(Q) <=> \A k \in 1 .. c : V[k] # t
  <2> SUFFICES ASSUME NEW t \in T PROVE t \in ToSet(Q) <=> \A k \in 1 .. c : V[k] # t
    OBVIOUS
  <2>1. PICK i \in 1 .. n : s[i] = t
    BY <1>1, <1>4 DEF Enumerates
  <2>2. \A k \in 1 .. n : s[k] = t => k = i
    BY <1>1, <1>4, <2>1 DEF Enumerates
  <2> QED
    BY <1>7, <1>8, <1>9, <2>1, <2>2
<1>11. \A j, k \in 1 .. c : V[j] = V[k] => j = k
  BY <1>1, <1>4, <1>7 DEF Enumerates
<1>12. ToSet(Q) \subseteq T
  BY <1>4, <1>8
<1> QED
  BY <1>6, <1>7, <1>10, <1>11, <1>12 DEF T, V, Q

(* The lines of a sub-panel share the calls and the errors of a bucket.    *)
LEMMA LinesShare ==
  ASSUME NEW rows, CallRows(rows), \A i \in DOMAIN rows : rows[i].error \in Nat, NEW ts
  PROVE  LET lines == Append(visibleTools(rows), OtherTools)
             at == [i \in DOMAIN lines |-> TallyAt(rows, ts, lines[i])]
         IN  /\ TallyAt(rows, ts, AGGREGATE).total = SumOver(at, LAMBDA t : t.total)
             /\ TallyAt(rows, ts, AGGREGATE).error = SumOver(at, LAMBDA t : t.error)
<1> DEFINE T == ToolSet(rows)
           V == visibleTools(rows)
           Q == ToSet(restTools(rows))
           lines == Append(V, OtherTools)
           R == DOMAIN lines
           at == [i \in R |-> TallyAt(rows, ts, lines[i])]
           M == [i \in R |-> ErrorMembers(rows, lines[i])]
           part == [i \in DOMAIN at |-> at[i].total]
           wrong == [i \in DOMAIN at |-> at[i].error]
<1>1. PICK c \in Nat :
        /\ DOMAIN V = 1 .. c /\ V \in Seq(T)
        /\ \A t \in T : t \in Q <=> \A k \in 1 .. c : V[k] # t
        /\ \A j, k \in 1 .. c : V[j] = V[k] => j = k
        /\ Q \subseteq T
  BY LinesSplit
<1>2. OtherTools \notin T /\ AGGREGATE \notin T /\ OtherTools # AGGREGATE
  BY DEF CallRows, ToolRows, ToolSet, ToSet, OtherTools, AGGREGATE
<1>3. ErrorMembers(rows, AGGREGATE) = T
  <2>1. ToSet(ToolsOf(rows)) = T
    BY ToolsIs DEF CallRows, Enumerates, ToSet
  <2> QED
    BY <1>2, <2>1 DEF ErrorMembers
<1>4. ErrorMembers(rows, OtherTools) = Q
  BY <1>2 DEF ErrorMembers
<1>5. ASSUME NEW t \in T PROVE ErrorMembers(rows, t) = {t}
  BY <1>2, <1>5 DEF ErrorMembers
<1>6. /\ \A i \in R : M[i] = ErrorMembers(rows, lines[i])
      /\ \A i \in R : part[i] = TallyAt(rows, ts, lines[i]).total
      /\ \A i \in R : wrong[i] = TallyAt(rows, ts, lines[i]).error
  OBVIOUS
<1>7. SumOver(at, LAMBDA t : t.total) = SumFunctionOnSet(part, R)
  BY DEF SumOver, SumEach
<1>8. SumOver(at, LAMBDA t : t.error) = SumFunctionOnSet(wrong, R)
  BY DEF SumOver, SumEach
<1> HIDE DEF T, V, Q, at, M, part, wrong
<1>9. R = 1 .. c + 1 /\ lines[c + 1] = OtherTools /\ \A k \in 1 .. c : lines[k] = V[k]
  BY <1>1
<1> HIDE DEF lines, R
<1>10. /\ \A k \in 1 .. c : k \in R /\ V[k] \in T /\ M[k] = {V[k]}
       /\ c + 1 \in R /\ M[c + 1] = Q
       /\ \A k \in R : k \in 1 .. c \/ k = c + 1
  BY <1>1, <1>4, <1>5, <1>6, <1>9
<1>11. \A k \in R : M[k] \subseteq T
  BY <1>1, <1>10
<1>12. \A t \in T : \E k \in R : t \in M[k]
  <2> SUFFICES ASSUME NEW t \in T PROVE \E k \in R : t \in M[k]
    OBVIOUS
  <2>1. t \in Q \/ \E k \in 1 .. c : V[k] = t
    BY <1>1
  <2> QED
    BY <1>10, <2>1
<1>13. \A k, j \in R : k # j => M[k] \cap M[j] = {}
  <2> SUFFICES ASSUME NEW k \in R, NEW j \in R, k # j PROVE M[k] \cap M[j] = {}
    OBVIOUS
  <2>1. CASE k \in 1 .. c /\ j \in 1 .. c
    BY <1>1, <1>10, <2>1
  <2>2. CASE ~(k \in 1 .. c /\ j \in 1 .. c)
    BY <1>1, <1>10, <2>2
  <2> QED
    BY <2>1, <2>2
<1>14. IsFiniteSet(R)
  <2>1. c + 1 \in Int /\ 1 \in Int
    OBVIOUS
  <2> QED
    BY <1>9, <2>1, FS_Interval
<1>15. \A i \in DOMAIN rows : CallsOf(rows)[i] \in Int /\ ErrorsOf(rows)[i] \in Int
  <2>1. \A i \in DOMAIN rows : CallsOf(rows)[i] \in Int
    BY RowsFinite
  <2>2. \A i \in DOMAIN rows : ErrorsOf(rows)[i] \in Int
    BY DEF ErrorsOf
  <2> QED
    BY <2>1, <2>2
<1>16. \A k \in R : /\ part[k] = SumFunctionOnSet(CallsOf(rows), RowsAt(rows, ts, M[k]))
                    /\ wrong[k] = SumFunctionOnSet(ErrorsOf(rows), RowsAt(rows, ts, M[k]))
  BY <1>6, TallyIs
<1>17. TallyAt(rows, ts, AGGREGATE).total = SumFunctionOnSet(part, R)
  <2>1. TallyAt(rows, ts, AGGREGATE).total = SumFunctionOnSet(CallsOf(rows), RowsAt(rows, ts, T))
    BY <1>3, TallyIs
  <2> QED
    BY <1>11, <1>12, <1>13, <1>14, <1>15, <1>16, <2>1, ToolParts
<1>18. TallyAt(rows, ts, AGGREGATE).error = SumFunctionOnSet(wrong, R)
  <2>1. TallyAt(rows, ts, AGGREGATE).error = SumFunctionOnSet(ErrorsOf(rows), RowsAt(rows, ts, T))
    BY <1>3, TallyIs
  <2> QED
    BY <1>11, <1>12, <1>13, <1>14, <1>15, <1>16, <2>1, ToolParts, SMTT(30)
<1> QED
  BY <1>7, <1>8, <1>17, <1>18 DEF at, R, lines, V

(* The rows of one model are rows.                                         *)
LEMMA ModelRows ==
  ASSUME NEW all, CallRows(all), ErrorRows(all), NEW m
  PROVE  LET rows == OfModel(all, m)
         IN  /\ CallRows(rows) /\ ErrorRows(rows)
             /\ (\E i \in DOMAIN all : all[i].model = m) => rows # <<>>
<1> DEFINE rows == OfModel(all, m)
           J == {i \in DOMAIN all : all[i].model = m}
           Y == {all[i] : i \in J}
<1>1. rows = At(all, J) /\ J \in SUBSET DOMAIN all
  BY DEF OfModel, Where
<1>2. Y \subseteq ToSet(all)
  BY DEF ToSet
<1> HIDE DEF rows, J, Y
<1>3. rows \in Seq({all[i] : i \in J}) /\ \A i \in J : \E k \in DOMAIN rows : rows[k] = all[i]
  BY <1>1, AtIs DEF CallRows
<1>4. rows \in Seq(Y)
  BY <1>3 DEF Y
<1>5. \A i \in DOMAIN rows : rows[i] \in Y
  BY <1>4
<1>6. \A i \in DOMAIN rows : rows[i] \in ToSet(all)
  BY <1>2, <1>5
<1>7. rows \in Seq(ToSet(rows)) /\ ToSet(rows) \subseteq ToSet(all)
  BY <1>4, <1>6 DEF ToSet
<1>8. CallRows(rows) /\ ErrorRows(rows)
  BY <1>7 DEF CallRows, ToolRows, ErrorRows
<1>9. (\E i \in DOMAIN all : all[i].model = m) => rows # <<>>
  BY <1>3 DEF J
<1> QED
  BY <1>8, <1>9 DEF rows

LEMMA ErrorsKnown ==
  ASSUME NEW rows, CallRows(rows), ErrorRows(rows), NEW i \in DOMAIN rows
  PROVE  rows[i].n \in Nat /\ rows[i].n > 0 /\ rows[i].error \in Nat /\ rows[i].error <= rows[i].n
<1>1. rows[i] \in ToSet(rows)
  BY DEF ToSet
<1> QED
  BY <1>1 DEF CallRows, ToolRows, ErrorRows

(* Whatever rows a bucket has, with everything checked the layers of the   *)
(* tool usage count each call of it once, unless a tool was checked by     *)
(* hand and has since sunk into Other, and the lines of the error rates    *)
(* split the calls and the errors of the aggregate line.                   *)
THEOREM CallsOnce == SpecPanels => []CallsCountedOnce
<1>1. ASSUME TypeOKPanels, kind \in {"usage", "errors"} PROVE CallRows(body.rows)
  <2>1. kind \in Kind /\ body \in Answers[kind] \cup {Empty}
    BY BodyIs, <1>1 DEF TypeOKPanels
  <2> QED
    BY <1>1, <2>1, PanelsAssumption DEF CallRows
<1>2. ASSUME TypeOKPanels, kind = "usage" PROVE CallsCountedOnce
  <2> DEFINE rows == body.rows
             full == usageSel(rows, over) = promoted(rows) \cup {OtherTools}
             all(ts) == SumOver(layers(rows, over), LAMBDA l : Calls(rows, ts, l))
                          = SumWhere(rows, LAMBDA r : r.ts = ts, LAMBDA r : r.n)
  <2>1. CallRows(rows)
    BY <1>1, <1>2
  <2>2. ASSUME full, NEW ts PROVE all(ts)
    <3> HIDE DEF rows
    <3> QED
      BY <2>1, <2>2, LayersShare DEF SumOver, SumWhere, SumEach
  <2>3. CallsCountedOnce <=> (full => \A ts \in ToSet(Buckets(rows)) : all(ts))
    BY <1>2, "usage" # "errors" DEF CallsCountedOnce
  <2> HIDE DEF full, all
  <2> QED
    BY <2>2, <2>3
<1>3. ASSUME TypeOKPanels, kind = "errors" PROVE CallsCountedOnce
  <2> SUFFICES ASSUME NEW m \in SubPanels, NEW ts
               PROVE  LET rows  == OfModel(body.rows, m)
                          lines == Append(visibleTools(rows), OtherTools)
                          at == [i \in DOMAIN lines |-> TallyAt(rows, ts, lines[i])]
                          all == TallyAt(rows, ts, AGGREGATE)
                      IN  /\ all.total = SumOver(at, LAMBDA t : t.total)
                          /\ all.error = SumOver(at, LAMBDA t : t.error)
    BY <1>3 DEF CallsCountedOnce
  <2>1. CallRows(body.rows) /\ ErrorRows(body.rows)
    BY <1>1, <1>3, BodyIs, PanelsAssumption DEF TypeOKPanels
  <2>2. CallRows(OfModel(body.rows, m)) /\ ErrorRows(OfModel(body.rows, m))
    BY <2>1, ModelRows
  <2>3. \A i \in DOMAIN OfModel(body.rows, m) : OfModel(body.rows, m)[i].error \in Nat
    BY <2>2, ErrorsKnown
  <2> QED
    BY <2>2, <2>3, LinesShare
<1>4. TypeOKPanels => CallsCountedOnce
  <2>1. kind \notin {"usage", "errors"} => CallsCountedOnce
    BY DEF CallsCountedOnce
  <2> QED
    BY <1>2, <1>3, <2>1
<1> QED
  BY <1>4, PanelTypeCorrect, PTL

(***************************************************************************)
(* The burn rate                                                           *)
(***************************************************************************)
(* The tokens of each event.                                               *)
Spent(events) ==
  [i \in DOMAIN events |->
    events[i].tokens["input"] + events[i].tokens["output"] + events[i].tokens["read"]]

(* What is charted of a list of events.                                    *)
Counted(E) == \A e \in E : e.ts \in Int /\ e.cost \in Nat /\ \A k \in Token : e.tokens[k] \in Nat

(* The total counts each event's tokens once.                              *)
LEMMA TotalIs ==
  ASSUME NEW E, Counted(E), NEW events \in Seq(E)
  PROVE  /\ totals(events).total = SumFunctionOnSet(Spent(events), DOMAIN events)
         /\ totals(events).total \in Int
         /\ \A i \in DOMAIN events : Spent(events)[i] \in Int
<1> DEFINE D == DOMAIN events
           val(k) == [i \in D |-> events[i].tokens[k]]
           some == [i \in D |-> events[i].tokens["input"] + events[i].tokens["output"]]
<1>1. IsFiniteSet(D)
  BY PlacesFinite
<1>2. \A i \in D : \A k \in Token : events[i].tokens[k] \in Int
  BY DEF Counted
<1>3. "input" \in Token /\ "output" \in Token /\ "read" \in Token
  BY DEF Token
<1>4. totals(events).total = SumFunctionOnSet(val("input"), D) + SumFunctionOnSet(val("output"), D)
                               + SumFunctionOnSet(val("read"), D)
  BY DEF totals, SumOver, SumEach
<1>5. \A i \in D : /\ val("input")[i] \in Int /\ val("output")[i] \in Int /\ val("read")[i] \in Int
                   /\ some[i] \in Int /\ Spent(events)[i] \in Int
                   /\ some[i] = val("input")[i] + val("output")[i]
                   /\ Spent(events)[i] = some[i] + val("read")[i]
  BY <1>2, <1>3 DEF Spent
<1> PICK a : a = val("input")
  OBVIOUS
<1> PICK b : b = val("output")
  OBVIOUS
<1> PICK c : c = val("read")
  OBVIOUS
<1> HIDE DEF D, val, some
<1>6. SumFunctionOnSet(some, D) = SumFunctionOnSet(a, D) + SumFunctionOnSet(b, D)
  BY <1>1, <1>5, SumAdded
<1>7. SumFunctionOnSet(Spent(events), D) = SumFunctionOnSet(some, D) + SumFunctionOnSet(c, D)
  BY <1>1, <1>5, SumAdded
<1>8. SumFunctionOnSet(a, D) \in Int /\ SumFunctionOnSet(b, D) \in Int /\ SumFunctionOnSet(c, D) \in Int
  BY <1>1, <1>5, SumType
<1> QED
  BY <1>4, <1>5, <1>6, <1>7, <1>8 DEF D

(* What is charted of a list of sessions.                                  *)
Charted(E, S) ==
  Counted(E) /\ \A s \in S : s.start \in Int /\ s.end \in Int /\ s.events \in Seq(E)

(* The sessions by their middles.                                          *)
LEMMA SessionsSorted ==
  ASSUME NEW E, NEW S, Charted(E, S), NEW sessions \in Seq(S)
  PROVE  \E p : /\ Lists(p, DOMAIN sessions, [i \in DOMAIN sessions |-> Mid(sessions[i])])
                /\ sortedSessions(sessions) = [k \in DOMAIN sessions |-> sessions[p[k]]]
<1> DEFINE D == DOMAIN sessions
           mids == [i \in D |-> Mid(sessions[i])]
<1>1. PICK n \in Nat : n = Len(sessions)
  OBVIOUS
<1>2. D = 1 .. n
  BY <1>1
<1>3. mids \in [D -> Int]
  BY DEF Charted, Mid
<1>4. sortedSessions(sessions) = Ordered(sessions, Computed(mids))
  BY DEF sortedSessions, SortedBy
<1> HIDE DEF mids
<1>5. Computed(mids) = mids
  BY <1>1, <1>2, <1>3, ComputedIs
<1>6. PICK p : Lists(p, DOMAIN sessions, mids) /\ Ordered(sessions, mids) = [k \in DOMAIN sessions |-> sessions[p[k]]]
  BY <1>3, OrderedLists
<1>7. sortedSessions(sessions) = [k \in DOMAIN sessions |-> sessions[p[k]]]
  BY <1>4, <1>5, <1>6, Zenon
<1>8. Lists(p, DOMAIN sessions, [i \in DOMAIN sessions |-> Mid(sessions[i])])
  BY <1>6, Zenon DEF mids
<1> QED
  BY <1>7, <1>8, Zenon

(* The data of the burn rate are p's sessions, in the order of their times. *)
Plots(data, sessions, p) ==
  /\ Renames(p, DOMAIN sessions, DOMAIN sessions)
  /\ data \in Seq(ToSet(data)) /\ Len(data) = Len(sessions) /\ DOMAIN data = DOMAIN sessions
  /\ \A k \in DOMAIN data : /\ data[k].idx = k /\ data[k].mid = Mid(sessions[p[k]])
                             /\ data[k].sums = totals(sessions[p[k]].events)
                             /\ data[k].mid \in Int
  /\ \A j, k \in DOMAIN data : j < k => data[j].mid <= data[k].mid

LEMMA DataIs ==
  ASSUME NEW E, NEW S, Charted(E, S), NEW sessions \in Seq(S)
  PROVE  \E p : Plots(sessionData(sessions), sessions, p)
<1> DEFINE D == DOMAIN sessions
           data == sessionData(sessions)
           mids == [i \in D |-> Mid(sessions[i])]
<1>1. PICK n \in Nat : n = Len(sessions)
  OBVIOUS
<1>2. D = 1 .. n
  BY <1>1
<1>3. PICK p : Lists(p, D, mids) /\ sortedSessions(sessions) = [k \in D |-> sessions[p[k]]]
  BY SessionsSorted
<1>4. p \in [D -> D] /\ \A i \in D : \E k \in D : p[k] = i
  BY <1>3 DEF Lists
<1>5. \A i \in D : mids[i] \in Int /\ Mid(sessions[i]) \in Int
  BY DEF Charted, Mid
<1>6. ASSUME NEW j \in D, NEW k \in D, j < k PROVE p[j] # p[k] /\ mids[p[j]] <= mids[p[k]]
  <2>1. Precedes(mids, p[j], p[k])
    BY <1>3, <1>6 DEF Lists
  <2>2. p[j] \in Int /\ p[k] \in Int /\ mids[p[j]] \in Int /\ mids[p[k]] \in Int
    <3>1. p[j] \in D /\ p[k] \in D
      BY <1>4
    <3> HIDE DEF mids
    <3> QED
      BY <1>2, <1>5, <3>1
  <2> HIDE DEF mids
  <2> QED
    BY <2>1, <2>2 DEF Precedes
<1>7. \A j, k \in D : p[j] = p[k] => j = k
  <2>1. \A j, k \in D : j = k \/ j < k \/ k < j
    BY <1>2
  <2> QED
    BY <1>6, <2>1
<1>8. DOMAIN data = D /\ \A k \in D : /\ data[k].idx = k /\ data[k].mid = Mid(sessions[p[k]])
                                      /\ data[k].sums = totals(sessions[p[k]].events)
  <2>1. PICK sorted : sorted = sortedSessions(sessions)
    OBVIOUS
  <2>2. DOMAIN sorted = D /\ \A k \in D : sorted[k] = sessions[p[k]]
    BY <1>3, <2>1
  <2>3. data = [i \in DOMAIN sorted |->
                 [idx |-> i, mid |-> Mid(sorted[i]), dur |-> Max({LeastTime, sorted[i].end - sorted[i].start}),
                  primary |-> Primary(sorted[i].events), sums |-> totals(sorted[i].events)]]
    BY <2>1 DEF sessionData
  <2> HIDE DEF data, D
  <2> QED
    BY <2>2, <2>3
<1>9. data \in Seq(ToSet(data)) /\ Len(data) = n
  <2>1. data = [k \in 1 .. n |-> data[k]]
    BY <1>2, <1>8 DEF sessionData
  <2>2. data \in [1 .. n -> ToSet(data)]
    BY <1>2, <1>8, <2>1 DEF ToSet
  <2> HIDE DEF data
  <2> QED
    BY <2>2
<1>10. \A k \in D : data[k].mid \in Int
  BY <1>4, <1>5, <1>8
<1>11. ASSUME NEW j \in D, NEW k \in D, j < k PROVE data[j].mid <= data[k].mid
  <2>1. data[j].mid = mids[p[j]] /\ data[k].mid = mids[p[k]]
    BY <1>4, <1>8
  <2> HIDE DEF data, mids
  <2> QED
    BY <1>6, <1>11, <2>1
<1>12. IsFiniteSet(D)
  BY PlacesFinite
<1>13. Renames(p, D, D)
  <2> HIDE DEF mids, D
  <2> QED
    BY <1>4, <1>7, <1>12 DEF Renames
<1> HIDE DEF data, mids
<1>14. Plots(data, sessions, p)
  BY <1>1, <1>8, <1>9, <1>10, <1>11, <1>13 DEF Plots
<1> QED
  BY <1>14 DEF data

(* The events of sessions, one session after the other.                    *)
EventsOf(sessions) == [i \in DOMAIN sessions |-> sessions[i].events]

LEMMA EventsJoined ==
  ASSUME NEW E, NEW S, Charted(E, S), NEW sessions \in Seq(S)
  PROVE  /\ Apply(sessions, LAMBDA s : s.events) = EventsOf(sessions)
         /\ EventsOf(sessions) \in Seq(Seq(E)) /\ Len(EventsOf(sessions)) = Len(sessions)
<1>1. PICK n \in Nat : n = Len(sessions)
  OBVIOUS
<1>2. DOMAIN sessions = 1 .. n /\ \A i \in 1 .. n : sessions[i] \in S
  BY <1>1
<1>3. EventsOf(sessions) \in [1 .. n -> Seq(E)]
  BY <1>2 DEF Charted, EventsOf
<1>4. Apply(sessions, LAMBDA s : s.events) = Computed(EventsOf(sessions))
  BY DEF Apply, EventsOf
<1> QED
  BY <1>1, <1>3, <1>4, ComputedIs

(* The burn rate counts each session's tokens once.                        *)
LEMMA BurnTotal ==
  ASSUME NEW E, NEW S, Charted(E, S), NEW sessions \in Seq(S)
  PROVE  SumOver(sessionData(sessions), LAMBDA d : d.sums.total)
           = totals(FlattenSeq(Apply(sessions, LAMBDA s : s.events))).total
<1>0. PICK ss : ss = EventsOf(sessions)
  OBVIOUS
<1>17. PICK F : F = FlattenSeq(ss)
  OBVIOUS
<1> DEFINE D == DOMAIN sessions
           data == sessionData(sessions)
           drawn == [k \in DOMAIN data |-> data[k].sums.total]
           own == [i \in D |-> totals(ss[i]).total]
           f == Spent(F)
           part == [i \in D |-> Spent(ss[i])]
<1>1. PICK n \in Nat : n = Len(sessions)
  OBVIOUS
<1>2. D = 1 .. n /\ IsFiniteSet(D)
  BY <1>1, PlacesFinite
<1>3. ss \in Seq(Seq(E)) /\ Len(ss) = n
  BY <1>0, <1>1, EventsJoined
<1>4. PICK off : Offsets(off, ss)
  BY <1>3, OffsetsExist
<1>5. /\ F \in Seq(E) /\ Len(F) = off[n + 1]
      /\ \A i \in 1 .. n : \A j \in 1 .. Len(ss[i]) : F[off[i] + j] = ss[i][j]
  <2>1. /\ FlattenSeq(ss) \in Seq(E) /\ Len(FlattenSeq(ss)) = off[Len(ss) + 1]
        /\ \A i \in 1 .. Len(ss) : \A j \in 1 .. Len(ss[i]) : FlattenSeq(ss)[off[i] + j] = ss[i][j]
    <3>1. ss \in Seq(Seq(E))
      BY <1>3
    <3> QED
      BY <1>4, <3>1, FlattenPlaces
  <2> QED
    BY <1>3, <1>17, <2>1
<1>6. /\ totals(F).total = SumFunctionOnSet(f, DOMAIN F)
      /\ \A k \in DOMAIN F : f[k] \in Int
  <2>1. Counted(E)
    BY DEF Charted
  <2> QED
    BY <1>5, <2>1, TotalIs
<1>7. ASSUME NEW i \in 1 .. n
      PROVE  /\ ss[i] \in Seq(E) /\ own[i] \in Int
             /\ own[i] = SumFunctionOnSet(part[i], 1 .. Len(ss[i]))
  <2>1. ss[i] \in Seq(E) /\ Counted(E)
    BY <1>3 DEF Charted
  <2>2. PICK e \in Seq(E) : e = ss[i]
    BY <2>1
  <2>3. totals(e).total = SumFunctionOnSet(Spent(e), DOMAIN e) /\ totals(e).total \in Int
    BY <2>1, TotalIs
  <2>4. DOMAIN e = 1 .. Len(e)
    OBVIOUS
  <2>5. own[i] = totals(e).total /\ part[i] = Spent(e)
    BY <1>2, <2>2
  <2> QED
    BY <2>1, <2>2, <2>3, <2>4, <2>5
<1>8. ASSUME NEW i \in 1 .. n, NEW j \in 1 .. Len(ss[i]) PROVE part[i][j] = f[off[i] + j]
  <2>1. PICK l \in Nat : l = Len(ss[i])
    BY <1>7
  <2>2. off[i] + j \in DOMAIN F
    <3>1. off[i + 1] = off[i] + l /\ off[i] \in Nat /\ off[i + 1] \in Nat /\ off[n + 1] \in Nat
      BY <1>3, <1>4, <2>1 DEF Offsets
    <3>2. off[i + 1] <= off[n + 1]
      <4>1. i + 1 \in 1 .. n + 1 /\ n + 1 \in 1 .. n + 1 /\ i + 1 <= n + 1
        OBVIOUS
      <4> QED
        BY <1>3, <1>4, <4>1, OffsetsRise
    <3>3. j \in 1 .. l
      BY <2>1
    <3>4. DOMAIN F = 1 .. off[n + 1]
      BY <1>5
    <3>5. \A x, y, z \in Nat : z \in 1 .. l /\ x + l <= y => x + z \in 1 .. y
      OBVIOUS
    <3> QED
      BY <3>1, <3>2, <3>3, <3>4, <3>5
  <2>3. PICK e \in Seq(E) : e = ss[i]
    BY <1>7
  <2>4. j \in DOMAIN e
    BY <2>3
  <2>5. F[off[i] + j] = e[j]
    BY <1>5, <2>3
  <2>6. part[i] = Spent(e)
    BY <1>2, <2>3
  <2> HIDE DEF part
  <2> QED
    BY <2>2, <2>4, <2>5, <2>6 DEF Spent
<1>9. SumFunctionOnSet(f, DOMAIN F) = SumFunctionOnSet(own, 1 .. n)
  <2> HIDE DEF f, part, own
  <2>1. \A k \in DOMAIN FlattenSeq(ss) : f[k] \in Int
    BY <1>6, <1>17
  <2>2. /\ \A i \in 1 .. Len(ss) : \A j \in 1 .. Len(ss[i]) : part[i][j] = f[off[i] + j]
        /\ \A i \in 1 .. Len(ss) : own[i] = SumFunctionOnSet(part[i], 1 .. Len(ss[i]))
    BY <1>3, <1>7, <1>8
  <2>3. SumFunctionOnSet(f, DOMAIN FlattenSeq(ss)) = SumFunctionOnSet(own, 1 .. Len(ss))
    <3>1. ss \in Seq(Seq(E))
      BY <1>3
    <3>2. SumsOf(own, part, f, off, ss)
      BY <2>1, <2>2 DEF SumsOf
    <3> QED
      BY <1>4, <3>1, <3>2, FlattenSum
  <2> QED
    BY <1>3, <1>17, <2>3
<1>10. PICK p : Plots(data, sessions, p)
  BY DataIs
<1>11. Renames(p, D, D) /\ DOMAIN data = D /\ \A k \in D : data[k].sums = totals(sessions[p[k]].events)
  <2> HIDE DEF data
  <2> QED
    BY <1>10 DEF Plots
<1>12. ASSUME NEW k \in D PROVE drawn[k] = own[p[k]]
  <2>1. drawn[k] = totals(sessions[p[k]].events).total /\ p[k] \in D
    <3> HIDE DEF data
    <3> QED
      BY <1>11 DEF Renames
  <2> QED
    BY <1>0, <2>1 DEF EventsOf
<1>13. SumFunctionOnSet(drawn, D) = SumFunctionOnSet(own, D)
  <2>1. \A i \in D : own[i] \in Int
    BY <1>2, <1>7
  <2> HIDE DEF drawn, own, D
  <2> QED
    BY <1>11, <1>12, <2>1, SumRenamed
<1>14. SumOver(data, LAMBDA d : d.sums.total) = SumFunctionOnSet(drawn, DOMAIN data)
  BY DEF SumOver, SumEach
<1>15. F = FlattenSeq(Apply(sessions, LAMBDA s : s.events))
  BY <1>0, <1>17, EventsJoined
<1> HIDE DEF data, drawn, own, f
<1>16. SumOver(data, LAMBDA d : d.sums.total) = totals(F).total
  BY <1>2, <1>6, <1>9, <1>11, <1>13, <1>14
<1> QED
  BY <1>15, <1>16 DEF data

(* Of sessions in the order of their middles, a point of the line between  *)
(* two of them is nearest to the one it names.                             *)
LEMMA NearestNamed ==
  ASSUME NEW n \in Nat, NEW m \in [1 .. n -> Int], \A j, k \in 1 .. n : j < k => m[j] <= m[k],
         NEW k \in 1 .. n, NEW f \in 0 .. 3, k < n \/ f = 0
  PROVE  LET next == IF k + 1 <= n THEN k + 1 ELSE n
             at == m[k] * (4 - f) + m[next] * f
             src == IF 2 * f < 4 THEN k ELSE k + 1
         IN  src \in 1 .. n /\ \A i \in 1 .. n : Abs(m[src] * 4 - at) <= Abs(m[i] * 4 - at)
<1> DEFINE next == IF k + 1 <= n THEN k + 1 ELSE n
           src == IF 2 * f < 4 THEN k ELSE k + 1
           at == m[k] * (4 - f) + m[next] * f
<1>1. src \in 1 .. n /\ next \in 1 .. n /\ (f # 0 => next = k + 1)
  OBVIOUS
<1> SUFFICES ASSUME NEW i \in 1 .. n PROVE Abs(m[src] * 4 - at) <= Abs(m[i] * 4 - at)
  BY <1>1
<1>2. PICK a \in Int : a = m[k]
  OBVIOUS
<1>3. PICK b \in Int : b = m[next]
  BY <1>1
<1>4. PICK c \in Int : c = m[i]
  OBVIOUS
<1>5. a <= b
  BY <1>1, <1>2, <1>3
<1>6. c <= a \/ b <= c
  <2>1. i <= k \/ k + 1 <= i
    OBVIOUS
  <2>2. i <= k => c <= a
    BY <1>2, <1>4
  <2>3. k + 1 <= i => b <= c
    BY <1>1, <1>3, <1>4
  <2> QED
    BY <2>1, <2>2, <2>3
<1>7. CASE f = 0
  <2>1. at = a * 4 /\ m[src] = a
    BY <1>2, <1>3, <1>7
  <2>2. \A x \in Int : Abs(a * 4 - a * 4) <= Abs(x)
    BY DEF Abs
  <2>3. m[i] * 4 - at \in Int
    BY <1>4, <2>1
  <2> QED
    BY <2>1, <2>2, <2>3
<1>8. CASE f = 1
  <2>1. at = a * 3 + b /\ m[src] = a
    BY <1>2, <1>3, <1>8
  <2> HIDE DEF at, src
  <2> QED
    BY <1>4, <1>5, <1>6, <2>1, SMTT(30) DEF Abs
<1>9. CASE f = 2
  <2>1. at = a * 2 + b * 2 /\ m[src] = b
    BY <1>1, <1>2, <1>3, <1>9
  <2> HIDE DEF at, src
  <2> QED
    BY <1>4, <1>5, <1>6, <2>1 DEF Abs
<1>10. CASE f = 3
  <2>1. at = a + b * 3 /\ m[src] = b
    BY <1>1, <1>2, <1>3, <1>10
  <2> HIDE DEF at, src
  <2> QED
    BY <1>4, <1>5, <1>6, <2>1, SMTT(30) DEF Abs
<1>11. f = 0 \/ f = 1 \/ f = 2 \/ f = 3
  OBVIOUS
<1> QED
  BY <1>7, <1>8, <1>9, <1>10, <1>11

(* Gaps of the events make sessions that hold each event once, in order,   *)
(* and that lie more than a gap apart.                                     *)
LEMMA GapsCut ==
  ASSUME NEW E, Counted(E), NEW events \in Seq(E), events # <<>>,
         \A i, j \in DOMAIN events : i < j => events[i].ts <= events[j].ts
  PROVE  LET made == computeSessions(events).sessions
         IN  /\ \E S : Charted(E, S) /\ made \in Seq(S)
             /\ made # <<>> /\ FlattenSeq(EventsOf(made)) = events
             /\ \A i \in 1 .. Len(made) - 1 : made[i + 1].start - made[i].end > SessionGap
<1> DEFINE made == computeSessions(events).sessions
           D == DOMAIN events
           rank == [i \in D |-> events[i].ts]
           gap(i) == events[i].ts - events[i - 1].ts
           C == {i \in D : i = 1 \/ gap(i) > SessionGap}
           end(starts, k) == IF k = Len(starts) THEN Len(events) ELSE starts[k + 1] - 1
           cut(starts) == [k \in DOMAIN starts |->
                            [start |-> events[starts[k]].ts, end |-> events[end(starts, k)].ts,
                             events |-> SubSeq(events, starts[k], end(starts, k))]]
<1>1. PICK n \in Nat : n = Len(events)
  OBVIOUS
<1>2. D = 1 .. n /\ n # 0 /\ \A i \in D : events[i] \in E /\ events[i].ts \in Int
  BY <1>1 DEF Counted
<1>3. SortedBy(events, LAMBDA e : e.ts) = events
  <2>1. rank \in [D -> Int] /\ rank \in [1 .. n -> Int]
    BY <1>2
  <2>2. SortedBy(events, LAMBDA e : e.ts) = Ordered(events, Computed(rank))
    BY DEF SortedBy
  <2>3. \A i, j \in D : i < j => rank[i] <= rank[j]
    OBVIOUS
  <2> HIDE DEF rank
  <2>4. Computed(rank) = rank
    BY <2>1, ComputedIs
  <2>5. Ordered(events, rank) = events
    BY <2>1, <2>3, SortedAlready
  <2> QED
    BY <2>2, <2>4, <2>5
<1>4. PICK starts : starts = Ascending(C)
  BY Zenon
<1>5. made = cut(starts)
  BY <1>3, <1>4, Zenon DEF computeSessions
<1>6. PICK m \in Nat : m = Len(starts)
  <2>1. IsFiniteSet(C) /\ C \in SUBSET Int
    BY PlacesFinite
  <2> HIDE DEF C
  <2> QED
    BY <1>4, <2>1, AscendingIs DEF Enumerates
<1>7. /\ DOMAIN starts = 1 .. m /\ \A k \in 1 .. m : starts[k] \in C
      /\ \A x \in C : \E k \in 1 .. m : starts[k] = x
      /\ \A j, k \in 1 .. m : j < k => starts[j] < starts[k]
  <2>1. IsFiniteSet(C) /\ C \in SUBSET Int
    BY PlacesFinite
  <2> HIDE DEF C
  <2>2. Enumerates(starts, C) /\ DOMAIN starts = 1 .. m
    BY <1>4, <1>6, <2>1, AscendingIs, SMTT(30) DEF Enumerates
  <2>3. \A j, k \in DOMAIN starts : j < k => starts[j] < starts[k]
    BY <1>4, <2>1, AscendingRises
  <2> QED
    BY <2>2, <2>3, SMTT(30) DEF Enumerates
<1>8. m # 0 /\ starts[1] = 1
  <2>1. 1 \in C
    BY <1>2
  <2>2. PICK k \in 1 .. m : starts[k] = 1
    BY <1>7, <2>1
  <2>3. 1 \in 1 .. m
    BY <2>2
  <2>4. starts[1] \in Nat /\ starts[1] >= 1
    BY <1>2, <1>7, <2>3
  <2>5. k = 1 \/ starts[1] < starts[k]
    BY <1>7, <2>3
  <2> QED
    BY <2>2, <2>4, <2>5
<1> DEFINE off == [k \in 1 .. m + 1 |-> IF k = m + 1 THEN n ELSE starts[k] - 1]
<1>9. ASSUME NEW k \in 1 .. m
      PROVE  /\ starts[k] \in 1 .. n /\ off[k] = starts[k] - 1 /\ off[k] \in Nat
             /\ off[k + 1] = end(starts, k) /\ end(starts, k) \in starts[k] .. n
             /\ k < m => starts[k + 1] \in C /\ starts[k + 1] # 1 /\ end(starts, k) = starts[k + 1] - 1
  <2>1. starts[k] \in 1 .. n
    BY <1>2, <1>7
  <2>2. off[k] = starts[k] - 1
    OBVIOUS
  <2>3. CASE k = m
    <3>1. off[k + 1] = n /\ end(starts, k) = n
      BY <1>1, <1>6, <2>3
    <3> QED
      BY <2>1, <2>2, <2>3, <3>1
  <2>4. CASE k # m
    <3>1. k + 1 \in 1 .. m /\ k < k + 1
      BY <2>4
    <3>2. starts[k + 1] \in C /\ starts[k + 1] \in 1 .. n /\ starts[k] < starts[k + 1]
      BY <1>2, <1>7, <3>1
    <3>3. off[k + 1] = starts[k + 1] - 1 /\ end(starts, k) = starts[k + 1] - 1
      BY <1>6, <2>4, <3>1
    <3> HIDE DEF off, end, C
    <3> QED
      BY <2>1, <2>2, <3>2, <3>3
  <2> QED
    BY <2>3, <2>4
<1>10. DOMAIN made = 1 .. m /\ \A k \in 1 .. m :
         /\ made[k].start = events[starts[k]].ts /\ made[k].end = events[end(starts, k)].ts
         /\ made[k].events = SubSeq(events, starts[k], end(starts, k))
  BY <1>5, <1>7
<1> DEFINE S == {made[k] : k \in 1 .. m}
           ss == EventsOf(made)
<1>11. made \in Seq(S) /\ Len(made) = m
  <2>1. made = [k \in 1 .. m |-> made[k]]
    BY <1>5, <1>7
  <2>2. made \in [1 .. m -> S]
    BY <2>1
  <2> HIDE DEF made, S
  <2> QED
    BY <2>2
<1> HIDE DEF made, off, C, end, cut
<1>12. ASSUME NEW k \in 1 .. m
       PROVE  /\ made[k].start \in Int /\ made[k].end \in Int /\ made[k].events \in Seq(E)
              /\ Len(made[k].events) = off[k + 1] - off[k]
              /\ \A j \in 1 .. Len(made[k].events) : made[k].events[j] = events[off[k] + j]
  <2>1. PICK a \in 1 .. n : a = starts[k]
    BY <1>9
  <2>2. PICK z \in a .. n : z = end(starts, k)
    BY <1>9, <2>1
  <2>3. made[k].start = events[a].ts /\ made[k].end = events[z].ts /\ made[k].events = SubSeq(events, a, z)
    BY <1>10, <2>1, <2>2
  <2>4. /\ SubSeq(events, a, z) \in Seq(E) /\ Len(SubSeq(events, a, z)) = z - a + 1
        /\ \A j \in 1 .. z - a + 1 : SubSeq(events, a, z)[j] = events[a + j - 1]
    BY <1>1
  <2>5. off[k] = a - 1 /\ off[k + 1] = z
    BY <1>9, <2>1, <2>2
  <2>6. a \in Int /\ z \in Int /\ \A j \in 1 .. z - a + 1 : a + j - 1 = (a - 1) + j
    OBVIOUS
  <2>7. a \in 1 .. n /\ z \in 1 .. n
    OBVIOUS
  <2>8. z - (a - 1) = z - a + 1
    BY <2>6
  <2> QED
    BY <1>2, <2>3, <2>4, <2>5, <2>6, <2>7, <2>8
<1>13. Charted(E, S)
  BY <1>12 DEF Charted
<1>14. ss \in Seq(Seq(E)) /\ Len(ss) = m /\ \A k \in 1 .. m : ss[k] = made[k].events
  <2>1. ss \in Seq(Seq(E)) /\ Len(ss) = Len(made)
    <3> HIDE DEF S
    <3> QED
      BY <1>11, <1>13, EventsJoined
  <2> QED
    BY <1>10, <1>11, <2>1 DEF EventsOf
<1> HIDE DEF ss, S
<1>15. Offsets(off, ss)
  <2>1. off \in [1 .. m + 1 -> Nat] /\ off[1] = 0 /\ off[m + 1] = n
    <3>1. \A k \in 1 .. m + 1 : k \in 1 .. m \/ k = m + 1
      OBVIOUS
    <3>2. \A k \in 1 .. m + 1 : off[k] \in Nat
      BY <1>9, <3>1 DEF off
    <3>3. off = [k \in 1 .. m + 1 |-> off[k]]
      BY DEF off
    <3> QED
      BY <1>8, <3>2, <3>3 DEF off
  <2>2. ASSUME NEW k \in 1 .. m PROVE off[k + 1] = off[k] + Len(ss[k])
    <3>1. Len(ss[k]) = off[k + 1] - off[k]
      BY <1>12, <1>14
    <3>2. off[k] \in Nat /\ off[k + 1] \in Nat
      BY <2>1
    <3> QED
      BY <3>1, <3>2
  <2> QED
    BY <1>14, <2>1, <2>2 DEF Offsets
<1>16. FlattenSeq(ss) = events
  <2>1. off[Len(ss) + 1] = Len(events)
    BY <1>1, <1>14 DEF off
  <2>2. \A i \in 1 .. Len(ss) : \A j \in 1 .. Len(ss[i]) : ss[i][j] = events[off[i] + j]
    <3> SUFFICES ASSUME NEW i \in 1 .. m, NEW j \in 1 .. Len(ss[i]) PROVE ss[i][j] = events[off[i] + j]
      BY <1>14
    <3>1. ss[i] = made[i].events
      BY <1>14
    <3> QED
      BY <1>12, <3>1
  <2>3. ss \in Seq(Seq(E))
    BY <1>14
  <2> QED
    BY <1>15, <2>1, <2>2, <2>3, PiecesJoin
<1>17. ASSUME NEW i \in 1 .. m - 1 PROVE made[i + 1].start - made[i].end > SessionGap
  <2>1. i \in 1 .. m /\ i + 1 \in 1 .. m /\ i < m
    OBVIOUS
  <2>2. PICK a : a = starts[i + 1]
    OBVIOUS
  <2>3. a \in C /\ a # 1 /\ end(starts, i) = a - 1
    BY <1>9, <2>1, <2>2
  <2>4. events[a].ts - events[a - 1].ts > SessionGap
    BY <2>3 DEF C
  <2>5. made[i + 1].start = events[a].ts /\ made[i].end = events[a - 1].ts
    BY <1>10, <2>1, <2>2, <2>3
  <2> QED
    BY <2>4, <2>5
<1>18. made # <<>>
  BY <1>8, <1>11
<1> QED
  BY <1>11, <1>13, <1>16, <1>17, <1>18 DEF made, ss

(* What a function takes on a finite domain is finite.                     *)
LEMMA ValuesFinite ==
  ASSUME NEW D, IsFiniteSet(D), NEW f, DOMAIN f = D, f = [i \in D |-> f[i]]
  PROVE  IsFiniteSet({f[i] : i \in D})
<1> DEFINE T == {f[i] : i \in D}
<1>1. f \in Surjection(D, T)
  BY DEF Surjection
<1> HIDE DEF T
<1>2. IsFiniteSet(T)
  BY <1>1, FS_Surjection
<1> QED
  BY <1>2 DEF T

(* Two different members are counted as two.                               *)
LEMMA TwoCounted ==
  ASSUME NEW S, IsFiniteSet(S), NEW a \in S, NEW b \in S, a # b
  PROVE  ~(Cardinality(S) < 2)
<1>1. IsFiniteSet({a}) /\ Cardinality({a}) = 1 /\ b \notin {a}
  BY FS_Singleton
<1>2. IsFiniteSet({a} \cup {b}) /\ Cardinality({a} \cup {b}) = Cardinality({a}) + 1
  BY <1>1, FS_AddElement
<1>3. {a} \cup {b} \in SUBSET S
  OBVIOUS
<1>4. Cardinality({a} \cup {b}) <= Cardinality(S)
  BY <1>3, FS_Subset
<1>5. Cardinality(S) \in Nat
  BY FS_CardinalityType
<1> PICK c : c = Cardinality(S)
  OBVIOUS
<1> PICK u : u = Cardinality({a} \cup {b})
  OBVIOUS
<1> QED
  BY <1>1, <1>2, <1>4, <1>5

(* The points drawn are within the envelope.                               *)
LEMMA WithinRange ==
  ASSUME NEW E, NEW S, Charted(E, S), NEW sessions \in Seq(S), sessions # <<>>,
         NEW limits \in SUBSET Int, IsFiniteSet(limits), NEW range, NEW p,
         NEW data, Plots(data, sessions, p), data[1].mid # data[Len(data)].mid
  PROVE  /\ burnRange(sessions, limits, range).start <= data[1].mid
         /\ data[Len(data)].mid <= burnRange(sessions, limits, range).end
<1> DEFINE points == {Mid(s) : s \in ToSet(sessions)} \cup {2 * t : t \in limits}
<1>1. PICK n \in Nat : n = Len(sessions)
  OBVIOUS
<1>2. n # 0 /\ DOMAIN sessions = 1 .. n /\ DOMAIN data = 1 .. n /\ Len(data) = n
  BY <1>1 DEF Plots
<1>3. \A k \in 1 .. n : p[k] \in 1 .. n /\ data[k].mid = Mid(sessions[p[k]])
  BY <1>2 DEF Plots, Renames
<1>4. \A k \in 1 .. n : data[k].mid \in points
  BY <1>2, <1>3 DEF ToSet
<1>5. 1 \in 1 .. n /\ n \in 1 .. n
  BY <1>2
<1>6. points \in SUBSET Int
  <2>1. \A s \in ToSet(sessions) : s \in S
    BY DEF ToSet
  <2>2. \A s \in ToSet(sessions) : Mid(s) \in Int
    BY <2>1 DEF Charted, Mid
  <2> QED
    BY <2>2
<1>7. IsFiniteSet(points)
  <2> DEFINE D == DOMAIN sessions
             mids == [i \in D |-> Mid(sessions[i])]
             doubled == [t \in limits |-> 2 * t]
  <2>1. IsFiniteSet({mids[i] : i \in D})
    <3>1. IsFiniteSet(D)
      BY PlacesFinite
    <3>2. DOMAIN mids = D /\ mids = [i \in D |-> mids[i]]
      OBVIOUS
    <3> HIDE DEF D, mids
    <3> QED
      BY <3>1, <3>2, ValuesFinite
  <2>2. IsFiniteSet({doubled[t] : t \in limits})
    <3>1. DOMAIN doubled = limits /\ doubled = [t \in limits |-> doubled[t]]
      OBVIOUS
    <3> HIDE DEF doubled
    <3> QED
      BY <3>1, ValuesFinite
  <2>3. points = {mids[i] : i \in D} \cup {doubled[t] : t \in limits}
    BY DEF ToSet
  <2> HIDE DEF mids, D, doubled, points
  <2> QED
    BY <2>1, <2>2, <2>3, FS_Union
<1>8. ~(Cardinality(points) < 2)
  <2>1. data[1].mid \in points /\ data[n].mid \in points /\ data[1].mid # data[n].mid
    BY <1>2, <1>4, <1>5
  <2> HIDE DEF points
  <2> QED
    BY <1>7, <2>1, TwoCounted
<1>9. burnRange(sessions, limits, range) = [start |-> Min(points), end |-> Max(points)]
  BY <1>8 DEF burnRange
<1> HIDE DEF points
<1>10. points # {}
  BY <1>4, <1>5
<1>11. \A x \in points : Min(points) <= x /\ x <= Max(points)
  BY <1>6, <1>7, <1>10, ExtremesAre
<1> QED
  BY <1>2, <1>4, <1>5, <1>9, <1>11

(* What the burn rate of a body is drawn from.                             *)
LEMMA BurnSessions ==
  ASSUME NEW b, ChartBody(b), b.events # <<>>
  PROVE  /\ \E E, S : Charted(E, S) /\ sessionsOf(b) \in Seq(S)
         /\ sessionsOf(b) # <<>>
         /\ b.sessions = <<>> =>
              /\ FlattenSeq(Apply(sessionsOf(b), LAMBDA s : s.events)) = b.events
              /\ \A i \in 1 .. Len(sessionsOf(b)) - 1 :
                   sessionsOf(b)[i + 1].start - sessionsOf(b)[i].end > SessionGap
<1>1. CASE b.sessions # <<>>
  <2> DEFINE S == ToSet(b.sessions)
             E == UNION {ToSet(s.events) : s \in S}
  <2>1. sessionsOf(b) = b.sessions /\ b.sessions \in Seq(S)
    BY <1>1 DEF sessionsOf, ChartBody
  <2>2. Counted(E)
    BY DEF ChartBody, EventRows, Counted
  <2>3. ASSUME NEW s \in S PROVE s.start \in Int /\ s.end \in Int /\ s.events \in Seq(E)
    <3>1. s.start \in Int /\ s.end \in Int /\ s.events \in Seq(ToSet(s.events))
      BY DEF ChartBody, EventRows
    <3>2. ToSet(s.events) \subseteq E
      OBVIOUS
    <3> HIDE DEF E
    <3>3. s.events \in Seq(E)
      BY <3>1, <3>2
    <3> QED
      BY <3>1, <3>3
  <2>4. Charted(E, S)
    BY <2>2, <2>3 DEF Charted
  <2> QED
    BY <1>1, <2>1, <2>4
<1>2. CASE b.sessions = <<>>
  <2> DEFINE E == ToSet(b.events)
  <2>1. sessionsOf(b) = computeSessions(b.events).sessions
    BY <1>2 DEF sessionsOf
  <2>2. Counted(E) /\ b.events \in Seq(E)
    BY DEF ChartBody, EventRows, Counted
  <2>3. \A i, j \in DOMAIN b.events : i < j => b.events[i].ts <= b.events[j].ts
    BY DEF ChartBody, ByTime
  <2> HIDE DEF E
  <2>4. /\ \E S : Charted(E, S) /\ sessionsOf(b) \in Seq(S)
        /\ sessionsOf(b) # <<>> /\ FlattenSeq(EventsOf(sessionsOf(b))) = b.events
        /\ \A i \in 1 .. Len(sessionsOf(b)) - 1 :
             sessionsOf(b)[i + 1].start - sessionsOf(b)[i].end > SessionGap
    BY <2>1, <2>2, <2>3, GapsCut
  <2>5. Apply(sessionsOf(b), LAMBDA s : s.events) = EventsOf(sessionsOf(b))
    BY <2>4, EventsJoined
  <2> QED
    BY <2>4, <2>5
<1> QED
  BY <1>1, <1>2

(* The tooltip of a point speaks of a session that is nearest to it.       *)
LEMMA TipNearest ==
  ASSUME NEW sessions, NEW p, NEW data, Plots(data, sessions, p),
         NEW q \in densify(data, 4), NEW i \in DOMAIN data
  PROVE  LET at == data[q[1]].mid * (4 - q[2]) + data[Min({q[1] + 1, Len(data)})].mid * q[2]
             tip == BurnTip(FALSE, [d |-> 1, at |-> q], [d |-> 9, at |-> 1], data, 4)
         IN  Abs(data[tip.session].mid * 4 - at) <= Abs(data[i].mid * 4 - at)
<1>0. data \in Seq(ToSet(data))
  BY DEF Plots
<1>1. PICK n \in Nat : n = Len(data)
  BY <1>0
<1>2. DOMAIN data = 1 .. n /\ \A k \in 1 .. n : data[k].mid \in Int /\ data[k].idx = k
  <2>2. DOMAIN data = 1 .. n
    BY <1>0, <1>1
  <2> QED
    BY <2>2 DEF Plots
<1>3. PICK k \in 1 .. n : k = q[1]
  BY <1>2 DEF densify
<1>4. PICK f \in 0 .. 3 : f = q[2]
  BY DEF densify
<1>5. k < n \/ f = 0
  BY <1>1, <1>3, <1>4 DEF densify
<1> DEFINE m == [l \in 1 .. n |-> data[l].mid]
           next == IF k + 1 <= n THEN k + 1 ELSE n
           src == IF 2 * f < 4 THEN k ELSE k + 1
           at == m[k] * (4 - f) + m[next] * f
<1>6. m \in [1 .. n -> Int] /\ \A j, l \in 1 .. n : j < l => m[j] <= m[l]
  BY <1>2 DEF Plots
<1>7. src \in 1 .. n /\ \A l \in 1 .. n : Abs(m[src] * 4 - at) <= Abs(m[l] * 4 - at)
  <2> HIDE DEF m
  <2> QED
    BY <1>5, <1>6, NearestNamed
<1>8. Min({k + 1, n}) = next
  BY MinOf
<1>9. next \in 1 .. n
  OBVIOUS
<1>10. srcIdx(q, 4) = src
  BY <1>3, <1>4 DEF srcIdx
<1>11. BurnTip(FALSE, [d |-> 1, at |-> q], [d |-> 9, at |-> 1], data, 4).session = src
  BY <1>2, <1>7, <1>10 DEF BurnTip
<1>12. at = data[q[1]].mid * (4 - q[2]) + data[Min({q[1] + 1, Len(data)})].mid * q[2]
  BY <1>1, <1>3, <1>4, <1>8, <1>9
<1>13. m[src] = data[src].mid /\ m[i] = data[i].mid /\ i \in 1 .. n
  BY <1>2, <1>7
<1> HIDE DEF m, src, at
<1> QED
  BY <1>7, <1>11, <1>12, <1>13

(* A body that is charted is drawn in order.                              *)
LEMMA BurnOfBody ==
  ASSUME NEW b, ChartBody(b), b.events # <<>>
  PROVE  BurnInOrder(b)
<1> DEFINE sessions == sessionsOf(b)
           data == sessionData(sessions)
           range == burnRange(sessions, b.limits, rangeOf(b))
           next(p) == data[Min({p[1] + 1, Len(data)})]
           at(p) == data[p[1]].mid * (4 - p[2]) + next(p).mid * p[2]
           far(i, p) == Abs(data[i].mid * 4 - at(p))
<1>1. PICK E, S : Charted(E, S) /\ sessions \in Seq(S)
  BY BurnSessions
<1>2. sessions # <<>>
  BY BurnSessions
<1>3. PICK order : Plots(data, sessions, order)
  BY <1>1, DataIs
<1>4. \A i \in 1 .. Len(data) - 1 : data[i].mid <= data[i + 1].mid
  <2>1. data \in Seq(ToSet(data)) /\ \A j, k \in DOMAIN data : j < k => data[j].mid <= data[k].mid
    BY <1>3 DEF Plots
  <2> HIDE DEF data
  <2>2. PICK n \in Nat : n = Len(data)
    BY <2>1
  <2>3. DOMAIN data = 1 .. n
    BY <2>1, <2>2
  <2>4. \A i \in 1 .. n - 1 : i \in 1 .. n /\ i + 1 \in 1 .. n /\ i < i + 1
    OBVIOUS
  <2> QED
    BY <2>1, <2>2, <2>3, <2>4
<1>5. data[1].mid # data[Len(data)].mid =>
        range.start <= data[1].mid /\ data[Len(data)].mid <= range.end
  <2>1. b.limits \in SUBSET Int /\ IsFiniteSet(b.limits)
    BY DEF ChartBody
  <2> HIDE DEF data, sessions
  <2> QED
    BY <1>1, <1>2, <1>3, <2>1, WithinRange
<1>6. SumOver(data, LAMBDA d : d.sums.total)
        = totals(FlattenSeq(Apply(sessions, LAMBDA s : s.events))).total
  BY <1>1, BurnTotal
<1>7. ASSUME NEW p \in densify(data, 4), NEW i \in DOMAIN data
      PROVE  far(BurnTip(FALSE, [d |-> 1, at |-> p], [d |-> 9, at |-> 1], data, 4).session, p)
               <= far(i, p)
  <2> HIDE DEF data, sessions
  <2> QED
    BY <1>3, TipNearest
<1>8. b.sessions = <<>> =>
        /\ FlattenSeq(Apply(sessions, LAMBDA s : s.events)) = b.events
        /\ \A i \in 1 .. Len(sessions) - 1 :
             sessions[i + 1].start - sessions[i].end > SessionGap
  BY BurnSessions
<1> QED
  BY <1>4, <1>5, <1>6, <1>7, <1>8 DEF BurnInOrder

(* Whatever order the server sends its sessions in, the burn rate goes     *)
(* from left to right within the plot, counts each session's tokens once,  *)
(* a point of a line names the session it is nearest to, and without       *)
(* sessions of the server gaps of the events make them.                    *)
THEOREM BurnRateInOrder == SpecPanels => []BurnInTimeOrder
<1>1. ASSUME TypeOKPanels, kind = "charts" PROVE \A b \in Drawn : ChartBody(b) /\ b.events # <<>>
  <2>1. kind \in Kind /\ body \in Answers[kind] \cup {Empty}
    BY BodyIs, <1>1 DEF TypeOKPanels
  <2>2. \A b \in Files["charts"] : ChartBody(b) /\ b.events # <<>>
    BY <1>1, <2>1, PanelsAssumption
  <2>3. ChartBody(body)
    BY <1>1, <2>1, PanelsAssumption
  <2>4. OnPage(body) => body.events # <<>>
    BY <1>1 DEF OnPage
  <2> QED
    BY <1>1, <2>2, <2>3, <2>4 DEF Drawn
<1>2. TypeOKPanels => BurnInTimeOrder
  BY <1>1, BurnOfBody DEF BurnInTimeOrder
<1> QED
  BY <1>2, PanelTypeCorrect, PTL

(***************************************************************************)
(* Context growth                                                          *)
(***************************************************************************)
(* A trace starts at the origin and has one point for each of its turns.   *)
Traced(seq) ==
  /\ seq \in Seq(ToSet(seq)) /\ Len(seq) \in Nat \ {0} /\ seq[1].ctx = 0
  /\ \A i \in 1 .. Len(seq) : seq[i].t = i - 1 /\ seq[i].ctx \in Nat

(* Points numbered from 1 make a trace.                                    *)
LEMMA TraceIs ==
  ASSUME NEW P, NEW points \in Seq(P),
         \A i \in DOMAIN points : points[i].t = i /\ points[i].ctx \in Nat
  PROVE  Traced(Trace(points))
<1> DEFINE X == {Origin} \cup P
           seq == Trace(points)
<1>1. PICK n \in Nat : n = Len(points)
  OBVIOUS
<1>2. <<Origin>> \in Seq(X) /\ points \in Seq(X)
  OBVIOUS
<1> HIDE DEF X
<1>3. PICK o \in Seq(X) : o = <<Origin>>
  BY <1>2
<1>4. Len(o) = 1 /\ o[1] = Origin
  BY <1>3
<1>5. /\ o \o points \in Seq(X) /\ Len(o \o points) = Len(o) + Len(points)
      /\ \A j \in 1 .. Len(o) : (o \o points)[j] = o[j]
      /\ \A j \in 1 .. Len(points) : (o \o points)[Len(o) + j] = points[j]
  BY <1>2, ConcatPlaces
<1>6. seq \in Seq(X) /\ Len(seq) = n + 1 /\ seq[1] = Origin /\ \A j \in 1 .. n : seq[1 + j] = points[j]
  BY <1>1, <1>3, <1>4, <1>5 DEF Trace
<1>7. seq \in Seq(ToSet(seq))
  BY <1>6 DEF ToSet
<1> HIDE DEF seq
<1>8. ASSUME NEW i \in 1 .. n + 1 PROVE seq[i].t = i - 1 /\ seq[i].ctx \in Nat
  <2>1. CASE i = 1
    BY <1>6, <2>1 DEF Origin
  <2>2. CASE i # 1
    <3>1. PICK j \in 1 .. n : i = 1 + j
      <4>1. i - 1 \in 1 .. n /\ i = 1 + (i - 1)
        BY <2>2
      <4> QED
        BY <4>1
    <3>2. j \in DOMAIN points
      BY <1>1
    <3>3. seq[i] = points[j]
      BY <1>6, <3>1
    <3> QED
      BY <3>1, <3>2, <3>3
  <2> QED
    BY <2>1, <2>2
<1>9. Traced(seq)
  BY <1>6, <1>7, <1>8 DEF Traced, Origin
<1> QED
  BY <1>9 DEF seq

(* Traces of any model.                                                    *)
Traces(S) == \A t \in S : Traced(t.seq)

(* The traces of files.                                                    *)
LEMMA FileTraces ==
  ASSUME NEW traces, traces \in Seq(ToSet(traces)), \A t \in ToSet(traces) : t.turns \in Seq(Nat)
  PROVE  \E S : Traces(S) /\ Apply(traces, LAMBDA t : [model |-> t.model, seq |-> Trace(Shifted(t.turns))]) \in Seq(S)
<1> DEFINE made(t) == [model |-> t.model, seq |-> Trace(Shifted(t.turns))]
           f == [i \in DOMAIN traces |-> made(traces[i])]
           S == {made(t) : t \in ToSet(traces)}
<1>1. PICK n \in Nat : n = Len(traces)
  OBVIOUS
<1>2. ASSUME NEW t \in ToSet(traces) PROVE Traced(made(t).seq)
  <2>1. PICK turns \in Seq(Nat) : turns = t.turns
    OBVIOUS
  <2>2. PICK k \in Nat : k = Len(turns)
    OBVIOUS
  <2>3. DOMAIN turns = 1 .. k /\ \A i \in 1 .. k : turns[i] \in Nat
    BY <2>2
  <2>4. PICK points : points = Shifted(turns)
    OBVIOUS
  <2>5. DOMAIN points = 1 .. k /\ \A i \in 1 .. k : points[i].t = i /\ points[i].ctx \in Nat
    BY <2>3, <2>4 DEF Shifted
  <2>6. points \in Seq([t : Nat, ctx : Nat])
    <3>1. points \in [1 .. k -> [t : Nat, ctx : Nat]]
      BY <2>3, <2>4 DEF Shifted
    <3> QED
      BY <3>1, ComputedIs
  <2>7. Traced(Trace(points))
    BY <2>5, <2>6, TraceIs
  <2> QED
    BY <2>1, <2>4, <2>7
<1>3. Traces(S)
  BY <1>2 DEF Traces
<1>4. Apply(traces, LAMBDA t : [model |-> t.model, seq |-> Trace(Shifted(t.turns))]) = Computed(f)
  BY DEF Apply
<1>5. f \in [1 .. n -> S]
  BY <1>1 DEF ToSet
<1> HIDE DEF f, S, made
<1>6. Computed(f) \in Seq(S)
  BY <1>5, ComputedIs
<1> QED
  BY <1>3, <1>4, <1>6, Zenon

(* The traces of sessions, one for each model used.                        *)
LEMMA SessionTraces ==
  ASSUME NEW sessions, sessions \in Seq(ToSet(sessions)),
         \A s \in ToSet(sessions) : Turned(s.turns) /\ s.used \in Seq(ToSet(s.used))
  PROVE  LET under(s) == Apply(Distinct(s.used), LAMBDA m :
                          [model |-> m,
                           seq |-> Trace(Apply(s.turns, LAMBDA p : [t |-> p.t + 1, ctx |-> p.ctx]))])
         IN  \E S : Traces(S) /\ FlattenSeq(Apply(sessions, under)) \in Seq(S)
<1> DEFINE trace(s) == Trace(Apply(s.turns, LAMBDA p : [t |-> p.t + 1, ctx |-> p.ctx]))
           under(s) == Apply(Distinct(s.used), LAMBDA m : [model |-> m, seq |-> trace(s)])
           Q == {trace(s) : s \in ToSet(sessions)}
           M == UNION {ToSet(s.used) : s \in ToSet(sessions)}
           S == [model : M, seq : Q]
           ss == [i \in DOMAIN sessions |-> under(sessions[i])]
<1>1. PICK n \in Nat : n = Len(sessions)
  OBVIOUS
<1>2. ASSUME NEW s \in ToSet(sessions) PROVE Traced(trace(s))
  <2>1. PICK turns : turns = s.turns
    OBVIOUS
  <2>2. turns \in Seq(ToSet(turns)) /\ \A i \in DOMAIN turns : turns[i].t = i - 1 /\ turns[i].ctx \in Nat
    BY <2>1 DEF Turned
  <2>3. PICK k \in Nat : k = Len(turns)
    BY <2>2
  <2>4. DOMAIN turns = 1 .. k
    BY <2>2, <2>3
  <2> DEFINE f == [i \in DOMAIN turns |-> [t |-> turns[i].t + 1, ctx |-> turns[i].ctx]]
  <2>5. f \in [1 .. k -> [t : Nat, ctx : Nat]] /\ \A i \in 1 .. k : f[i].t = i /\ f[i].ctx \in Nat
    <3>1. \A i \in 1 .. k : turns[i].t + 1 = i /\ turns[i].t + 1 \in Nat /\ turns[i].ctx \in Nat
      <4> SUFFICES ASSUME NEW i \in 1 .. k
                   PROVE  turns[i].t + 1 = i /\ turns[i].t + 1 \in Nat /\ turns[i].ctx \in Nat
        OBVIOUS
      <4>1. turns[i].t = i - 1 /\ turns[i].ctx \in Nat
        BY <2>2, <2>4
      <4> QED
        BY <4>1
    <3> QED
      BY <2>4, <3>1
  <2>6. Apply(turns, LAMBDA p : [t |-> p.t + 1, ctx |-> p.ctx]) = Computed(f)
    BY DEF Apply
  <2> HIDE DEF f
  <2>7. Computed(f) = f /\ f \in Seq([t : Nat, ctx : Nat]) /\ Len(f) = k
    BY <2>5, ComputedIs
  <2>8. DOMAIN f = 1 .. k
    BY <2>5
  <2>9. Traced(Trace(f))
    BY <2>5, <2>7, <2>8, TraceIs
  <2> QED
    BY <2>1, <2>6, <2>7, <2>9, Zenon
<1>3. Traces(S)
  BY <1>2, Zenon DEF Traces
<1>4. ASSUME NEW s \in ToSet(sessions) PROVE under(s) \in Seq(S)
  <2>1. Enumerates(Distinct(s.used), ToSet(s.used))
    BY DistinctIs
  <2>2. PICK u : u = Distinct(s.used)
    OBVIOUS
  <2>3. u \in Seq(M)
    <3>1. u \in Seq(ToSet(s.used)) /\ ToSet(s.used) \subseteq M
      BY <2>1, <2>2 DEF Enumerates
    <3> HIDE DEF M
    <3> QED
      BY <3>1
  <2>4. trace(s) \in Q
    BY Zenon
  <2> HIDE DEF trace, M, Q
  <2> DEFINE f == [i \in DOMAIN u |-> [model |-> u[i], seq |-> trace(s)]]
  <2>5. under(s) = Computed(f)
    BY <2>2 DEF Apply
  <2>6. PICK k \in Nat : k = Len(u)
    BY <2>3
  <2>7. f \in [1 .. k -> S]
    BY <2>3, <2>4, <2>6
  <2> HIDE DEF f, under, S
  <2> QED
    BY <2>5, <2>7, ComputedIs
<1>5. Apply(sessions, under) = Computed(ss)
  BY DEF Apply
<1>6. FlattenSeq(Computed(ss)) \in Seq(S)
  <2>1. ss \in [1 .. n -> Seq(S)]
    <3> HIDE DEF under, S
    <3> QED
      BY <1>1, <1>4 DEF ToSet
  <2> HIDE DEF ss, S
  <2>2. Computed(ss) = ss /\ ss \in Seq(Seq(S))
    BY <2>1, ComputedIs
  <2>3. ss \in Seq(Seq(S))
    BY <2>2
  <2>4. PICK off : Offsets(off, ss)
    BY <2>3, OffsetsExist
  <2>5. FlattenSeq(ss) \in Seq(S)
    BY <2>3, <2>4, FlattenPlaces
  <2> QED
    BY <2>2, <2>5
<1>7. FlattenSeq(Apply(sessions, under)) \in Seq(S)
  BY <1>5, <1>6, Zenon
<1> HIDE DEF S
<1> QED
  BY <1>3, <1>7, Zenon

(* Rising numbers that leave none out are 0, 1, 2 and so on.               *)
LEMMA CountedUp ==
  ASSUME NEW n \in Nat, NEW u \in [1 .. n -> Nat],
         \A j, k \in 1 .. n : j < k => u[j] < u[k],
         \A k \in 1 .. n : \A v \in 0 .. u[k] - 1 : \E j \in 1 .. n : u[j] = v
  PROVE  \A k \in 1 .. n : u[k] = k - 1
<1> DEFINE T == {k \in 1 .. n : u[k] # k - 1}
<1> SUFFICES ASSUME T # {} PROVE FALSE
  OBVIOUS
<1>0. T \in SUBSET Nat
  OBVIOUS
<1>1. PICK k \in T : \A m \in T : k <= m
  BY <1>0, LeastNat
<1>2. k \in 1 .. n /\ u[k] # k - 1 /\ u[k] \in Nat /\ k - 1 \in Nat
  BY <1>1
<1>3. \A j \in 1 .. n : j < k => u[j] = j - 1
  BY <1>1
<1>4. k - 1 <= u[k]
  <2>1. CASE k = 1
    BY <1>2, <2>1
  <2>2. CASE k # 1
    <3>1. k - 1 \in 1 .. n /\ k - 1 < k
      BY <1>2, <2>2
    <3>2. u[k - 1] = (k - 1) - 1 /\ u[k - 1] < u[k]
      BY <1>2, <1>3, <3>1
    <3> QED
      BY <1>2, <3>2
  <2> QED
    BY <2>1, <2>2
<1>5. k - 1 \in 0 .. u[k] - 1
  BY <1>2, <1>4
<1>6. PICK j \in 1 .. n : u[j] = k - 1
  BY <1>2, <1>5
<1>7. j < k \/ j = k \/ k < j
  OBVIOUS
<1>8. CASE j < k
  BY <1>2, <1>3, <1>6, <1>8
<1>9. CASE j = k
  BY <1>2, <1>6, <1>9
<1>10. CASE k < j
  <2>1. u[k] < u[j]
    BY <1>2, <1>10
  <2> QED
    BY <1>2, <1>4, <1>6, <2>1
<1> QED
  BY <1>7, <1>8, <1>9, <1>10

(* The events of a session by their turns.                                 *)
OwnEvents(events, id) ==
  SortedBy(Where(events, LAMBDA e : e.session = id), LAMBDA e : e.turn)

LEMMA OwnTurns ==
  ASSUME NEW events, Numbered(events), NEW id
  PROVE  LET own == OwnEvents(events, id)
         IN  own \in Seq(ToSet(events)) /\ \A k \in DOMAIN own : own[k].turn = k - 1 /\ own[k].ctx \in Nat
<1> DEFINE J == {i \in DOMAIN events : events[i].session = id}
           Y == {events[i] : i \in J}
           w == At(events, J)
           rank == [i \in DOMAIN w |-> w[i].turn]
           own == Ordered(w, rank)
<1>1. events \in Seq(ToSet(events)) /\ J \in SUBSET DOMAIN events
  BY DEF Numbered
<1>2. \A i \in J : events[i].session = id /\ events[i].turn \in Nat /\ events[i].ctx \in Nat
  BY DEF Numbered
<1>3. \A i, j \in J : events[i].turn = events[j].turn => i = j
  BY DEF Numbered
<1>4. ASSUME NEW x \in Y
      PROVE  /\ x.turn \in Nat /\ x.ctx \in Nat
             /\ \A y \in Y : x.turn = y.turn => x = y
             /\ \A v \in 0 .. x.turn - 1 : \E y \in Y : y.turn = v
  <2>1. PICK i \in J : x = events[i]
    OBVIOUS
  <2>2. \A v \in 0 .. events[i].turn - 1 : \E j \in DOMAIN events :
          events[j].session = events[i].session /\ events[j].turn = v
    BY DEF Numbered
  <2> QED
    BY <1>2, <1>3, <2>1, <2>2
<1> HIDE DEF J
<1>5. Enumerates(w, Y)
  <2>1. \A i, j \in J : events[i] = events[j] => i = j
    BY <1>3
  <2> QED
    BY <1>1, <2>1, AtIs
<1> HIDE DEF Y, w
<1>6. PICK n \in Nat : n = Len(w)
  BY <1>5 DEF Enumerates
<1>7. w \in Seq(Y) /\ DOMAIN w = 1 .. n
  BY <1>5, <1>6 DEF Enumerates
<1>8. rank \in [DOMAIN w -> Int] /\ rank \in [1 .. n -> Int]
  BY <1>4, <1>7
<1>9. OwnEvents(events, id) = own
  <2>1. OwnEvents(events, id) = Ordered(w, Computed(rank))
    BY DEF OwnEvents, SortedBy, Where, w, J
  <2>2. Computed(rank) = rank
    <3> HIDE DEF rank
    <3> QED
      BY <1>8, ComputedIs
  <2> QED
    BY <2>1, <2>2
<1> HIDE DEF rank
<1>10. Enumerates(own, Y)
  BY <1>5, <1>8, OrderedIs
<1>11. PICK p : Lists(p, DOMAIN w, rank) /\ own = [k \in DOMAIN w |-> w[p[k]]]
  BY <1>7, <1>8, OrderedLists
<1> HIDE DEF own
<1>12. DOMAIN own = 1 .. n /\ own \in Seq(Y) /\ \A k \in 1 .. n : own[k] \in Y
  BY <1>7, <1>10, <1>11 DEF Enumerates
<1> DEFINE u == [k \in 1 .. n |-> own[k].turn]
<1>13. u \in [1 .. n -> Nat]
  BY <1>4, <1>12
<1>14. ASSUME NEW j \in 1 .. n, NEW k \in 1 .. n, j < k PROVE u[j] < u[k]
  <2>1. p[j] \in 1 .. n /\ p[k] \in 1 .. n /\ Precedes(rank, p[j], p[k])
    BY <1>7, <1>11, <1>14 DEF Lists
  <2>2. own[j] = w[p[j]] /\ own[k] = w[p[k]]
    BY <1>7, <1>11
  <2>3. rank[p[j]] = u[j] /\ rank[p[k]] = u[k]
    BY <1>7, <2>1, <2>2 DEF rank
  <2>4. u[j] <= u[k]
    BY <1>13, <2>1, <2>3 DEF Precedes
  <2>5. own[j] # own[k]
    BY <1>10, <1>12, <1>14 DEF Enumerates
  <2>6. u[j] # u[k]
    BY <1>4, <1>12, <2>5
  <2> HIDE DEF u
  <2> QED
    BY <1>13, <2>4, <2>6
<1>15. ASSUME NEW k \in 1 .. n, NEW v \in 0 .. u[k] - 1 PROVE \E j \in 1 .. n : u[j] = v
  <2>1. PICK y \in Y : y.turn = v
    BY <1>4, <1>12
  <2>2. PICK j \in DOMAIN own : own[j] = y
    BY <1>10 DEF Enumerates
  <2> QED
    BY <1>12, <2>1, <2>2
<1> HIDE DEF u
<1>16. \A k \in 1 .. n : u[k] = k - 1
  BY <1>13, <1>14, <1>15, CountedUp
<1>17. own \in Seq(ToSet(events))
  <2>1. Y \subseteq ToSet(events)
    BY <1>1 DEF Y, ToSet
  <2> QED
    BY <1>12, <2>1
<1>18. \A k \in DOMAIN own : own[k].turn = k - 1 /\ own[k].ctx \in Nat
  BY <1>4, <1>12, <1>16 DEF u
<1> QED
  BY <1>9, <1>17, <1>18

(* The traces of events.                                                   *)
LEMMA EventTraces ==
  ASSUME NEW events, Numbered(events)
  PROVE  \E S : Traces(S) /\ buildSessionTurns(events) \in Seq(S)
<1> DEFINE ids == Distinct(Apply(events, LAMBDA e : e.session))
           dom(id) == SortedBy(Distinct(Apply(OwnEvents(events, id), LAMBDA e : e.model)),
                               LAMBDA m : -Len(Where(OwnEvents(events, id), LAMBDA e : e.model = m)))[1]
           seq(id) == Trace(Apply(OwnEvents(events, id), LAMBDA e : [t |-> e.turn + 1, ctx |-> e.ctx]))
           made(id) == [model |-> dom(id), seq |-> seq(id)]
           f == [i \in DOMAIN ids |-> made(ids[i])]
           S == {made(id) : id \in ToSet(ids)}
<1>1. buildSessionTurns(events) = Computed(f)
  BY Zenon DEF buildSessionTurns, OwnEvents, Apply
<1>2. ASSUME NEW id PROVE Traced(seq(id))
  <2>1. PICK own : own = OwnEvents(events, id)
    OBVIOUS
  <2>2. own \in Seq(ToSet(events)) /\ \A k \in DOMAIN own : own[k].turn = k - 1 /\ own[k].ctx \in Nat
    BY <2>1, OwnTurns
  <2>3. PICK k \in Nat : k = Len(own)
    BY <2>2
  <2>4. DOMAIN own = 1 .. k
    BY <2>2, <2>3
  <2> DEFINE g == [i \in DOMAIN own |-> [t |-> own[i].turn + 1, ctx |-> own[i].ctx]]
  <2>5. g \in [1 .. k -> [t : Nat, ctx : Nat]] /\ \A i \in 1 .. k : g[i].t = i /\ g[i].ctx \in Nat
    <3>1. \A i \in 1 .. k : own[i].turn + 1 = i /\ own[i].turn + 1 \in Nat /\ own[i].ctx \in Nat
      <4> SUFFICES ASSUME NEW i \in 1 .. k
                   PROVE  own[i].turn + 1 = i /\ own[i].turn + 1 \in Nat /\ own[i].ctx \in Nat
        OBVIOUS
      <4>1. own[i].turn = i - 1 /\ own[i].ctx \in Nat
        BY <2>2, <2>4
      <4> QED
        BY <4>1
    <3> QED
      BY <2>4, <3>1
  <2>6. Apply(own, LAMBDA e : [t |-> e.turn + 1, ctx |-> e.ctx]) = Computed(g)
    BY DEF Apply
  <2> HIDE DEF g
  <2>7. Computed(g) = g /\ g \in Seq([t : Nat, ctx : Nat]) /\ Len(g) = k
    BY <2>5, ComputedIs
  <2>8. DOMAIN g = 1 .. k
    BY <2>5
  <2>9. Traced(Trace(g))
    BY <2>5, <2>7, <2>8, TraceIs
  <2> QED
    BY <2>1, <2>6, <2>7, <2>9, Zenon
<1>3. \A id : made(id).seq = seq(id)
  BY Zenon
<1> HIDE DEF seq, dom
<1>4. Traces(S)
  <2> HIDE DEF ids
  <2> QED
    BY <1>2, <1>3 DEF Traces
<1>5. PICK n \in Nat : DOMAIN ids = 1 .. n
  <2>1. PICK sids : sids = Apply(events, LAMBDA e : e.session)
    OBVIOUS
  <2> DEFINE g == [i \in DOMAIN events |-> events[i].session]
  <2>2. PICK k \in Nat : k = Len(events) /\ DOMAIN events = 1 .. k
    BY DEF Numbered
  <2>3. sids = Computed(g)
    BY <2>1 DEF Apply
  <2>4. g \in [1 .. k -> {e.session : e \in ToSet(events)}]
    BY <2>2 DEF ToSet
  <2> HIDE DEF g
  <2>5. sids \in Seq({e.session : e \in ToSet(events)})
    BY <2>3, <2>4, ComputedIs
  <2>6. Enumerates(Distinct(sids), ToSet(sids))
    BY <2>5, DistinctIs
  <2>7. ids \in Seq(ToSet(sids))
    BY <2>1, <2>6 DEF Enumerates
  <2> HIDE DEF ids
  <2> QED
    BY <2>7
<1> HIDE DEF ids
<1>6. f \in [1 .. n -> S]
  <2> HIDE DEF made
  <2> QED
    BY <1>5 DEF ToSet
<1> HIDE DEF f, S, made
<1> QED
  BY <1>1, <1>4, <1>6, ComputedIs

(* The traces of a body.                                                   *)
LEMMA TracesAre ==
  ASSUME NEW b, ContextRows(b)
  PROVE  \E S : Traces(S) /\ TracesOf(b) \in Seq(S)
<1> DEFINE files == Where(b.traces, LAMBDA t : t.turns # <<>>)
           sessions == Where(b.sessions, LAMBDA s : s.turns # <<>>)
           fromFiles == Apply(files, LAMBDA t : [model |-> t.model, seq |-> Trace(Shifted(t.turns))])
           under(s) == Apply(Distinct(s.used), LAMBDA m :
                        [model |-> m,
                         seq |-> Trace(Apply(s.turns, LAMBDA p : [t |-> p.t + 1, ctx |-> p.ctx]))])
           fromSessions == FlattenSeq(Apply(sessions, under))
           all == CASE b.traces # <<>> -> fromFiles
                    [] b.traces = <<>> /\ b.sessions # <<>> -> fromSessions
                    [] b.traces = <<>> /\ b.sessions = <<>> -> buildSessionTurns(b.events)
<1>1. TracesOf(b) = Real(all)
  BY Zenon DEF TracesOf
<1>2. \E S : Traces(S) /\ fromFiles \in Seq(S)
  <2> DEFINE J == {i \in DOMAIN b.traces : b.traces[i].turns # <<>>}
             X == {b.traces[i] : i \in J}
  <2>1. files = At(b.traces, J)
    BY DEF Where
  <2>2. b.traces \in Seq(ToSet(b.traces)) /\ \A t \in ToSet(b.traces) : t.turns \in Seq(Nat)
    BY DEF ContextRows
  <2>3. J \in SUBSET DOMAIN b.traces /\ X \subseteq ToSet(b.traces)
    BY DEF ToSet
  <2>4. files \in Seq(X)
    <3> HIDE DEF J
    <3> QED
      BY <2>1, <2>2, <2>3, AtIs
  <2>5. PICK fs : fs = files
    OBVIOUS
  <2> HIDE DEF X, files
  <2>6. fs \in Seq(ToSet(fs)) /\ ToSet(fs) \subseteq X
    BY <2>4, <2>5 DEF ToSet
  <2>7. \A t \in ToSet(fs) : t.turns \in Seq(Nat)
    BY <2>2, <2>3, <2>6
  <2>8. \E S : Traces(S) /\ Apply(fs, LAMBDA t : [model |-> t.model, seq |-> Trace(Shifted(t.turns))]) \in Seq(S)
    BY <2>6, <2>7, FileTraces, Zenon
  <2> QED
    BY <2>5, <2>8, Zenon
<1>3. \E S : Traces(S) /\ fromSessions \in Seq(S)
  <2> DEFINE J == {i \in DOMAIN b.sessions : b.sessions[i].turns # <<>>}
             X == {b.sessions[i] : i \in J}
  <2>1. sessions = At(b.sessions, J)
    BY DEF Where
  <2>2. b.sessions \in Seq(ToSet(b.sessions))
        /\ \A s \in ToSet(b.sessions) : Turned(s.turns) /\ s.used \in Seq(ToSet(s.used))
    BY DEF ContextRows
  <2>3. J \in SUBSET DOMAIN b.sessions /\ X \subseteq ToSet(b.sessions)
    BY DEF ToSet
  <2>4. sessions \in Seq(X)
    <3> HIDE DEF J
    <3> QED
      BY <2>1, <2>2, <2>3, AtIs
  <2>5. PICK fs : fs = sessions
    OBVIOUS
  <2> HIDE DEF X, sessions
  <2>6. fs \in Seq(ToSet(fs)) /\ ToSet(fs) \subseteq X
    BY <2>4, <2>5 DEF ToSet
  <2>7. \A s \in ToSet(fs) : Turned(s.turns) /\ s.used \in Seq(ToSet(s.used))
    BY <2>2, <2>3, <2>6
  <2>8. \E S : Traces(S) /\ FlattenSeq(Apply(fs, under)) \in Seq(S)
    BY <2>6, <2>7, SessionTraces, Zenon
  <2> QED
    BY <2>5, <2>8, Zenon
<1>4. \E S : Traces(S) /\ buildSessionTurns(b.events) \in Seq(S)
  BY EventTraces DEF ContextRows
<1> HIDE DEF fromFiles, fromSessions
<1>5. PICK S : Traces(S) /\ all \in Seq(S)
  BY <1>2, <1>3, <1>4
<1>6. PICK list : list = all
  OBVIOUS
<1> HIDE DEF all
<1> DEFINE J == {i \in DOMAIN list : list[i].model # Synthetic}
<1>7. Real(list) = At(list, J) /\ J \in SUBSET DOMAIN list
  BY DEF Real, Where
<1>8. {list[i] : i \in J} \subseteq S
  BY <1>5, <1>6
<1> HIDE DEF J
<1>9. At(list, J) \in Seq({list[i] : i \in J})
  BY <1>5, <1>6, <1>7, AtIs
<1>10. At(list, J) \in Seq(S)
  BY <1>8, <1>9
<1> QED
  BY <1>1, <1>5, <1>6, <1>7, <1>10

(* What a trace adds to the values of a turn.                              *)
Piece(seq, turn) == IF turn < Len(seq) THEN <<seq[turn + 1].ctx>> ELSE <<>>

LEMMA PieceIs ==
  ASSUME NEW seq, Traced(seq), NEW turn \in Nat
  PROVE  /\ Apply(Where(seq, LAMBDA p : p.t = turn), LAMBDA p : p.ctx) = Piece(seq, turn)
         /\ Piece(seq, turn) \in Seq(Nat)
         /\ Len(Piece(seq, turn)) = IF turn < Len(seq) THEN 1 ELSE 0
<1> DEFINE J == {i \in DOMAIN seq : seq[i].t = turn}
           Y == {seq[i] : i \in J}
           v == At(seq, J)
           f == [k \in DOMAIN v |-> v[k].ctx]
<1>0. seq \in Seq(ToSet(seq))
  BY DEF Traced
<1>1. PICK n \in Nat : n = Len(seq) /\ DOMAIN seq = 1 .. n
  BY <1>0
<1>2. \A i \in 1 .. n : seq[i].t = i - 1 /\ seq[i].ctx \in Nat
  BY <1>1 DEF Traced
<1>3. Apply(Where(seq, LAMBDA p : p.t = turn), LAMBDA p : p.ctx) = Computed(f)
  BY DEF Apply, Where
<1>4. J \in SUBSET DOMAIN seq /\ \A i, j \in J : i = j
  BY <1>1, <1>2
<1>5. Enumerates(v, Y)
  <2> HIDE DEF J
  <2> QED
    BY <1>0, <1>4, AtIs
<1>6. v \in Seq(Y)
  BY <1>5 DEF Enumerates
<1>7. PICK k \in Nat : k = Len(v) /\ DOMAIN v = 1 .. k
  <2> HIDE DEF v, Y
  <2> QED
    BY <1>6
<1>8. CASE turn < n
  <2>1. turn + 1 \in J
    BY <1>1, <1>2, <1>8
  <2>2. Y = {seq[turn + 1]}
    BY <1>4, <2>1
  <2>3. seq[turn + 1].ctx \in Nat
    BY <1>2, <1>8
  <2> HIDE DEF Y, v
  <2>4. \E j \in 1 .. k : v[j] = seq[turn + 1]
    BY <1>5, <1>7, <2>2 DEF Enumerates
  <2>5. \A j \in 1 .. k : v[j] = seq[turn + 1]
    BY <1>6, <1>7, <2>2
  <2>6. \A i, j \in 1 .. k : i = j
    BY <1>5, <1>7, <2>5 DEF Enumerates
  <2>7. k = 1
    <3>1. k # 0
      BY <2>4
    <3>2. 1 \in 1 .. k /\ k \in 1 .. k
      BY <3>1
    <3> QED
      BY <2>6, <3>2
  <2>8. f = [j \in 1 .. 1 |-> seq[turn + 1].ctx]
    BY <1>7, <2>5, <2>7
  <2>9. f \in [1 .. 1 -> Nat]
    BY <2>3, <2>8
  <2> HIDE DEF f
  <2>10. Computed(f) = f /\ f \in Seq(Nat)
    BY <2>9, ComputedIs
  <2>11. f = <<seq[turn + 1].ctx>>
    BY <2>8
  <2>12. Piece(seq, turn) = <<seq[turn + 1].ctx>> /\ Len(Piece(seq, turn)) = 1
    BY <1>1, <1>8 DEF Piece
  <2> QED
    BY <1>1, <1>3, <1>8, <2>10, <2>11, <2>12
<1>9. CASE ~(turn < n)
  <2>1. J = {}
    BY <1>1, <1>2, <1>9
  <2>2. Y = {}
    BY <2>1
  <2> HIDE DEF Y, v
  <2>3. k = 0
    <3>1. \A j \in 1 .. k : FALSE
      BY <1>6, <1>7, <2>2
    <3> QED
      BY <3>1
  <2>4. f = <<>>
    BY <1>7, <2>3
  <2>5. f \in [1 .. 0 -> Nat]
    BY <1>7, <2>3
  <2> HIDE DEF f
  <2>6. Computed(f) = f
    BY <2>5, ComputedIs
  <2>7. Piece(seq, turn) = <<>>
    BY <1>1, <1>9 DEF Piece
  <2> QED
    BY <1>1, <1>3, <1>9, <2>4, <2>6, <2>7
<1> QED
  BY <1>8, <1>9

Pieces(mine, turn) == [i \in DOMAIN mine |-> Piece(mine[i].seq, turn)]

LEMMA PiecesAre ==
  ASSUME NEW S, Traces(S), NEW mine \in Seq(S), NEW turn \in Nat
  PROVE  /\ AtTurn(mine, turn) = SortedBy(FlattenSeq(Pieces(mine, turn)), LAMBDA v : v)
         /\ Pieces(mine, turn) \in Seq(Seq(Nat)) /\ Len(Pieces(mine, turn)) = Len(mine)
<1> DEFINE f == [i \in DOMAIN mine |->
                  Apply(Where(mine[i].seq, LAMBDA p : p.t = turn), LAMBDA p : p.ctx)]
           ss == Pieces(mine, turn)
<1>1. PICK n \in Nat : n = Len(mine) /\ DOMAIN mine = 1 .. n
  OBVIOUS
<1>2. \A i \in 1 .. n : Traced(mine[i].seq)
  BY <1>1 DEF Traces
<1>3. \A i \in 1 .. n : /\ Apply(Where(mine[i].seq, LAMBDA p : p.t = turn), LAMBDA p : p.ctx) = ss[i]
                        /\ ss[i] \in Seq(Nat)
  BY <1>1, <1>2, PieceIs DEF Pieces
<1>4. f = ss /\ ss \in [1 .. n -> Seq(Nat)]
  BY <1>1, <1>3 DEF Pieces
<1>5. AtTurn(mine, turn) = SortedBy(FlattenSeq(Computed(f)), LAMBDA v : v)
  BY DEF AtTurn, Apply
<1> HIDE DEF f, ss
<1>6. Computed(ss) = ss /\ ss \in Seq(Seq(Nat)) /\ Len(ss) = n
  BY <1>4, ComputedIs
<1>7. AtTurn(mine, turn) = SortedBy(FlattenSeq(ss), LAMBDA v : v)
  BY <1>4, <1>5, <1>6
<1> QED
  BY <1>1, <1>6, <1>7 DEF ss

(* A place of the joined sequences is a place of one of them.              *)
HasPlace(k, off, ss) == \E i \in 1 .. Len(ss) : \E j \in 1 .. Len(ss[i]) : k = off[i] + j

LEMMA PlacesHad ==
  ASSUME NEW X, NEW ss \in Seq(Seq(X)), NEW off, Offsets(off, ss), NEW k \in 1 .. off[Len(ss) + 1]
  PROVE  HasPlace(k, off, ss)
<1>1. \A l \in 1 .. off[Len(ss) + 1] : \E i \in 1 .. Len(ss) : \E j \in 1 .. Len(ss[i]) : l = off[i] + j
  BY PlaceOf, SMTT(30)
<1> QED
  BY <1>1 DEF HasPlace

(* The values of a turn, in order, as many as there are traces that have   *)
(* a point there.                                                          *)
LEMMA TurnValues ==
  ASSUME NEW S, Traces(S), NEW mine \in Seq(S), NEW turn \in Nat
  PROVE  \E off : /\ Offsets(off, Pieces(mine, turn))
                  /\ AtTurn(mine, turn) \in Seq(Nat) /\ Len(AtTurn(mine, turn)) = off[Len(mine) + 1]
                  /\ \A k \in DOMAIN AtTurn(mine, turn) : \E i \in 1 .. Len(mine) :
                       turn < Len(mine[i].seq) /\ AtTurn(mine, turn)[k] = mine[i].seq[turn + 1].ctx
                  /\ \A j, k \in DOMAIN AtTurn(mine, turn) :
                       j < k => AtTurn(mine, turn)[j] <= AtTurn(mine, turn)[k]
<1>1. PICK ss : ss = Pieces(mine, turn)
  OBVIOUS
<1>2. PICK n \in Nat : n = Len(mine) /\ DOMAIN mine = 1 .. n
  OBVIOUS
<1>3. ss \in Seq(Seq(Nat))
  BY <1>1, PiecesAre
<1>4. Len(ss) = n
  BY <1>1, <1>2, PiecesAre
<1>5. PICK off : Offsets(off, ss)
  BY <1>3, OffsetsExist
<1>6. PICK F : F = FlattenSeq(ss)
  OBVIOUS
<1>7. /\ F \in Seq(Nat) /\ Len(F) = off[n + 1]
      /\ \A i \in 1 .. n : \A j \in 1 .. Len(ss[i]) : F[off[i] + j] = ss[i][j]
  <2>1. /\ FlattenSeq(ss) \in Seq(Nat) /\ Len(FlattenSeq(ss)) = off[Len(ss) + 1]
        /\ \A i \in 1 .. Len(ss) : \A j \in 1 .. Len(ss[i]) : FlattenSeq(ss)[off[i] + j] = ss[i][j]
    BY <1>3, <1>5, FlattenPlaces, SMTT(30)
  <2> QED
    BY <1>4, <1>6, <2>1
<1>8. PICK m \in Nat : m = off[n + 1] /\ DOMAIN F = 1 .. m
  BY <1>7
<1>9. ASSUME NEW k \in 1 .. m
      PROVE  \E i \in 1 .. n : turn < Len(mine[i].seq) /\ F[k] = mine[i].seq[turn + 1].ctx
  <2>1. PICK i \in 1 .. n : \E j \in 1 .. Len(ss[i]) : k = off[i] + j
    <3>1. k \in 1 .. off[Len(ss) + 1]
      BY <1>4, <1>8
    <3>2. HasPlace(k, off, ss)
      BY <1>3, <1>5, <3>1, PlacesHad
    <3> QED
      BY <1>4, <3>2 DEF HasPlace
  <2>2. PICK j \in 1 .. Len(ss[i]) : k = off[i] + j
    BY <2>1
  <2>3. F[k] = ss[i][j]
    BY <1>7, <2>2
  <2>4. ss[i] = Piece(mine[i].seq, turn)
    BY <1>1, <1>2 DEF Pieces
  <2>5. Traced(mine[i].seq)
    BY <1>2 DEF Traces
  <2>6. Len(ss[i]) = IF turn < Len(mine[i].seq) THEN 1 ELSE 0
    BY <2>4, <2>5, PieceIs
  <2>7. turn < Len(mine[i].seq) /\ j = 1
    BY <2>6
  <2>8. ss[i][1] = mine[i].seq[turn + 1].ctx
    BY <2>4, <2>7 DEF Piece
  <2> QED
    BY <2>3, <2>7, <2>8
<1> DEFINE rank == [k \in DOMAIN F |-> F[k]]
<1>10. rank = F /\ rank \in [1 .. m -> Int]
  BY <1>7, <1>8
<1>11. AtTurn(mine, turn) = Ordered(F, Computed(rank))
  <2>1. AtTurn(mine, turn) = SortedBy(F, LAMBDA v : v)
    BY <1>1, <1>6, PiecesAre
  <2> QED
    BY <2>1 DEF SortedBy
<1>12. Computed(rank) = rank
  <2> HIDE DEF rank
  <2> QED
    BY <1>10, ComputedIs
<1>13. AtTurn(mine, turn) = Ordered(F, F)
  BY <1>10, <1>11, <1>12
<1> HIDE DEF rank
<1>14. PICK p : Lists(p, DOMAIN F, F) /\ Ordered(F, F) = [k \in DOMAIN F |-> F[p[k]]]
  <2>1. F \in [DOMAIN F -> Int]
    BY <1>8, <1>10
  <2> QED
    BY <1>7, <2>1, OrderedLists
<1>15. PICK vals : vals = AtTurn(mine, turn)
  OBVIOUS
<1>16. vals = [k \in 1 .. m |-> F[p[k]]] /\ \A k \in 1 .. m : p[k] \in 1 .. m
  BY <1>8, <1>13, <1>14, <1>15 DEF Lists
<1>17. vals \in Seq(Nat) /\ Len(vals) = m /\ DOMAIN vals = 1 .. m
  <2>1. vals \in [1 .. m -> Nat]
    BY <1>7, <1>8, <1>16
  <2> QED
    BY <2>1
<1>18. \A k \in 1 .. m : \E i \in 1 .. n : turn < Len(mine[i].seq) /\ vals[k] = mine[i].seq[turn + 1].ctx
  BY <1>9, <1>16
<1>19. ASSUME NEW j \in 1 .. m, NEW k \in 1 .. m, j < k PROVE vals[j] <= vals[k]
  <2>1. Precedes(F, p[j], p[k])
    BY <1>8, <1>14, <1>19 DEF Lists
  <2>2. vals[j] = F[p[j]] /\ vals[k] = F[p[k]] /\ F[p[j]] \in Nat /\ F[p[k]] \in Nat
    BY <1>7, <1>8, <1>16, SMTT(30)
  <2> QED
    BY <2>1, <2>2 DEF Precedes
<1>20. Offsets(off, Pieces(mine, turn))
  BY <1>1, <1>5
<1> QED
  BY <1>2, <1>8, <1>15, <1>17, <1>18, <1>19, <1>20

(* Shorter sequences join to a shorter one.                                *)
LEMMA OffsetsBelow ==
  ASSUME NEW X, NEW ss \in Seq(Seq(X)), NEW tt \in Seq(Seq(X)), Len(ss) = Len(tt),
         NEW off, Offsets(off, ss), NEW up, Offsets(up, tt),
         \A i \in 1 .. Len(ss) : Len(ss[i]) <= Len(tt[i])
  PROVE  off[Len(ss) + 1] <= up[Len(ss) + 1]
<1>1. PICK n \in Nat : n = Len(ss) /\ n = Len(tt)
  OBVIOUS
<1>2. \A i \in 1 .. n : /\ Len(ss[i]) \in Nat /\ Len(tt[i]) \in Nat /\ Len(ss[i]) <= Len(tt[i])
                        /\ off[i + 1] = off[i] + Len(ss[i]) /\ up[i + 1] = up[i] + Len(tt[i])
  BY <1>1 DEF Offsets
<1>3. \A i \in 1 .. n + 1 : off[i] \in Nat /\ up[i] \in Nat
  BY <1>1 DEF Offsets
<1> DEFINE U == {q \in Nat : q \in 1 .. n + 1 /\ ~(off[q] <= up[q])}
<1>4. U = {}
  <2> SUFFICES ASSUME U # {} PROVE FALSE
    OBVIOUS
  <2>1. PICK q \in U : \A r \in U : q <= r
    BY LeastNat
  <2>2. q \in 1 .. n + 1 /\ ~(off[q] <= up[q])
    BY <2>1
  <2>3. q # 1
    BY <2>2 DEF Offsets
  <2>4. PICK r \in 1 .. n : r + 1 = q
    <3>1. q - 1 \in 1 .. n /\ (q - 1) + 1 = q
      BY <2>2, <2>3
    <3> QED
      BY <3>1
  <2>5. r \in 1 .. n + 1 /\ ~(q <= r)
    BY <2>4
  <2>6. off[r] <= up[r]
    BY <2>1, <2>5
  <2>7. /\ off[q] = off[r] + Len(ss[r]) /\ up[q] = up[r] + Len(tt[r])
        /\ Len(ss[r]) \in Nat /\ Len(tt[r]) \in Nat /\ Len(ss[r]) <= Len(tt[r])
    BY <1>2, <2>4
  <2>8. off[r] \in Nat /\ up[r] \in Nat
    BY <1>3, <2>5
  <2> HIDE DEF U
  <2> QED
    BY <2>2, <2>6, <2>7, <2>8, SMTT(30)
<1>5. n + 1 \in 1 .. n + 1
  OBVIOUS
<1> QED
  BY <1>1, <1>4, <1>5

(* Every trace is counted at turn 0, and none comes back.                  *)
LEMMA TracesEnd ==
  ASSUME NEW S, Traces(S), NEW mine \in Seq(S)
  PROVE  /\ Len(AtTurn(mine, 0)) = Len(mine)
         /\ \A k \in DOMAIN AtTurn(mine, 0) : AtTurn(mine, 0)[k] = 0
         /\ \A turn \in Nat \ {0} : Len(AtTurn(mine, turn)) <= Len(AtTurn(mine, turn - 1))
<1>1. PICK n \in Nat : n = Len(mine) /\ DOMAIN mine = 1 .. n
  OBVIOUS
<1>2. \A i \in 1 .. n : Traced(mine[i].seq)
  BY <1>1 DEF Traces
<1>3. \A i \in 1 .. n : Len(mine[i].seq) \in Nat \ {0} /\ mine[i].seq[1].ctx = 0
  BY <1>2 DEF Traced
<1>4. \A turn \in Nat : \A i \in 1 .. n :
        Len(Pieces(mine, turn)[i]) = IF turn < Len(mine[i].seq) THEN 1 ELSE 0
  BY <1>1, <1>2, PieceIs DEF Pieces
<1>5. \A turn \in Nat : Pieces(mine, turn) \in Seq(Seq(Nat))
  BY PiecesAre
<1>6. \A turn \in Nat : Len(Pieces(mine, turn)) = n
  BY <1>1, PiecesAre
<1>7. Len(AtTurn(mine, 0)) = n
  <2>1. PICK off : Offsets(off, Pieces(mine, 0)) /\ Len(AtTurn(mine, 0)) = off[n + 1]
    BY <1>1, TurnValues
  <2>2. \A i \in 1 .. n : off[i + 1] = off[i] + 1
    <3>1. PICK ss : ss = Pieces(mine, 0)
      OBVIOUS
    <3>2. \A i \in 1 .. n : 0 < Len(mine[i].seq)
      BY <1>3
    <3>3. \A i \in 1 .. n : Len(ss[i]) = IF 0 < Len(mine[i].seq) THEN 1 ELSE 0
      BY <1>4, <3>1
    <3>4. \A i \in 1 .. n : Len(ss[i]) = 1
      BY <3>2, <3>3
    <3>5. Len(ss) = n /\ \A i \in 1 .. Len(ss) : off[i + 1] = off[i] + Len(ss[i])
      BY <1>6, <2>1, <3>1 DEF Offsets
    <3> QED
      BY <3>4, <3>5
  <2>3. off[1] = 0 /\ \A i \in 1 .. n + 1 : off[i] \in Nat
    BY <1>6, <2>1 DEF Offsets
  <2> DEFINE U == {q \in Nat : q \in 1 .. n + 1 /\ off[q] # q - 1}
  <2>4. U = {}
    <3> SUFFICES ASSUME U # {} PROVE FALSE
      OBVIOUS
    <3>1. PICK q \in U : \A r \in U : q <= r
      BY LeastNat
    <3>2. q \in 1 .. n + 1 /\ off[q] # q - 1
      BY <3>1
    <3>3. q # 1
      BY <2>3, <3>2
    <3>4. PICK r \in 1 .. n : r + 1 = q
      <4>1. q - 1 \in 1 .. n /\ (q - 1) + 1 = q
        BY <3>2, <3>3
      <4> QED
        BY <4>1
    <3>5. r \in 1 .. n + 1 /\ ~(q <= r)
      BY <3>4
    <3>6. off[r] = r - 1
      BY <3>1, <3>5
    <3> HIDE DEF U
    <3> QED
      BY <2>2, <3>2, <3>4, <3>6
  <2>5. n + 1 \in 1 .. n + 1
    OBVIOUS
  <2> QED
    BY <2>1, <2>4, <2>5
<1>8. ASSUME NEW k \in DOMAIN AtTurn(mine, 0) PROVE AtTurn(mine, 0)[k] = 0
  <2>0. \A l \in DOMAIN AtTurn(mine, 0) : \E i \in 1 .. Len(mine) :
          0 < Len(mine[i].seq) /\ AtTurn(mine, 0)[l] = mine[i].seq[0 + 1].ctx
    BY TurnValues
  <2>1. PICK i \in 1 .. n : AtTurn(mine, 0)[k] = mine[i].seq[0 + 1].ctx
    BY <1>1, <2>0
  <2> QED
    BY <1>3, <2>1
<1>9. ASSUME NEW turn \in Nat \ {0} PROVE Len(AtTurn(mine, turn)) <= Len(AtTurn(mine, turn - 1))
  <2>1. PICK last \in Nat : last = turn - 1
    OBVIOUS
  <2>2. PICK off : Offsets(off, Pieces(mine, turn)) /\ Len(AtTurn(mine, turn)) = off[n + 1]
    BY <1>1, TurnValues
  <2>3. PICK up : Offsets(up, Pieces(mine, last)) /\ Len(AtTurn(mine, last)) = up[n + 1]
    BY <1>1, TurnValues
  <2>4. PICK ss \in Seq(Seq(Nat)) : ss = Pieces(mine, turn)
    BY <1>5
  <2>5. PICK tt \in Seq(Seq(Nat)) : tt = Pieces(mine, last)
    BY <1>5
  <2>6. Len(ss) = n /\ Len(tt) = n
    BY <1>6, <2>4, <2>5
  <2>7. \A i \in 1 .. n : Len(ss[i]) <= Len(tt[i])
    <3> SUFFICES ASSUME NEW i \in 1 .. n PROVE Len(ss[i]) <= Len(tt[i])
      OBVIOUS
    <3>1. /\ Len(ss[i]) = IF turn < Len(mine[i].seq) THEN 1 ELSE 0
          /\ Len(tt[i]) = IF last < Len(mine[i].seq) THEN 1 ELSE 0
      BY <1>4, <2>4, <2>5
    <3> QED
      BY <1>3, <2>1, <3>1
  <2>8. off[Len(ss) + 1] <= up[Len(ss) + 1]
    <3>1. Offsets(off, ss) /\ Offsets(up, tt) /\ Len(ss) = Len(tt)
      BY <2>2, <2>3, <2>4, <2>5, <2>6
    <3>2. \A i \in 1 .. Len(ss) : Len(ss[i]) <= Len(tt[i])
      BY <2>6, <2>7
    <3> QED
      BY <3>1, <3>2, OffsetsBelow
  <2> QED
    BY <2>1, <2>2, <2>3, <2>6, <2>8
<1> QED
  BY <1>1, <1>7, <1>8, <1>9

(* The points of some traces, and what is largest among them.              *)
PointsOf(mine) == UNION {ToSet(t.seq) : t \in ToSet(mine)}

LEMMA PointsFinite ==
  ASSUME NEW S, Traces(S), NEW mine \in Seq(S)
  PROVE  /\ IsFiniteSet(PointsOf(mine)) /\ \A p \in PointsOf(mine) : p.t \in Nat /\ p.ctx \in Nat
         /\ \A i \in DOMAIN mine : \A j \in 1 .. Len(mine[i].seq) : mine[i].seq[j] \in PointsOf(mine)
<1> DEFINE D == DOMAIN mine
           f == [i \in D |-> ToSet(mine[i].seq)]
<1>1. \A i \in D : Traced(mine[i].seq)
  BY DEF Traces
<1>2. ASSUME NEW i \in D
      PROVE  /\ IsFiniteSet(ToSet(mine[i].seq)) /\ \A p \in ToSet(mine[i].seq) : p.t \in Nat /\ p.ctx \in Nat
             /\ \A j \in 1 .. Len(mine[i].seq) : mine[i].seq[j] \in ToSet(mine[i].seq)
  <2>1. PICK seq : seq = mine[i].seq
    OBVIOUS
  <2>2. seq \in Seq(ToSet(seq)) /\ \A j \in 1 .. Len(seq) : seq[j].t = j - 1 /\ seq[j].ctx \in Nat
    BY <1>1, <2>1 DEF Traced
  <2>3. PICK n \in Nat : n = Len(seq) /\ DOMAIN seq = 1 .. n
    BY <2>2
  <2>4. \A j \in 1 .. n : seq[j].t \in Nat /\ seq[j].ctx \in Nat
    <3> SUFFICES ASSUME NEW j \in 1 .. n PROVE seq[j].t \in Nat /\ seq[j].ctx \in Nat
      OBVIOUS
    <3>1. seq[j].t = j - 1 /\ j - 1 \in Nat
      BY <2>2, <2>3
    <3> QED
      BY <2>2, <2>3, <3>1
  <2>5. ToSet(seq) = {seq[j] : j \in DOMAIN seq} /\ seq = [j \in DOMAIN seq |-> seq[j]]
    BY <2>2 DEF ToSet
  <2>6. IsFiniteSet(DOMAIN seq)
    BY <2>2, PlacesFinite
  <2>7. IsFiniteSet({seq[j] : j \in DOMAIN seq})
    BY <2>5, <2>6, ValuesFinite
  <2> QED
    BY <2>1, <2>3, <2>4, <2>5, <2>7
<1>3. IsFiniteSet(D)
  BY PlacesFinite
<1>4. DOMAIN f = D /\ f = [i \in D |-> f[i]] /\ \A i \in D : f[i] = ToSet(mine[i].seq)
  OBVIOUS
<1>5. PointsOf(mine) = UNION {f[i] : i \in D}
  BY DEF PointsOf, ToSet
<1> HIDE DEF D, f
<1>6. IsFiniteSet({f[i] : i \in D})
  BY <1>3, <1>4, ValuesFinite
<1>7. \A T \in {f[i] : i \in D} : IsFiniteSet(T)
  BY <1>2, <1>4
<1>8. IsFiniteSet(UNION {f[i] : i \in D})
  BY <1>6, <1>7, FS_UNION
<1>9. \A p \in UNION {f[i] : i \in D} : p.t \in Nat /\ p.ctx \in Nat
  BY <1>2, <1>4
<1>10. \A i \in D : \A j \in 1 .. Len(mine[i].seq) : mine[i].seq[j] \in UNION {f[k] : k \in D}
  BY <1>2, <1>4
<1> QED
  BY <1>5, <1>8, <1>9, <1>10 DEF D

LEMMA LargestAre ==
  ASSUME NEW S, Traces(S), NEW mine \in Seq(S)
  PROVE  /\ maxT(mine) \in Nat /\ maxCtx(mine) \in Nat
         /\ \A i \in DOMAIN mine : \A j \in 1 .. Len(mine[i].seq) : mine[i].seq[j].ctx <= maxCtx(mine)
<1> DEFINE P == PointsOf(mine)
           ft == [p \in P |-> p.t]
           fc == [p \in P |-> p.ctx]
           Y == {0} \cup {fc[p] : p \in P}
           Z == {0} \cup {ft[p] : p \in P}
<1>1. IsFiniteSet(P) /\ \A p \in P : p.t \in Nat /\ p.ctx \in Nat
  BY PointsFinite
<1>2. \A i \in DOMAIN mine : \A j \in 1 .. Len(mine[i].seq) : mine[i].seq[j] \in P
  BY PointsFinite
<1> HIDE DEF P
<1>3. DOMAIN ft = P /\ ft = [p \in P |-> ft[p]] /\ \A p \in P : ft[p] = p.t
  OBVIOUS
<1>4. DOMAIN fc = P /\ fc = [p \in P |-> fc[p]] /\ \A p \in P : fc[p] = p.ctx
  OBVIOUS
<1>5. maxCtx(mine) = Max(Y)
  <2>1. {fc[p] : p \in P} = {p.ctx : p \in P}
    OBVIOUS
  <2>2. maxCtx(mine) = Max({0} \cup {p.ctx : p \in P})
    BY DEF maxCtx, P, PointsOf
  <2> QED
    BY <2>1, <2>2
<1>6. maxT(mine) = Max(Z)
  <2>1. {ft[p] : p \in P} = {p.t : p \in P}
    OBVIOUS
  <2>2. maxT(mine) = Max({0} \cup {p.t : p \in P})
    BY DEF maxT, P, PointsOf
  <2> QED
    BY <2>1, <2>2
<1> HIDE DEF ft, fc
<1>7. IsFiniteSet({fc[p] : p \in P}) /\ IsFiniteSet({ft[p] : p \in P}) /\ IsFiniteSet({0})
  <2>1. IsFiniteSet({fc[p] : p \in P})
    BY <1>1, <1>4, ValuesFinite
  <2>2. IsFiniteSet({ft[p] : p \in P})
    BY <1>1, <1>3, ValuesFinite
  <2> QED
    BY <2>1, <2>2, FS_Singleton
<1>8. IsFiniteSet(Y) /\ IsFiniteSet(Z)
  BY <1>7, FS_Union
<1>9. Y \in SUBSET Nat /\ Z \in SUBSET Nat /\ 0 \in Y /\ 0 \in Z
  BY <1>1, <1>3, <1>4
<1>10. \A p \in P : p.ctx \in Y
  BY <1>4
<1> HIDE DEF Y, Z
<1>11. Y \in SUBSET Int /\ Z \in SUBSET Int /\ Y # {} /\ Z # {}
  BY <1>9
<1>12. Max(Y) \in Y /\ Max(Z) \in Z /\ \A x \in Y : x <= Max(Y)
  BY <1>8, <1>11, ExtremesAre
<1> QED
  BY <1>2, <1>5, <1>6, <1>9, <1>10, <1>12

(* The quantiles are values, in order.                                     *)
LEMMA QuantilesRise ==
  ASSUME NEW vals \in Seq(Nat), vals # <<>>,
         \A j, k \in DOMAIN vals : j < k => vals[j] <= vals[k]
  PROVE  LET median == vals[(Len(vals) \div 2) + 1]
         IN  /\ pick(vals, 1, 4) <= median /\ median <= pick(vals, 3, 4)
             /\ pick(vals, 3, 4) <= pick(vals, 9, 10)
             /\ \E k \in DOMAIN vals : median = vals[k]
             /\ \E k \in DOMAIN vals : pick(vals, 9, 10) = vals[k]
<1>1. PICK n \in Nat \ {0} : n = Len(vals) /\ DOMAIN vals = 1 .. n
  OBVIOUS
<1>2. \A j, k \in 1 .. n : j <= k => vals[j] <= vals[k]
  <2> SUFFICES ASSUME NEW j \in 1 .. n, NEW k \in 1 .. n, j <= k PROVE vals[j] <= vals[k]
    OBVIOUS
  <2>1. CASE j = k
    <3>1. vals[k] \in Nat
      BY <1>1
    <3> QED
      BY <2>1, <3>1
  <2>2. CASE j # k
    BY <1>1, <2>2
  <2> QED
    BY <2>1, <2>2
<1>3. PICK a \in Int : a = (n * 1) \div 4 /\ a * 4 <= n /\ n < a * 4 + 4
  BY Quotient
<1>4. PICK h \in Int : h = n \div 2 /\ h * 2 <= n /\ n < h * 2 + 2
  BY Quotient
<1>5. PICK c \in Int : c = (n * 3) \div 4 /\ c * 4 <= n * 3 /\ n * 3 < c * 4 + 4
  <2>1. n * 3 \in Int
    OBVIOUS
  <2> QED
    BY <2>1, Quotient
<1>6. PICK d \in Int : d = (n * 9) \div 10 /\ d * 10 <= n * 9 /\ n * 9 < d * 10 + 10
  <2>1. n * 9 \in Int
    OBVIOUS
  <2> QED
    BY <2>1, Quotient
<1>7. /\ Min({n, a + 1}) = IF n <= a + 1 THEN n ELSE a + 1
      /\ Min({n, c + 1}) = IF n <= c + 1 THEN n ELSE c + 1
      /\ Min({n, d + 1}) = IF n <= d + 1 THEN n ELSE d + 1
  BY MinOf
<1>8. PICK p \in 1 .. n : p = Min({n, a + 1}) /\ p <= h + 1
  BY <1>3, <1>4, <1>7
<1>9. PICK q \in 1 .. n : q = Min({n, c + 1}) /\ h + 1 <= q
  BY <1>4, <1>5, <1>7
<1>10. PICK r \in 1 .. n : r = Min({n, d + 1}) /\ q <= r
  BY <1>5, <1>6, <1>7, <1>9
<1>11. pick(vals, 1, 4) = vals[p] /\ pick(vals, 3, 4) = vals[q] /\ pick(vals, 9, 10) = vals[r]
  BY <1>1, <1>3, <1>5, <1>6, <1>8, <1>9, <1>10 DEF pick
<1>12. h + 1 \in 1 .. n /\ (Len(vals) \div 2) + 1 = h + 1
  BY <1>1, <1>4
<1>13. vals[p] <= vals[h + 1] /\ vals[h + 1] <= vals[q] /\ vals[q] <= vals[r]
  BY <1>2, <1>8, <1>9, <1>10, <1>12
<1> QED
  BY <1>1, <1>11, <1>12, <1>13

(* The statistics of a turn.                                               *)
LEMMA StatsAre ==
  ASSUME NEW S, Traces(S), NEW mine \in Seq(S), NEW turn \in 0 .. maxT(mine)
  PROVE  LET vals == AtTurn(mine, turn)
             s == perTurnStats(mine)[turn]
         IN  /\ s.count = Len(vals) /\ (vals = <<>> => s = NoStats)
             /\ vals # <<>> =>
                  /\ s.p25 <= s.median /\ s.median <= s.p75 /\ s.p75 <= s.p90
                  /\ s.median \in Nat /\ s.median <= maxCtx(mine)
                  /\ \E k \in DOMAIN vals : s.p90 = vals[k]
<1>1. PICK vals : vals = AtTurn(mine, turn)
  OBVIOUS
<1>2. PICK s : s = perTurnStats(mine)[turn]
  OBVIOUS
<1>3. turn \in Nat /\ maxCtx(mine) \in Nat
  BY LargestAre
<1>4. /\ vals \in Seq(Nat)
      /\ \A k \in DOMAIN vals : \E i \in 1 .. Len(mine) :
           turn < Len(mine[i].seq) /\ vals[k] = mine[i].seq[turn + 1].ctx
      /\ \A j, k \in DOMAIN vals : j < k => vals[j] <= vals[k]
  BY <1>1, <1>3, TurnValues
<1>5. s = IF vals = <<>> THEN NoStats
          ELSE [count |-> Len(vals), median |-> vals[(Len(vals) \div 2) + 1],
                p25 |-> pick(vals, 1, 4), p75 |-> pick(vals, 3, 4), p90 |-> pick(vals, 9, 10)]
  BY <1>1, <1>2 DEF perTurnStats
<1>6. CASE vals = <<>>
  BY <1>1, <1>2, <1>5, <1>6 DEF NoStats
<1>7. CASE vals # <<>>
  <2>1. PICK median : median = vals[(Len(vals) \div 2) + 1]
    OBVIOUS
  <2>2. /\ pick(vals, 1, 4) <= median /\ median <= pick(vals, 3, 4)
        /\ pick(vals, 3, 4) <= pick(vals, 9, 10)
        /\ \E k \in DOMAIN vals : median = vals[k]
        /\ \E k \in DOMAIN vals : pick(vals, 9, 10) = vals[k]
    BY <1>4, <1>7, <2>1, QuantilesRise
  <2>3. median \in Nat /\ median <= maxCtx(mine)
    <3>1. PICK k \in DOMAIN vals : median = vals[k]
      BY <2>2
    <3>2. vals[k] \in Nat
      BY <1>4
    <3>3. PICK i \in 1 .. Len(mine) : turn < Len(mine[i].seq) /\ vals[k] = mine[i].seq[turn + 1].ctx
      BY <1>4
    <3>4. i \in DOMAIN mine /\ Len(mine[i].seq) \in Nat
      BY DEF Traces, Traced
    <3>5. turn + 1 \in 1 .. Len(mine[i].seq)
      BY <1>3, <3>3, <3>4
    <3> QED
      BY <3>1, <3>2, <3>3, <3>4, <3>5, LargestAre
  <2>4. /\ s.count = Len(vals) /\ s.median = median /\ s.p25 = pick(vals, 1, 4)
        /\ s.p75 = pick(vals, 3, 4) /\ s.p90 = pick(vals, 9, 10)
    BY <1>5, <1>7, <2>1
  <2> QED
    BY <1>1, <1>2, <1>7, <2>2, <2>3, <2>4
<1> QED
  BY <1>6, <1>7

(* The axis reaches beyond what is drawn.                                  *)
LEMMA AxisReaches ==
  ASSUME NEW mine, maxCtx(mine) \in Nat, NEW cap \in Nat, NEW v \in Nat, v <= maxCtx(mine)
  PROVE  10000 * v <= yMaxOf(mine, cap)
<1>1. PICK m \in Nat : m = maxCtx(mine)
  OBVIOUS
<1>2. PICK c \in Int : c = capForModel(mine, cap) /\ 10500 * m <= c
  <2>1. 10000 * cap \in Int /\ 10500 * m \in Int
    OBVIOUS
  <2>2. Max({10000 * cap, 10500 * m}) = IF 10000 * cap <= 10500 * m THEN 10500 * m ELSE 10000 * cap
    BY <2>1, MaxOf
  <2> QED
    BY <1>1, <2>1, <2>2 DEF capForModel
<1>3. PICK a \in Int : a = (105 * c) \div 100 /\ 105 * c < a * 100 + 100
  <2>1. 105 * c \in Int
    OBVIOUS
  <2> QED
    BY <2>1, Quotient
<1>4. PICK d \in Int : d = c \div 10
  BY Quotient
<1>5. PICK e \in Int : e = Max({11000 * m, d}) /\ 11000 * m <= e
  <2>1. 11000 * m \in Int
    OBVIOUS
  <2>2. Max({11000 * m, d}) = IF 11000 * m <= d THEN d ELSE 11000 * m
    BY <2>1, MaxOf
  <2> QED
    BY <2>1, <2>2
<1>6. yMaxOf(mine, cap) = IF a <= e THEN a ELSE e
  <2>1. yMaxOf(mine, cap) = Min({a, e})
    BY <1>1, <1>2, <1>3, <1>4, <1>5 DEF yMaxOf
  <2> QED
    BY <2>1, MinOf
<1>7. 10000 * v <= 10000 * m
  BY <1>1
<1> QED
  BY <1>2, <1>3, <1>5, <1>6, <1>7

(* The models of traces, and the traces of each.                           *)
LEMMA CtxModelsAre ==
  ASSUME NEW S, NEW traces \in Seq(S)
  PROVE  /\ ctxModels(traces) \in Seq(ToSet(ctxModels(traces)))
         /\ \A m \in ToSet(ctxModels(traces)) :
              byModel(traces, m) \in Seq(S) /\ Len(byModel(traces, m)) \in Nat \ {0}
<1> DEFINE f == [i \in DOMAIN traces |-> traces[i].model]
           M == {t.model : t \in S}
<1>1. PICK n \in Nat : n = Len(traces) /\ DOMAIN traces = 1 .. n
  OBVIOUS
<1>2. PICK models : models = Apply(traces, LAMBDA t : t.model)
  OBVIOUS
<1>3. models = f /\ f \in Seq(M) /\ f \in [1 .. n -> M]
  <2>1. f \in [1 .. n -> M]
    BY <1>1
  <2>2. models = Computed(f)
    BY <1>2 DEF Apply
  <2> HIDE DEF f, M
  <2> QED
    BY <2>1, <2>2, ComputedIs
<1>4. ASSUME NEW k
      PROVE  /\ byModel(traces, k) \in Seq(S) /\ Len(byModel(traces, k)) \in Nat
             /\ k \in ToSet(models) => Len(byModel(traces, k)) # 0
  <2> DEFINE J == {i \in DOMAIN traces : traces[i].model = k}
             own == At(traces, J)
  <2>1. byModel(traces, k) = own
    BY DEF byModel, Where
  <2>2. J \in SUBSET DOMAIN traces /\ {traces[i] : i \in J} \subseteq S
    OBVIOUS
  <2>3. k \in ToSet(models) => J # {}
    BY <1>3 DEF ToSet
  <2> HIDE DEF J
  <2>4. own \in Seq({traces[i] : i \in J}) /\ \A i \in J : \E l \in DOMAIN own : own[l] = traces[i]
    BY <2>2, AtIs
  <2> HIDE DEF own
  <2>5. own \in Seq(S)
    BY <2>2, <2>4
  <2>6. J # {} => Len(own) # 0
    BY <2>4, <2>5
  <2> QED
    BY <2>1, <2>3, <2>5, <2>6
<1>5. PICK keys : keys = Distinct(models)
  OBVIOUS
<1>6. Enumerates(keys, ToSet(models))
  <2> HIDE DEF f, M
  <2> QED
    BY <1>3, <1>5, DistinctIs
<1> DEFINE rank == [i \in DOMAIN keys |-> -Len(byModel(traces, keys[i]))]
<1>7. rank \in [DOMAIN keys -> Int]
  BY <1>4
<1>8. PICK l \in Nat : l = Len(keys) /\ DOMAIN keys = 1 .. l
  BY <1>6 DEF Enumerates
<1>9. ctxModels(traces) = Ordered(keys, Computed(rank))
  BY <1>2, <1>5 DEF ctxModels, SortedBy
<1> HIDE DEF rank
<1>10. Computed(rank) = rank
  BY <1>7, <1>8, ComputedIs
<1>11. Enumerates(ctxModels(traces), ToSet(models))
  BY <1>6, <1>7, <1>9, <1>10, OrderedIs
<1>12. ctxModels(traces) \in Seq(ToSet(ctxModels(traces))) /\ ToSet(ctxModels(traces)) \subseteq ToSet(models)
  BY <1>11 DEF Enumerates, ToSet
<1> QED
  BY <1>4, <1>12

(* What the comparison says of a model's turn.                             *)
LEMMA ComparisonCounts ==
  ASSUME NEW S, NEW traces \in Seq(S), NEW checked, NEW turn, NEW m,
         turn \in DOMAIN perTurnStats(byModel(traces, m)),
         NEW i \in DOMAIN ComparisonTip(traces, checked, turn),
         ComparisonTip(traces, checked, turn)[i].model = m
  PROVE  ComparisonTip(traces, checked, turn)[i].active = perTurnStats(byModel(traces, m))[turn].count
<1> DEFINE row(k) == [model |-> k, files |-> Len(byModel(traces, k)),
                      stats |-> perTurnStats(byModel(traces, k))]
           tip(s) == [model |-> s.model, files |-> s.files,
                      active |-> IF turn \in DOMAIN s.stats THEN s.stats[turn].count ELSE 0]
           f == [j \in DOMAIN cmpModels(traces, checked) |-> row(cmpModels(traces, checked)[j])]
           g == [j \in DOMAIN ComparisonRow(traces, checked) |-> tip(ComparisonRow(traces, checked)[j])]
<1>1. PICK n \in Nat : DOMAIN cmpModels(traces, checked) = 1 .. n
  <2> DEFINE models == ctxModels(traces)
             J == {j \in DOMAIN models : models[j] \in ctxSel(traces, checked)}
  <2>1. cmpModels(traces, checked) = At(models, J) /\ J \in SUBSET DOMAIN models
    BY DEF cmpModels, Where
  <2>2. models \in Seq(ToSet(models))
    BY CtxModelsAre
  <2> HIDE DEF models, J
  <2>3. At(models, J) \in Seq({models[j] : j \in J})
    BY <2>1, <2>2, AtIs
  <2> QED
    BY <2>1, <2>3
<1>2. ComparisonRow(traces, checked) = Computed(f)
  BY DEF ComparisonRow, Apply
<1>3. ComparisonTip(traces, checked, turn) = Computed(g)
  BY DEF ComparisonTip, Apply
<1>4. ComparisonRow(traces, checked) = f /\ DOMAIN f = 1 .. n
  <2>1. f \in [1 .. n -> {f[j] : j \in 1 .. n}]
    BY <1>1
  <2>2. DOMAIN f = 1 .. n
    BY <1>1
  <2> HIDE DEF f
  <2> QED
    BY <1>2, <2>1, <2>2, ComputedIs
<1>5. ComparisonTip(traces, checked, turn) = g /\ DOMAIN g = 1 .. n
  <2>1. g \in [1 .. n -> {g[j] : j \in 1 .. n}]
    BY <1>4
  <2>2. DOMAIN g = 1 .. n
    BY <1>4
  <2> HIDE DEF g
  <2> QED
    BY <1>3, <2>1, <2>2, ComputedIs
<1>6. g[i] = tip(f[i]) /\ i \in 1 .. n
  BY <1>4, <1>5
<1>7. PICK k : f[i] = row(k)
  BY <1>1, <1>6
<1>8. f[i].model = k /\ f[i].stats = perTurnStats(byModel(traces, k))
  BY <1>7
<1> HIDE DEF f, g, row
<1>9. g[i].model = k
  BY <1>6, <1>8
<1>10. k = m
  BY <1>5, <1>9
<1>11. g[i].active = IF turn \in DOMAIN f[i].stats THEN f[i].stats[turn].count ELSE 0
  BY <1>6
<1> QED
  BY <1>5, <1>8, <1>10, <1>11

(* The traces of a model drawn over their turns.                           *)
LEMMA TurnStatsOfModel ==
  ASSUME NEW S, Traces(S), NEW traces \in Seq(S), NEW m \in ToSet(ctxModels(traces)), Cap \in Nat
  PROVE  TurnStatsOf(traces, m)
<1> DEFINE own == byModel(traces, m)
<1>1. PICK mine : mine = own
  OBVIOUS
<1>2. mine \in Seq(S) /\ Len(mine) \in Nat \ {0}
  BY <1>1, CtxModelsAre
<1>3. maxT(mine) \in Nat /\ maxCtx(mine) \in Nat
  BY <1>2, LargestAre
<1>4. PICK stats : stats = perTurnStats(mine)
  OBVIOUS
<1>5. DOMAIN stats = 0 .. maxT(mine)
  BY <1>4 DEF perTurnStats
<1>6. PICK panel : panel = SubPanel(mine, Cap)
  OBVIOUS
<1>7. DOMAIN panel.median = {turn \in DOMAIN stats : stats[turn] # NoStats}
      /\ \A turn \in DOMAIN stats : panel.active[turn] = stats[turn].count
  BY <1>4, <1>6 DEF SubPanel
<1>8. \A turn \in 0 .. maxT(mine) :
        /\ stats[turn].count = Len(AtTurn(mine, turn)) /\ (AtTurn(mine, turn) = <<>> => stats[turn] = NoStats)
        /\ AtTurn(mine, turn) # <<>> =>
             /\ stats[turn].p25 <= stats[turn].median /\ stats[turn].median <= stats[turn].p75
             /\ stats[turn].p75 <= stats[turn].p90
             /\ stats[turn].median \in Nat /\ stats[turn].median <= maxCtx(mine)
             /\ \E k \in DOMAIN AtTurn(mine, turn) : stats[turn].p90 = AtTurn(mine, turn)[k]
  BY <1>2, <1>4, StatsAre
<1>9. /\ Len(AtTurn(mine, 0)) = Len(mine)
      /\ \A k \in DOMAIN AtTurn(mine, 0) : AtTurn(mine, 0)[k] = 0
      /\ \A turn \in Nat \ {0} : Len(AtTurn(mine, turn)) <= Len(AtTurn(mine, turn - 1))
  BY <1>2, TracesEnd
<1>10. stats[0].count = Len(mine) /\ stats[0].p90 = 0
  <2>1. 0 \in 0 .. maxT(mine)
    BY <1>3
  <2>2. AtTurn(mine, 0) # <<>>
    BY <1>2, <1>9
  <2> QED
    BY <1>8, <1>9, <2>1, <2>2
<1>11. ASSUME NEW turn \in 1 .. maxT(mine) PROVE panel.active[turn] <= panel.active[turn - 1]
  <2>1. turn \in 0 .. maxT(mine) /\ turn - 1 \in 0 .. maxT(mine) /\ turn \in Nat \ {0}
    BY <1>3
  <2>2. panel.active[turn] = Len(AtTurn(mine, turn)) /\ panel.active[turn - 1] = Len(AtTurn(mine, turn - 1))
    BY <1>5, <1>7, <1>8, <2>1
  <2> QED
    BY <1>9, <2>1, <2>2
<1>12. ASSUME NEW turn \in DOMAIN panel.median
       PROVE  /\ stats[turn].p25 <= stats[turn].median /\ stats[turn].median <= stats[turn].p75
              /\ stats[turn].p75 <= stats[turn].p90 /\ panel.median[turn] = stats[turn].median
              /\ \A i \in DOMAIN ComparisonTip(traces, over, turn) :
                   ComparisonTip(traces, over, turn)[i].model = m
                     => ComparisonTip(traces, over, turn)[i].active = SubPanelTip(mine, turn).count
  <2>1. turn \in 0 .. maxT(mine) /\ stats[turn] # NoStats
    BY <1>5, <1>7
  <2>2. AtTurn(mine, turn) # <<>>
    BY <1>8, <2>1
  <2>3. /\ stats[turn].p25 <= stats[turn].median /\ stats[turn].median <= stats[turn].p75
        /\ stats[turn].p75 <= stats[turn].p90
        /\ stats[turn].median \in Nat /\ stats[turn].median <= maxCtx(mine)
    BY <1>8, <2>1, <2>2
  <2>4. 10000 * stats[turn].median <= yMaxOf(mine, Cap)
    BY <1>3, <2>3, AxisReaches
  <2>5. panel.median[turn] = IF 10000 * stats[turn].median <= yMaxOf(mine, Cap)
                             THEN stats[turn].median ELSE yMaxOf(mine, Cap) \div 10000
    BY <1>4, <1>5, <1>6, <2>1 DEF SubPanel
  <2>6. SubPanelTip(mine, turn) = stats[turn]
    <3>1. PICK t \in Nat : t = maxT(mine)
      BY <1>3
    <3>2. Max({1, t}) = IF 1 <= t THEN t ELSE 1
      BY MaxOf
    <3>3. ~(turn > Max({1, maxT(mine)}))
      BY <2>1, <3>1, <3>2
    <3> QED
      BY <1>4, <1>5, <2>1, <3>3 DEF SubPanelTip
  <2>7. ASSUME NEW i \in DOMAIN ComparisonTip(traces, over, turn),
               ComparisonTip(traces, over, turn)[i].model = m
        PROVE  ComparisonTip(traces, over, turn)[i].active = SubPanelTip(mine, turn).count
    <3>1. turn \in DOMAIN perTurnStats(own)
      BY <1>1, <1>4, <1>5, <2>1
    <3>2. ComparisonTip(traces, over, turn)[i].active = perTurnStats(own)[turn].count
      BY <2>7, <3>1, ComparisonCounts
    <3> QED
      BY <1>1, <1>4, <2>6, <3>2
  <2> QED
    BY <2>3, <2>4, <2>5, <2>7
<1> QED
  BY <1>1, <1>4, <1>6, <1>10, <1>11, <1>12 DEF TurnStatsOf

(* Every trace is counted at turn 0, none comes back later, the quantiles  *)
(* are in order, and the comparison counts what the sub-panel counts.      *)
THEOREM TurnsSound == SpecPanels => []TurnStatsSound
<1>1. ASSUME TypeOKPanels, kind = "context" PROVE \A b \in Drawn : ContextRows(b)
  <2>1. kind \in Kind /\ body \in Answers[kind] \cup {Empty}
    BY BodyIs, <1>1 DEF TypeOKPanels
  <2> QED
    BY <1>1, <2>1, PanelsAssumption DEF Drawn
<1>2. ASSUME TypeOKPanels PROVE TurnStatsSound
  <2> SUFFICES ASSUME kind = "context", NEW b \in Drawn, NEW m \in ToSet(ctxModels(TracesOf(b)))
               PROVE  TurnStatsOf(TracesOf(b), m)
    BY DEF TurnStatsSound
  <2>1. PICK S : Traces(S) /\ TracesOf(b) \in Seq(S)
    BY <1>1, <1>2, TracesAre
  <2>2. Cap \in Nat
    BY PanelsAssumption
  <2> QED
    BY <2>1, <2>2, TurnStatsOfModel
<1> QED
  BY <1>2, PanelTypeCorrect, PTL

(***************************************************************************)
(* What the tooltips say: the time series                                  *)
(***************************************************************************)
(* The pointer stops behind the events before the end of the bin.          *)
LEMMA StopsAt ==
  ASSUME NEW E, NEW events \in Seq(E), \A e \in E : e.ts \in Int, NEW end \in Int,
         \A i, j \in DOMAIN events : i < j => events[i].ts <= events[j].ts
  PROVE  LET u == Max({j \in 0 .. Len(events) : \A i \in 1 .. j : events[i].ts < end})
         IN  u \in 0 .. Len(events) /\ {i \in DOMAIN events : events[i].ts < end} = 1 .. u
<1> DEFINE S == {j \in 0 .. Len(events) : \A i \in 1 .. j : events[i].ts < end}
           u == Max(S)
<1>1. Len(events) \in Nat /\ DOMAIN events = 1 .. Len(events) /\ \A i \in DOMAIN events : events[i].ts \in Int
  OBVIOUS
<1>2. 0 \in S
  BY <1>1
<1>3. IsFiniteSet(S) /\ S \in SUBSET Int
  <2>1. IsFiniteSet(0 .. Len(events))
    BY <1>1, FS_Interval, 0 \in Int
  <2> QED
    BY <2>1, FS_Subset
<1>4. u \in S /\ \A j \in S : j <= u
  <2> HIDE DEF S
  <2> QED
    BY <1>2, <1>3, ExtremesAre
<1>5. ASSUME NEW i \in DOMAIN events, events[i].ts < end PROVE i \in 1 .. u
  <2>1. \A j \in 1 .. i : events[j].ts < end
    <3> SUFFICES ASSUME NEW j \in 1 .. i PROVE events[j].ts < end
      OBVIOUS
    <3>1. j \in DOMAIN events /\ (j = i \/ j < i)
      BY <1>1, <1>5
    <3>2. events[j].ts <= events[i].ts
      BY <1>1, <1>5, <3>1
    <3> QED
      BY <1>1, <1>5, <3>1, <3>2
  <2>2. i \in S
    BY <1>1, <1>5, <2>1
  <2> HIDE DEF S, u
  <2> QED
    BY <1>1, <1>4, <1>5, <2>2
<1>6. \A i \in 1 .. u : i \in DOMAIN events /\ events[i].ts < end
  <2> SUFFICES ASSUME NEW i \in 1 .. u PROVE i \in DOMAIN events /\ events[i].ts < end
    OBVIOUS
  <2>1. u \in 0 .. Len(events) /\ \A j \in 1 .. u : events[j].ts < end
    BY <1>4
  <2> HIDE DEF u
  <2> QED
    BY <1>1, <2>1
<1> HIDE DEF u
<1>7. {i \in DOMAIN events : events[i].ts < end} = 1 .. u
  BY <1>5, <1>6
<1>8. u \in 0 .. Len(events)
  BY <1>4
<1> QED
  BY <1>7, <1>8 DEF u, S

(* What the events cost together, up to some place.                        *)
CostsOf(events) == [i \in DOMAIN events |-> events[i].cost]
LEMMA FrontCost ==
  ASSUME NEW E, NEW events \in Seq(E), NEW u \in 0 .. Len(events)
  PROVE  SumOver(SubSeq(events, 1, u), LAMBDA e : e.cost) = SumFunctionOnSet(CostsOf(events), 1 .. u)
<1> DEFINE front == SubSeq(events, 1, u)
           f == [i \in DOMAIN front |-> front[i].cost]
<1>1. Len(events) \in Nat /\ DOMAIN events = 1 .. Len(events)
  OBVIOUS
<1>2. DOMAIN front = 1 .. u /\ \A i \in 1 .. u : front[i] = events[i]
  BY <1>1
<1>3. IsFiniteSet(1 .. u)
  BY FS_Interval, 1 \in Int
<1>4. SumOver(front, LAMBDA e : e.cost) = SumFunctionOnSet(f, DOMAIN front)
  BY DEF SumOver, SumEach
<1>5. \A i \in 1 .. u : f[i] = CostsOf(events)[i]
  BY <1>1, <1>2 DEF CostsOf
<1> HIDE DEF f, front
<1>6. SumFunctionOnSet(f, 1 .. u) = SumFunctionOnSet(CostsOf(events), 1 .. u)
  BY <1>3, <1>5, SumExtensional
<1> QED
  BY <1>2, <1>4, <1>6 DEF front

LEMMA CostBefore ==
  ASSUME NEW events, NEW end, NEW u \in Nat, {i \in DOMAIN events : events[i].ts < end} = 1 .. u
  PROVE  SumWhere(events, LAMBDA e : e.ts < end, LAMBDA e : e.cost) = SumFunctionOnSet(CostsOf(events), 1 .. u)
<1> DEFINE f == [i \in 1 .. u |-> events[i].cost]
<1>1. SumWhere(events, LAMBDA e : e.ts < end, LAMBDA e : e.cost) = SumFunctionOnSet(f, 1 .. u)
  BY DEF SumWhere, SumEach
<1>2. IsFiniteSet(1 .. u)
  BY FS_Interval, 1 \in Int
<1>3. \A i \in 1 .. u : f[i] = CostsOf(events)[i]
  BY DEF CostsOf
<1> HIDE DEF f
<1> QED
  BY <1>1, <1>2, <1>3, SumExtensional

(* The bins leave no time of the range out.                                *)
LEMMA BinsCover ==
  ASSUME NEW range, range.start \in Int, range.end \in Int, range.start < range.end,
         NEW bin \in Nat \ {0}, NEW ts \in range.start .. range.end, NEW bins,
         DOMAIN bins = DOMAIN boundedTimeIntervals(range, bin),
         Len(bins) = Len(boundedTimeIntervals(range, bin)),
         \A k \in DOMAIN bins : /\ bins[k].start = boundedTimeIntervals(range, bin)[k].start
                                /\ bins[k].end = boundedTimeIntervals(range, bin)[k].end
  PROVE  \E k \in DOMAIN bins : k \in timeBinIndexAtX(bins, ts)
<1> DEFINE a == range.start
           z == range.end
           n == (z - a + bin - 1) \div bin
           q == (ts - a) \div bin
           k == IF ts < z THEN q + 1 ELSE n
<1>3. a \in Int /\ z \in Int /\ a < z /\ bin \in Nat /\ bin > 0 /\ ts \in Int /\ a <= ts /\ ts <= z
  OBVIOUS
<1> HIDE DEF a, z
<1>1. /\ n \in Int /\ n * bin \in Int
      /\ n * bin <= z - a + bin - 1 /\ z - a + bin - 1 < n * bin + bin
  BY <1>3, Quotient
<1>2. q \in Int /\ q * bin \in Int /\ q * bin <= ts - a /\ ts - a < q * bin + bin
  BY <1>3, Quotient
<1> HIDE DEF n, q
<1>4. n * bin >= z - a /\ (n - 1) * bin < z - a
  <2>1. (n - 1) * bin = n * bin - bin
    BY <1>1, <1>3
  <2>2. n * bin \in Int
    BY <1>1, <1>3
  <2> QED
    BY <1>1, <1>3, <2>1, <2>2
<1>5. n >= 1
  <2> SUFFICES ASSUME n <= 0 PROVE FALSE
    BY <1>1
  <2>1. n * bin <= 0
    BY <1>1, <1>3
  <2> QED
    BY <1>1, <1>3, <1>4, <2>1
<1>6. q >= 0
  <2> SUFFICES ASSUME q <= -1 PROVE FALSE
    BY <1>2
  <2>1. (q + 1) * bin <= 0
    BY <1>2, <1>3
  <2>2. (q + 1) * bin = q * bin + bin
    BY <1>2, <1>3
  <2> QED
    BY <1>2, <1>3, <2>1, <2>2
<1>7. ts < z => q < n
  <2> SUFFICES ASSUME ts < z, n <= q PROVE FALSE
    BY <1>1, <1>2
  <2>1. n * bin <= q * bin
    BY <1>1, <1>2, <1>3
  <2> QED
    BY <1>1, <1>2, <1>3, <1>4, <2>1
<1>8. Len(boundedTimeIntervals(range, bin)) = n /\ DOMAIN boundedTimeIntervals(range, bin) = 1 .. n
  BY <1>1, <1>5 DEF boundedTimeIntervals, n, a, z
<1>9. k \in 1 .. n
  BY <1>1, <1>2, <1>5, <1>6, <1>7, SMTT(30)
<1>10. bins[k].start = a + (k - 1) * bin /\ bins[k].end = Min({a + k * bin, z})
  BY <1>8, <1>9 DEF boundedTimeIntervals, n, a, z
<1>11. Len(bins) = n
  BY <1>8
<1>12. CASE ts < z
  <2>1. k = q + 1 /\ k * bin = q * bin + bin /\ (k - 1) * bin = q * bin
    BY <1>2, <1>3, <1>12
  <2> HIDE DEF k
  <2>2. bins[k].start <= ts
    BY <1>2, <1>3, <1>10, <2>1
  <2>3. ts < a + k * bin /\ a + k * bin \in Int
    BY <1>2, <1>3, <2>1
  <2>4. bins[k].end \in {a + k * bin, z}
    BY <1>3, <1>10, <2>3, MinOf
  <2> QED
    BY <1>8, <1>9, <1>12, <2>2, <2>3, <2>4 DEF timeBinIndexAtX
<1>13. CASE ts = z
  <2>1. k = n
    BY <1>13
  <2>2. a + n * bin >= z /\ a + n * bin \in Int /\ a + (n - 1) * bin <= z
    BY <1>1, <1>3, <1>4
  <2> HIDE DEF k
  <2>3. bins[k].end = z
    BY <1>3, <1>10, <2>1, <2>2, MinOf
  <2> QED
    BY <1>8, <1>9, <1>10, <1>11, <1>13, <2>1, <2>2, <2>3 DEF timeBinIndexAtX
<1> QED
  BY <1>3, <1>12, <1>13

(* There is a range, and a bin has a width.                                *)
LEMMA RangeIs ==
  ASSUME NEW b, ChartBody(b), b.events # <<>>
  PROVE  rangeOf(b).start \in Int /\ rangeOf(b).end \in Int /\ rangeOf(b).start < rangeOf(b).end
<1> DEFINE events == b.events
           first == events[1].ts
           last == events[Len(events)].ts
<1>1. events \in Seq(ToSet(events)) /\ \A e \in ToSet(events) : e.ts \in Int
  BY DEF ChartBody, EventRows
<1>2. Len(events) \in Nat \ {0} /\ 1 \in DOMAIN events /\ Len(events) \in DOMAIN events
  <2> HIDE DEF events
  <2>1. events \in Seq(ToSet(events)) /\ events # <<>>
    BY <1>1 DEF events
  <2> QED
    BY <2>1
<1>3. first \in Int /\ last \in Int
  BY <1>1, <1>2 DEF ToSet
<1>4. first <= last
  <2>1. Len(events) = 1 \/ 1 < Len(events)
    <3> HIDE DEF events
    <3> QED
      BY <1>2
  <2> QED
    BY <1>2, <1>3, <2>1 DEF ChartBody, ByTime
<1>5. b.bucket \in Nat /\ b.bucket % 2 = 0
  BY DEF ChartBody
<1>6. CASE b.bucket > 0
  <2>1. rangeOf(b) = [start |-> first - b.bucket \div 2, end |-> last + b.bucket \div 2]
    BY <1>6 DEF rangeOf, backendAggregateRange
  <2> HIDE DEF first, last
  <2>2. b.bucket \div 2 \in Int /\ b.bucket \div 2 >= 1
    BY <1>5, <1>6
  <2> QED
    BY <1>3, <1>4, <2>1, <2>2
<1>7. CASE b.bucket = 0
  <2> DEFINE wide == (last - first) \div 50
             pad == Max({FilePad, wide})
  <2>1. rangeOf(b) = [start |-> first - pad, end |-> last + pad]
    BY <1>7 DEF rangeOf, fileRange
  <2> HIDE DEF first, last
  <2>2. wide \in Int
    BY <1>3, Quotient
  <2>3. FilePad \in Int /\ FilePad >= 1
    BY ChartsAssumption
  <2> HIDE DEF wide
  <2>4. pad \in Int /\ pad >= 1
    BY <2>2, <2>3, MaxOf
  <2> HIDE DEF pad
  <2> QED
    BY <1>3, <1>4, <2>1, <2>4
<1> QED
  BY <1>5, <1>6, <1>7

LEMMA BinIs ==
  ASSUME NEW range, NEW bucket \in Nat
  PROVE  dashboardBinMs(range, bucket) \in Nat \ {0}
<1> DEFINE fits == {b \in ToSet(NiceBins) : range.end - range.start >= MinBins * b}
           S == {NiceBins[1], bucket} \cup fits
<1>1. NiceBins \in Seq(Nat) /\ Len(NiceBins) > 0 /\ NiceBins[1] > 0
  BY ChartsAssumption
<1>2. 1 \in DOMAIN NiceBins /\ NiceBins[1] \in Nat /\ ToSet(NiceBins) \subseteq Nat
  BY <1>1 DEF ToSet
<1>3. IsFiniteSet(ToSet(NiceBins))
  <2>1. IsFiniteSet(DOMAIN NiceBins)
    BY <1>1, PlacesFinite
  <2>2. ToSet(NiceBins) = {NiceBins[i] : i \in DOMAIN NiceBins}
    BY DEF ToSet
  <2> QED
    BY <1>1, <2>1, <2>2, ValuesFinite
<1>4. IsFiniteSet(S)
  <2>1. IsFiniteSet(fits)
    BY <1>3, FS_Subset
  <2>2. IsFiniteSet({NiceBins[1]} \cup {bucket})
    BY FS_Singleton, FS_Union
  <2>3. S = ({NiceBins[1]} \cup {bucket}) \cup fits
    OBVIOUS
  <2> HIDE DEF fits, S
  <2> QED
    BY <2>1, <2>2, <2>3, FS_Union
<1>5. S \in SUBSET Nat /\ S # {} /\ NiceBins[1] \in S
  BY <1>2
<1>6. dashboardBinMs(range, bucket) = Max(S)
  BY DEF dashboardBinMs
<1> HIDE DEF S
<1>7. S \in SUBSET Int
  BY <1>5
<1>8. Max(S) \in S /\ NiceBins[1] <= Max(S)
  BY <1>4, <1>5, <1>7, ExtremesAre
<1>9. Max(S) \in Nat /\ NiceBins[1] \in Nat
  BY <1>2, <1>5, <1>8
<1> QED
  BY <1>1, <1>6, <1>8, <1>9

(* What the tooltip says has been spent by the end of a bin, was.          *)
LEMMA SeriesTipAgrees ==
  ASSUME NEW b, ChartBody(b), b.events # <<>>
  PROVE  SeriesTipRight(b)
<1> DEFINE events == b.events
           E == ToSet(events)
           range == rangeOf(b)
           bin == dashboardBinMs(range, b.bucket)
           cost(e) == e.cost
           data == TimeSeries(events, range, bin, cost).data
           cuts == boundedTimeIntervals(range, bin)
           n == Len(cuts)
           upTo == [k \in 0 .. n |->
                     IF k = 0 THEN 0
                     ELSE Max({j \in 0 .. Len(events) : \A i \in 1 .. j : events[i].ts < cuts[k].end})]
<1>1. /\ events \in Seq(E) /\ \A e \in E : e.ts \in Int
      /\ \A i, j \in DOMAIN events : i < j => events[i].ts <= events[j].ts
  BY DEF ChartBody, EventRows, ByTime
<1>2. range.start \in Int /\ range.end \in Int /\ range.start < range.end
  BY RangeIs
<1>3. bin \in Nat \ {0}
  BY BinIs DEF ChartBody
<1>4. n \in Nat /\ DOMAIN cuts = 1 .. n /\ \A k \in DOMAIN cuts : cuts[k].end \in Int
  <2> HIDE DEF range, bin
  <2> DEFINE w == range.end - range.start + bin - 1
             m == w \div bin
  <2>6. w \in Int
    BY <1>2, <1>3
  <2>7. m \in Int /\ w < m * bin + bin
    <3> HIDE DEF w
    <3> QED
      BY <1>3, <2>6, Quotient
  <2>1. m \in Int /\ range.end - range.start + bin - 1 < m * bin + bin
    BY <2>7
  <2>2. m >= 0
    <3> SUFFICES ASSUME m <= -1 PROVE FALSE
      BY <2>1
    <3> HIDE DEF m
    <3>1. (m + 1) * bin <= 0 /\ (m + 1) * bin = m * bin + bin /\ m * bin \in Int
      BY <1>3, <2>1
    <3> QED
      BY <1>2, <1>3, <2>1, <3>1
  <2>3. DOMAIN cuts = 1 .. m /\ m \in Nat
    BY <2>1, <2>2 DEF boundedTimeIntervals
  <2>4. n = m
    BY <2>3
  <2>5. ASSUME NEW k \in DOMAIN cuts PROVE cuts[k].end \in Int
    <3>1. k \in Int /\ cuts[k].end = Min({range.start + k * bin, range.end})
      BY <2>3, <2>5 DEF boundedTimeIntervals
    <3>2. range.start + k * bin \in Int
      BY <1>2, <1>3, <3>1
    <3> QED
      BY <1>2, <3>1, <3>2, MinOf
  <2> HIDE DEF m, cuts
  <2> QED
    BY <2>3, <2>4, <2>5
<1>5. /\ data.bins = [k \in DOMAIN cuts |->
                       [start |-> cuts[k].start, end |-> cuts[k].end,
                        sum |-> SumOver(SubSeq(events, upTo[k - 1] + 1, upTo[k]), cost),
                        count |-> upTo[k] - upTo[k - 1]]]
      /\ data.cum = [k \in 0 .. n |-> SumOver(SubSeq(events, 0 + 1, upTo[k]), cost)]
  BY DEF TimeSeries, buildTimeSeriesData
<1> DEFINE bins == data.bins
<1>6. /\ DOMAIN bins = 1 .. n /\ Len(bins) = n
      /\ \A k \in 1 .. n : bins[k].start = cuts[k].start /\ bins[k].end = cuts[k].end
  <2> HIDE DEF cuts, n, upTo, data, events
  <2>1. bins = [k \in 1 .. n |->
                       [start |-> cuts[k].start, end |-> cuts[k].end,
                        sum |-> SumOver(SubSeq(events, upTo[k - 1] + 1, upTo[k]), cost),
                        count |-> upTo[k] - upTo[k - 1]]]
    BY <1>4, <1>5 
  <2> HIDE DEF bins
  <2>2. DOMAIN bins = 1 .. n
    BY <2>1
  <2>3. \A k \in 1 .. n : bins[k].start = cuts[k].start /\ bins[k].end = cuts[k].end
    BY <2>1
  <2>4. Len(bins) = n
    BY <1>4, <2>1
  <2> QED
    BY <2>2, <2>3, <2>4
<1>7. SUFFICES ASSUME NEW ts \in range.start .. range.end
               PROVE  SeriesTip(data, ts).cumulative
                        = SumWhere(events, LAMBDA e : e.ts < bins[CHOOSE k \in timeBinIndexAtX(bins, ts) : TRUE].end,
                                   cost)
  BY DEF SeriesTipRight
<1> DEFINE k == CHOOSE k \in timeBinIndexAtX(bins, ts) : TRUE
<1>8. k \in 1 .. n
  <2>1. \E j \in DOMAIN bins : j \in timeBinIndexAtX(bins, ts)
    <3>1. /\ DOMAIN bins = DOMAIN boundedTimeIntervals(range, bin)
          /\ Len(bins) = Len(boundedTimeIntervals(range, bin))
          /\ \A j \in DOMAIN bins : /\ bins[j].start = boundedTimeIntervals(range, bin)[j].start
                                    /\ bins[j].end = boundedTimeIntervals(range, bin)[j].end
      BY <1>4, <1>6
    <3> HIDE DEF range, bin, bins
    <3> QED
      BY <1>2, <1>3, <3>1, BinsCover
  <2>2. k \in timeBinIndexAtX(bins, ts)
    BY <2>1
  <2> QED
    BY <1>6, <2>2, Zenon DEF timeBinIndexAtX
<1>9. SeriesTip(data, ts).cumulative = data.cum[k]
  BY DEF SeriesTip
<1> HIDE DEF k, data, E
<1>10. data.cum[k] = SumOver(SubSeq(events, 1, upTo[k]), cost)
  <2>1. k \in 0 .. n
    BY <1>8, <1>4
  <2> HIDE DEF n, upTo, cost
  <2> QED
    BY <1>5, <2>1
<1> DEFINE end == cuts[k].end
           u == Max({j \in 0 .. Len(events) : \A i \in 1 .. j : events[i].ts < end})
<1>11. upTo[k] = u /\ end \in Int
  <2> HIDE DEF cuts, n
  <2> QED
    BY <1>4, <1>8
<1> HIDE DEF upTo, cuts, events
<1>12. u \in 0 .. Len(events) /\ {i \in DOMAIN events : events[i].ts < end} = 1 .. u
  BY <1>1, <1>11, StopsAt, ZenonT(30)
<1> HIDE DEF u
<1>13. SumOver(SubSeq(events, 1, u), cost) = SumFunctionOnSet(CostsOf(events), 1 .. u)
  BY <1>1, <1>12, FrontCost
<1>14. SumWhere(events, LAMBDA e : e.ts < end, cost) = SumFunctionOnSet(CostsOf(events), 1 .. u)
  <2>1. u \in Nat
    BY <1>12
  <2> HIDE DEF end
  <2> QED
    BY <1>12, <2>1, CostBefore
<1>15. bins[k].end = end
  BY <1>6, <1>8
<1> HIDE DEF cost
<1>16. data.cum[k] = SumWhere(events, LAMBDA e : e.ts < end, cost)
  BY <1>10, <1>11, <1>13, <1>14
<1> QED
  BY <1>9, <1>15, <1>16 DEF k

(***************************************************************************)
(* What the tooltips say: the lines over time                              *)
(***************************************************************************)
(* A distance is a fraction; one that is less than another is less than    *)
(* all that the other does not exceed.                                     *)
Fraction == [num : Nat, den : Nat \ {0}]
LEMMA CloserThan ==
  ASSUME NEW a \in Fraction, NEW b \in Fraction, NEW c \in Fraction, Closer(a, b), ~Closer(c, b)
  PROVE  Closer(a, c)
<1> DEFINE an == a.num
           ad == a.den
           bn == b.num
           bd == b.den
           cn == c.num
           cd == c.den
<1>1. an \in Nat /\ bn \in Nat /\ cn \in Nat /\ ad \in Nat \ {0} /\ bd \in Nat \ {0} /\ cd \in Nat \ {0}
  BY DEF Fraction
<1>2. an * bd < bn * ad /\ ~(cn * bd < bn * cd)
  BY DEF Closer
<1>3. Closer(a, c) <=> an * cd < cn * ad
  BY DEF Closer
<1> HIDE DEF an, ad, bn, bd, cn, cd
<1> DEFINE p == an * bd
           q == bn * ad
           r == cn * bd
           s == bn * cd
           v == an * cd
           w == cn * ad
<1>4. p \in Int /\ q \in Int /\ r \in Int /\ s \in Int /\ v \in Int /\ w \in Int
  BY <1>1
<1>5. p < q /\ s <= r
  BY <1>2, <1>4
<1>6. p * cd = v * bd /\ q * cd = s * ad /\ r * ad = w * bd
  BY <1>1
<1>7. SUFFICES ASSUME w <= v PROVE FALSE
  BY <1>3, <1>4
<1> HIDE DEF p, q, r, s, v, w
<1>8. p * cd < q * cd
  BY <1>1, <1>4, <1>5
<1>9. s * ad <= r * ad
  BY <1>1, <1>4, <1>5
<1>10. w * bd <= v * bd
  BY <1>1, <1>4, <1>7
<1>11. /\ p * cd \in Int /\ q * cd \in Int /\ r * ad \in Int
       /\ s * ad \in Int /\ v * bd \in Int /\ w * bd \in Int
  BY <1>1, <1>4
<1> QED
  BY <1>6, <1>8, <1>9, <1>10, <1>11

LEMMA NotBothCloser ==
  ASSUME NEW a \in Fraction, NEW b \in Fraction, Closer(a, b)
  PROVE  ~Closer(b, a)
<1>1. a.num * b.den \in Int /\ b.num * a.den \in Int
  BY DEF Fraction
<1> QED
  BY <1>1 DEF Closer

(* Some line is nearest, the first one on a tie.                           *)
First1(d, S, i) == \A j \in S : Closer(d[i], d[j]) \/ (~Closer(d[j], d[i]) /\ i <= j)
LEMMA SomeNearest ==
  ASSUME NEW n \in Nat, NEW S \in SUBSET (1 .. n), S # {}, NEW d \in [S -> Fraction]
  PROVE  \E i \in S : First1(d, S, i)
<1> DEFINE Upper(m) == S \cap (1 .. m)
           Bad(m) == Upper(m) # {} /\ ~ \E i \in Upper(m) : First1(d, Upper(m), i)
           T == {m \in Nat : Bad(m)}
<1>1. SUFFICES T = {}
  <2>1. ~Bad(n)
    BY <1>1
  <2>2. Upper(n) = S
    OBVIOUS
  <2> QED
    BY <2>1, <2>2
<1>2. SUFFICES ASSUME T # {} PROVE FALSE
  OBVIOUS
<1>3. T \in SUBSET Nat
  OBVIOUS
<1>4. PICK m \in T : \A k \in T : m <= k
  <2> HIDE DEF T
  <2> QED
    BY <1>2, <1>3, LeastNat
<1>5. m \in Nat /\ Bad(m)
  OBVIOUS
<1>6. m # 0
  BY <1>5
<1>7. m - 1 \in Nat /\ ~Bad(m - 1)
  <2>1. m - 1 \in Nat
    BY <1>5, <1>6
  <2>2. m - 1 \notin T
    <3> HIDE DEF T
    <3> QED
      BY <1>4, <1>5, <2>1
  <2> QED
    BY <2>1, <2>2
<1>8. Upper(m) \subseteq Upper(m - 1) \cup {m} /\ Upper(m - 1) \subseteq Upper(m)
  BY <1>5, <1>7
<1>9. m \in S
  <2> SUFFICES ASSUME m \notin S PROVE FALSE
    OBVIOUS
  <2>1. Upper(m) = Upper(m - 1)
    BY <1>8
  <2> HIDE DEF Upper
  <2> QED
    BY <1>5, <1>7, <2>1
<1>10. Upper(m) = Upper(m - 1) \cup {m} /\ m \notin Upper(m - 1) /\ \A j \in Upper(m - 1) : j < m /\ j \in S /\ j \in Nat
  BY <1>5, <1>7, <1>8, <1>9
<1> HIDE DEF Upper
<1>11. CASE Upper(m - 1) = {}
  <2>1. ~Closer(d[m], d[m])
    BY <1>9, NotBothCloser
  <2>2. First1(d, Upper(m), m)
    BY <1>5, <1>10, <1>11, <2>1 DEF First1
  <2> QED
    BY <1>5, <1>10, <2>2
<1>12. CASE Upper(m - 1) # {}
  <2>1. PICK i \in Upper(m - 1) : First1(d, Upper(m - 1), i)
    BY <1>7, <1>12
  <2>2. i \in S /\ d[i] \in Fraction /\ d[m] \in Fraction /\ i <= m
    BY <1>5, <1>9, <1>10
  <2>3. \A j \in Upper(m - 1) : d[j] \in Fraction /\ ~Closer(d[j], d[i])
    <3> SUFFICES ASSUME NEW j \in Upper(m - 1) PROVE d[j] \in Fraction /\ ~Closer(d[j], d[i])
      OBVIOUS
    <3>1. d[j] \in Fraction
      BY <1>10
    <3> QED
      BY <2>1, <2>2, <3>1, NotBothCloser DEF First1
  <2>4. CASE Closer(d[m], d[i])
    <3>1. \A j \in Upper(m - 1) : Closer(d[m], d[j])
      BY <2>2, <2>3, <2>4, CloserThan
    <3>2. ~Closer(d[m], d[m])
      BY <1>9, NotBothCloser
    <3>3. First1(d, Upper(m), m)
      BY <1>5, <1>10, <3>1, <3>2 DEF First1
    <3> QED
      BY <1>5, <1>10, <3>3
  <2>5. CASE ~Closer(d[m], d[i])
    <3>1. First1(d, Upper(m), i)
      BY <1>10, <2>1, <2>2, <2>5 DEF First1
    <3> QED
      BY <1>5, <1>10, <2>1, <3>1
  <2> QED
    BY <2>4, <2>5
<1> QED
  BY <1>11, <1>12

(* A line that can be drawn, and its segment under the cursor.             *)
Mark == [ts : Int, n : Nat, at : [Percentile -> Int]]
Drawable(points) == points \in Seq(Mark)
Between(s) ==
  /\ s.den \in Nat \ {0} /\ s.num \in 0 .. s.den
  /\ \A k \in Percentile : s.a.at[k] \in Int /\ s.b.at[k] \in Int
LEMMA SegmentIs ==
  ASSUME NEW points, Drawable(points), points # <<>>, NEW x \in Int
  PROVE  Between(Segment(points, x))
<1> DEFINE n == Len(points)
           S == {n} \cup {j \in 1 .. n - 1 : points[j + 1].ts >= x}
           i == Min(S)
           j == Min({i + 1, n})
           a == points[i]
           b == points[j]
           w == b.ts - a.ts
           t == x - a.ts
           m == Min({w, t})
<1>1. n \in Nat \ {0} /\ DOMAIN points = 1 .. n
  BY DEF Drawable
<1>2. i \in 1 .. n
  <2>1. S \subseteq 1 .. n /\ n \in S
    BY <1>1
  <2>2. IsFiniteSet(1 .. n)
    BY <1>1, FS_Interval, 1 \in Int
  <2> HIDE DEF S
  <2>5. IsFiniteSet(S)
    BY <2>1, <2>2, FS_Subset
  <2>6. 1 .. n \subseteq Int
    BY <1>1
  <2>3. IsFiniteSet(S) /\ S \in SUBSET Int /\ S # {}
    <3> HIDE DEF n
    <3> QED
      BY <2>1, <2>5, <2>6
  <2>4. i \in S
    BY <2>3, ExtremesAre
  <2> QED
    BY <2>1, <2>4
<1> HIDE DEF i
<1>3. j \in 1 .. n
  <2>1. i + 1 \in Int /\ n \in Int
    BY <1>1, <1>2
  <2> HIDE DEF n
  <2> QED
    BY <1>1, <1>2, <2>1, MinOf
<1> HIDE DEF j
<1>4. /\ a.ts \in Int /\ b.ts \in Int
      /\ \A k \in Percentile : a.at[k] \in Int /\ b.at[k] \in Int
  <2>1. a \in Mark /\ b \in Mark
    BY <1>1, <1>2, <1>3 DEF Drawable
  <2> HIDE DEF a, b
  <2> QED
    BY <2>1 DEF Mark
<1>5. Segment(points, x) = [a |-> a, b |-> b, den |-> Max({1, w}), num |-> Max({0, m})]
  BY DEF Segment, SegmentAt, i, j
<1> HIDE DEF a, b, n
<1>6. w \in Int /\ t \in Int
  BY <1>4
<1> HIDE DEF w, t
<1>7. m \in Int /\ m <= w
  BY <1>6, MinOf
<1> HIDE DEF m
<1>8. Max({1, w}) \in Nat \ {0} /\ Max({0, m}) \in 0 .. Max({1, w})
  BY <1>6, <1>7, MaxOf
<1> QED
  BY <1>4, <1>5, <1>8 DEF Between

(* A value on it lies between those at its ends.                           *)
LEMMA ValueBetween ==
  ASSUME NEW s, Between(s), NEW k \in Percentile, NEW floor \in Int
  PROVE  LET v == lerpLog(s, k, floor)
             ends == {Max({floor, p.at[k]}) : p \in {s.a, s.b}}
         IN  /\ v.num \in Int /\ v.den \in Nat \ {0}
             /\ Min(ends) * v.den <= v.num /\ v.num <= Max(ends) * v.den
<1> DEFINE la == Max({floor, s.a.at[k]})
           lb == Max({floor, s.b.at[k]})
           d == s.den
           t == s.num
           v == lerpLog(s, k, floor)
           lo == Min({la, lb})
           hi == Max({la, lb})
           u == d - t
<1>1. la \in Int /\ lb \in Int
  BY MaxOf DEF Between
<1>2. d \in Nat \ {0} /\ t \in Nat /\ u \in Nat
  BY DEF Between
<1>3. v.num = la * d + t * (lb - la) /\ v.den = d
  BY DEF lerpLog
<1>4. {Max({floor, p.at[k]}) : p \in {s.a, s.b}} = {la, lb}
  OBVIOUS
<1>8. d = u + t
  BY <1>2
<1> HIDE DEF la, lb, d, t, u
<1>5. lo \in Int /\ hi \in Int /\ lo <= la /\ lo <= lb /\ la <= hi /\ lb <= hi
  BY <1>1, MinOf, MaxOf
<1> HIDE DEF lo, hi
<1>6. v.num = la * u + lb * t
  <2>1. la * (u + t) = la * u + la * t /\ t * (lb - la) = lb * t - la * t
    BY <1>1, <1>2
  <2>2. la * u \in Int /\ la * t \in Int /\ lb * t \in Int
    BY <1>1, <1>2
  <2> QED
    BY <1>3, <1>8, <2>1, <2>2
<1>7. lo * u <= la * u /\ lo * t <= lb * t /\ la * u <= hi * u /\ lb * t <= hi * t
  BY <1>1, <1>2, <1>5
<1>9. lo * d = lo * u + lo * t /\ hi * d = hi * u + hi * t
  BY <1>2, <1>5, <1>8
<1>10. /\ la * u \in Int /\ lb * t \in Int /\ lo * u \in Int
       /\ lo * t \in Int /\ hi * u \in Int /\ hi * t \in Int
  BY <1>1, <1>2, <1>5
<1>11. v.num \in Int /\ lo * d <= v.num /\ v.num <= hi * d
  BY <1>6, <1>7, <1>9, <1>10
<1> QED
  BY <1>2, <1>3, <1>4, <1>11 DEF lo, hi

(* Lines that can be drawn, under names that are not what else is told.    *)
DrawableLines(lines) ==
  /\ lines \in Seq(ToSet(lines))
  /\ \A i \in DOMAIN lines : Drawable(lines[i].points) /\ lines[i].key \notin {"none", "outlier"}

(* The line under the cursor says what is drawn there.                     *)
LEMMA LineTipAgrees ==
  ASSUME NEW lines, DrawableLines(lines), NEW x \in Int, NEW y \in Int, NEW floor \in Int
  PROVE  LET tip == HoverLine(lines, x, y, floor)
         IN  \/ tip.key = "none"
             \/ /\ tip.key \notin {"none", "outlier"}
                /\ Between(tip.segment)
                /\ tip.at = [k \in Percentile |-> lerpLog(tip.segment, k, floor)]
<1> DEFINE under == {i \in DOMAIN lines :
                       LET p == lines[i].points
                       IN  p # <<>> /\ p[1].ts - Slack <= x /\ x <= p[Len(p)].ts + Slack}
           seg(i) == Segment(lines[i].points, x)
           dist(i) == Off(lerpLog(seg(i), "p50", floor), y)
           best == CHOOSE i \in under : \A j \in under :
                     Closer(dist(i), dist(j)) \/ (~Closer(dist(j), dist(i)) /\ i <= j)
           d == [i \in under |-> dist(i)]
           tip == HoverLine(lines, x, y, floor)
           far == under = {} \/ dist(best).num > Reach * dist(best).den
<1>1. \A i \in under : i \in DOMAIN lines /\ lines[i].points # <<>>
  OBVIOUS
<1>2. tip = IF far THEN [key |-> "none"]
            ELSE [key |-> lines[best].key, segment |-> seg(best),
                  at |-> [k \in Percentile |-> lerpLog(seg(best), k, floor)]]
  BY DEF HoverLine
<1>3. under \in SUBSET (1 .. Len(lines)) /\ Len(lines) \in Nat
  <2>1. DOMAIN lines = 1 .. Len(lines) /\ Len(lines) \in Nat
    BY DEF DrawableLines
  <2> QED
    BY <1>1, <2>1
<1>4. best = CHOOSE i \in under : \A j \in under :
               Closer(dist(i), dist(j)) \/ (~Closer(dist(j), dist(i)) /\ i <= j)
  OBVIOUS
<1> HIDE DEF under, best, tip
<1>5. \A i \in under : Between(seg(i))
  BY <1>1, SegmentIs DEF DrawableLines
<1>6. \A i \in under : dist(i) \in Fraction
  <2> SUFFICES ASSUME NEW i \in under PROVE dist(i) \in Fraction
    OBVIOUS
  <2> DEFINE v == lerpLog(seg(i), "p50", floor)
  <2>1. v.num \in Int /\ v.den \in Nat \ {0}
    <3>1. Between(seg(i)) /\ "p50" \in Percentile
      BY <1>5 DEF Percentile
    <3> HIDE DEF seg
    <3> QED
      BY <3>1, ValueBetween
  <2>2. dist(i) = Off(v, y)
    OBVIOUS
  <2> HIDE DEF v, dist
  <2>3. v.num - y * v.den \in Int
    BY <2>1
  <2> QED
    BY <2>1, <2>2, <2>3 DEF Off, Abs, Fraction
<1>7. CASE far
  BY <1>2, <1>7 DEF tip
<1>8. CASE ~far
  <2>1. \E i \in under : First1(d, under, i)
    <3>1. d \in [under -> Fraction]
      BY <1>6
    <3>2. under # {}
      BY <1>8
    <3> HIDE DEF d
    <3> QED
      BY <1>3, <3>1, <3>2, SomeNearest
  <2>2. \E i \in under : \A j \in under :
          Closer(dist(i), dist(j)) \/ (~Closer(dist(j), dist(i)) /\ i <= j)
    <3>1. \A i \in under : d[i] = dist(i)
      OBVIOUS
    <3> HIDE DEF d, dist
    <3> QED
      BY <2>1, <3>1 DEF First1
  <2>3. best \in under
    <3> HIDE DEF dist
    <3> QED
      BY <1>4, <2>2
  <2>4. Between(seg(best)) /\ lines[best].key \notin {"none", "outlier"}
    BY <1>1, <1>5, <2>3 DEF DrawableLines
  <2> HIDE DEF seg, far
  <2>5. tip = [key |-> lines[best].key, segment |-> seg(best),
               at |-> [k \in Percentile |-> lerpLog(seg(best), k, floor)]]
    BY <1>2, <1>8
  <2>6. /\ tip.key \notin {"none", "outlier"} /\ Between(tip.segment)
        /\ tip.at = [k \in Percentile |-> lerpLog(tip.segment, k, floor)]
    BY <2>4, <2>5
  <2> QED
    BY <2>6 DEF tip
<1> QED
  BY <1>7, <1>8 DEF tip

LEMMA LineTips ==
  ASSUME NEW lines, DrawableLines(lines), NEW dots, dots \in Seq(ToSet(dots)),
         \A i \in DOMAIN dots : dots[i].model \in {l.key : l \in ToSet(lines)},
         NEW x \in Int, NEW y \in Int
  PROVE  LineTipRight(lines, dots, x, y)
<1> DEFINE tip == HoverLatency(lines, dots, x, y, Floor)
           hit == {i \in DOMAIN dots : 2 * dots[i].ts = x /\ 2 * dots[i].latency = y}
<1>1. Floor \in Int
  BY PanelsAssumption
<1>2. SUFFICES IF tip.key \in {"none", "outlier"}
               THEN tip.key = "outlier" => tip.of \in {l.key : l \in ToSet(lines)}
               ELSE \A k \in Percentile :
                      LET ends == {Max({Floor, p.at[k]}) : p \in {tip.segment.a, tip.segment.b}}
                          v    == tip.at[k]
                      IN  Min(ends) * v.den <= v.num /\ v.num <= Max(ends) * v.den
  BY DEF LineTipRight
<1>3. CASE hit # {}
  <2>1. tip = [key |-> "outlier", of |-> dots[Min(hit)].model]
    BY <1>3 DEF HoverLatency
  <2>2. hit \in SUBSET DOMAIN dots
    OBVIOUS
  <2>3. Min(hit) \in hit
    <3> HIDE DEF hit
    <3>1. IsFiniteSet(hit) /\ hit \subseteq Nat
      BY <2>2, PlacesFinite
    <3>2. hit \in SUBSET Int
      BY <3>1
    <3> QED
      BY <1>3, <3>1, <3>2, ExtremesAre
  <2>6. Min(hit) \in DOMAIN dots
    BY <2>3
  <2>4. tip.of \in {l.key : l \in ToSet(lines)}
    <3> HIDE DEF hit, tip
    <3>1. tip.of = dots[Min(hit)].model
      BY <2>1
    <3> QED
      BY <2>6, <3>1
  <2>5. tip.key = "outlier"
    BY <2>1
  <2> HIDE DEF tip
  <2> QED
    BY <2>4, <2>5
<1>4. CASE hit = {}
  <2>1. tip = HoverLine(lines, x, y, Floor)
    BY <1>4 DEF HoverLatency
  <2>2. \/ tip.key = "none"
        \/ /\ tip.key \notin {"none", "outlier"}
           /\ Between(tip.segment)
           /\ tip.at = [k \in Percentile |-> lerpLog(tip.segment, k, Floor)]
    <3>1. LET h == HoverLine(lines, x, y, Floor)
          IN  \/ h.key = "none"
              \/ /\ h.key \notin {"none", "outlier"}
                 /\ Between(h.segment)
                 /\ h.at = [k \in Percentile |-> lerpLog(h.segment, k, Floor)]
      BY <1>1, LineTipAgrees
    <3> HIDE DEF tip
    <3> QED
      BY <2>1, <3>1
  <2> HIDE DEF tip
  <2>3. CASE tip.key = "none"
    BY <2>3
  <2>4. CASE tip.key # "none"
    <3> SUFFICES ASSUME NEW k \in Percentile
                 PROVE  LET ends == {Max({Floor, p.at[k]}) : p \in {tip.segment.a, tip.segment.b}}
                            v    == tip.at[k]
                        IN  Min(ends) * v.den <= v.num /\ v.num <= Max(ends) * v.den
      BY <2>2, <2>4
    <3>1. Between(tip.segment) /\ tip.at[k] = lerpLog(tip.segment, k, Floor)
      BY <2>2, <2>4
    <3> DEFINE s == tip.segment
    <3> HIDE DEF s
    <3> QED
      BY <1>1, <3>1, ValueBetween DEF s
  <2> QED
    BY <2>3, <2>4
<1> QED
  BY <1>3, <1>4

LEMMA OwnElements ==
  ASSUME NEW S, NEW s \in Seq(S)
  PROVE  s \in Seq(ToSet(s)) /\ ToSet(s) \subseteq S
BY DEF ToSet

LEMMA OrderedInside ==
  ASSUME NEW S, NEW s \in Seq(S), NEW rank \in [DOMAIN s -> Int]
  PROVE  Ordered(s, rank) \in Seq(S)
<1>1. PICK p : Lists(p, DOMAIN s, rank) /\ Ordered(s, rank) = [k \in DOMAIN s |-> s[p[k]]]
  BY OrderedLists
<1>2. DOMAIN s = 1 .. Len(s) /\ Len(s) \in Nat /\ p \in [DOMAIN s -> DOMAIN s]
  BY <1>1 DEF Lists
<1>3. [k \in 1 .. Len(s) |-> s[p[k]]] \in Seq(S)
  BY <1>2
<1> QED
  BY <1>1, <1>2, <1>3

(* The rows of one model, in order of time.                                *)
PointsOfModel(rows, m) ==
  SortedBy(Apply(Where(rows, LAMBDA r : r.model = m), Point), LAMBDA p : p.ts)
LEMMA PointsDrawable ==
  ASSUME NEW rows, rows \in Seq(ToSet(rows)), PercentileRows(rows), NEW m
  PROVE  /\ Drawable(PointsOfModel(rows, m))
         /\ SumOver(PointsOfModel(rows, m), LAMBDA p : p.n) \in Int
<1> DEFINE R == ToSet(rows)
           P == {Point(r) : r \in R}
           J == {i \in DOMAIN rows : rows[i].model = m}
           own == At(rows, J)
           raw == [i \in DOMAIN own |-> Point(own[i])]
           rank == [i \in DOMAIN raw |-> raw[i].ts]
           points == PointsOfModel(rows, m)
<1>1. J \in SUBSET DOMAIN rows /\ {rows[i] : i \in J} \subseteq R
  BY DEF ToSet
<1>2. own \in Seq(R)
  <2>1. own \in Seq({rows[i] : i \in J})
    <3> HIDE DEF J
    <3> QED
      BY <1>1, AtIs
  <2> HIDE DEF own, J, R
  <2> QED
    BY <1>1, <2>1
<1>3. P \subseteq Mark
  <2> SUFFICES ASSUME NEW r \in R PROVE Point(r) \in Mark
    OBVIOUS
  <2>1. r.ts \in Int /\ r.n \in Nat /\ \A k \in Percentile : r.at[k] \in Int
    BY DEF PercentileRows
  <2> QED
    BY <2>1 DEF Point, Mark
<1>4. points = Ordered(Apply(own, Point), Computed([i \in DOMAIN Apply(own, Point) |-> Apply(own, Point)[i].ts]))
  BY DEF PointsOfModel, SortedBy, Where
<1>5. Apply(own, Point) = Computed(raw)
  BY DEF Apply
<1> HIDE DEF own
<1>6. raw \in [1 .. Len(own) -> P] /\ Len(own) \in Nat
  BY <1>2
<1> HIDE DEF raw, P
<1>7. Computed(raw) = raw /\ raw \in Seq(P)
  BY <1>6, ComputedIs
<1>8. rank \in [1 .. Len(own) -> Int] /\ rank \in [DOMAIN raw -> Int]
  BY <1>3, <1>6 DEF Mark
<1>9. Computed(rank) = rank
  <2> HIDE DEF rank
  <2> QED
    BY <1>6, <1>8, ComputedIs
<1>10. points = Ordered(raw, rank)
  BY <1>4, <1>5, <1>7, <1>9
<1> HIDE DEF rank, points
<1>11. points \in Seq(P)
  BY <1>7, <1>8, <1>10, OrderedInside
<1>12. points \in Seq(Mark)
  BY <1>3, <1>11
<1>13. Drawable(points)
  BY <1>12 DEF Drawable
<1>14. SumOver(points, LAMBDA p : p.n) \in Int
  <2> DEFINE f == [i \in DOMAIN points |-> points[i].n]
  <2>1. IsFiniteSet(DOMAIN points)
    BY <1>11, PlacesFinite
  <2>2. \A i \in DOMAIN points : f[i] \in Int
    <3> SUFFICES ASSUME NEW i \in DOMAIN points PROVE points[i].n \in Int
      OBVIOUS
    <3>1. points[i] \in Mark
      BY <1>12
    <3> QED
      BY <3>1 DEF Mark
  <2>3. SumOver(points, LAMBDA p : p.n) = SumFunctionOnSet(f, DOMAIN points)
    BY DEF SumOver, SumEach
  <2> HIDE DEF f
  <2> QED
    BY <2>1, <2>2, <2>3, SumType
<1> QED
  BY <1>13, <1>14 DEF points

(* Half a bucket more at both ends.                                        *)
LEMMA ExtendedDrawable ==
  ASSUME NEW points, Drawable(points), NEW half \in Int
  PROVE  Drawable(extendBucketSeries(points, half))
<1> DEFINE n == Len(points)
<1>1. points \in Seq(Mark) /\ n \in Nat /\ DOMAIN points = 1 .. n
  BY DEF Drawable
<1>2. ASSUME NEW i \in 1 .. n, NEW ts \in Int PROVE Moved(points[i], ts) \in Mark
  <2>1. points[i] \in Mark
    BY <1>1
  <2> QED
    BY <2>1 DEF Moved, Mark
<1>3. ASSUME NEW i \in 1 .. n, NEW j \in 1 .. n, NEW ts \in Int
      PROVE  Projected(points[i], points[j], ts) \in Mark
  <2> DEFINE at == [k \in Percentile |-> (3 * points[i].at[k] - points[j].at[k]) \div 2]
  <2>1. points[i] \in Mark /\ points[j] \in Mark
    BY <1>1
  <2>2. at \in [Percentile -> Int]
    <3> SUFFICES ASSUME NEW k \in Percentile PROVE (3 * points[i].at[k] - points[j].at[k]) \div 2 \in Int
      OBVIOUS
    <3>1. points[i].at[k] \in Int /\ points[j].at[k] \in Int
      BY <2>1 DEF Mark
    <3> QED
      BY <3>1
  <2>3. Projected(points[i], points[j], ts) = [points[i] EXCEPT !.ts = ts, !.at = at]
    BY DEF Projected
  <2> HIDE DEF at
  <2> QED
    BY <2>1, <2>2, <2>3 DEF Mark
<1>4. \A i \in 1 .. n : points[i].ts - half \in Int /\ points[i].ts + half \in Int
  <2> SUFFICES ASSUME NEW i \in 1 .. n PROVE points[i].ts - half \in Int /\ points[i].ts + half \in Int
    OBVIOUS
  <2>1. points[i] \in Mark
    BY <1>1
  <2> QED
    BY <2>1 DEF Mark
<1>5. CASE n = 0
  BY <1>1, <1>5 DEF extendBucketSeries, Drawable
<1>6. CASE n = 1
  <2>1. extendBucketSeries(points, half)
          = <<Moved(points[1], points[1].ts - half), points[1], Moved(points[1], points[1].ts + half)>>
    BY <1>6 DEF extendBucketSeries
  <2>2. points[1] \in Mark /\ 1 \in 1 .. n
    BY <1>1, <1>6
  <2>3. Moved(points[1], points[1].ts - half) \in Mark /\ Moved(points[1], points[1].ts + half) \in Mark
    BY <1>2, <1>4, <2>2
  <2> QED
    BY <2>1, <2>2, <2>3 DEF Drawable
<1>7. CASE n > 1
  <2> DEFINE a == Projected(points[1], points[2], points[1].ts - half)
             b == Projected(points[n], points[n - 1], points[n].ts + half)
  <2>1. extendBucketSeries(points, half) = <<a>> \o points \o <<b>>
    BY <1>7 DEF extendBucketSeries
  <2>2. 1 \in 1 .. n /\ 2 \in 1 .. n /\ n \in 1 .. n /\ n - 1 \in 1 .. n
    BY <1>1, <1>7
  <2>3. a \in Mark /\ b \in Mark
    <3> HIDE DEF n
    <3> QED
      BY <1>3, <1>4, <2>2
  <2> HIDE DEF a, b
  <2>4. <<a>> \in Seq(Mark) /\ <<b>> \in Seq(Mark)
    BY <2>3
  <2>5. <<a>> \o points \in Seq(Mark)
    BY <1>1, <2>4, ConcatPlaces
  <2>6. <<a>> \o points \o <<b>> \in Seq(Mark)
    BY <2>4, <2>5, ConcatPlaces
  <2> QED
    BY <2>1, <2>6 DEF Drawable
<1> QED
  BY <1>1, <1>5, <1>6, <1>7

(* The lines of a panel, one for each model.                               *)
LineOfModel(rows, bucketWidth, m) ==
  [key |-> m, points |-> extendBucketSeries(PointsOfModel(rows, m), bucketWidth),
   n |-> SumOver(PointsOfModel(rows, m), LAMBDA p : p.n)]
LEMMA SeriesDrawable ==
  ASSUME NEW rows, rows \in Seq(ToSet(rows)), PercentileRows(rows), NEW width \in Int
  PROVE  DrawableLines(SeriesOf(rows, width))
<1> DEFINE J == {i \in DOMAIN rows : rows[i].model # Synthetic}
           real == At(rows, J)
           models == [i \in DOMAIN real |-> real[i].model]
           M == {r.model : r \in ToSet(rows)}
           keys == Distinct(models)
           raw == [i \in DOMAIN keys |-> LineOfModel(rows, width, keys[i])]
           T == {LineOfModel(rows, width, m) : m \in M}
           rank == [i \in DOMAIN raw |-> -raw[i].n]
           all == SeriesOf(rows, width)
<1>1. all = SortedBy(Apply(Distinct(Apply(real, LAMBDA r : r.model)), LAMBDA m : LineOfModel(rows, width, m)),
                     LAMBDA s : -s.n)
  BY Zenon DEF SeriesOf, LineOfModel, PointsOfModel, Real, Where
<1>16. \A r \in ToSet(rows) : r.model \notin {"none", "outlier"}
  BY DEF PercentileRows
<1>2. real \in Seq(ToSet(rows))
  <2>1. J \in SUBSET DOMAIN rows /\ {rows[i] : i \in J} \subseteq ToSet(rows)
    BY DEF ToSet
  <2> HIDE DEF J
  <2>2. real \in Seq({rows[i] : i \in J})
    BY <2>1, AtIs
  <2> HIDE DEF real
  <2> QED
    BY <2>1, <2>2
<1>3. Apply(real, LAMBDA r : r.model) = Computed(models)
  BY DEF Apply
<1> HIDE DEF real
<1>4. models \in [1 .. Len(real) -> M] /\ Len(real) \in Nat
  <2>1. DOMAIN real = 1 .. Len(real) /\ Len(real) \in Nat /\ \A i \in DOMAIN real : real[i] \in ToSet(rows)
    BY <1>2
  <2> QED
    BY <2>1
<1> HIDE DEF models
<1>5. Computed(models) = models /\ models \in Seq(M)
  BY <1>4, ComputedIs
<1>6. keys \in Seq(M)
  <2>1. keys \in Seq(ToSet(models)) /\ ToSet(models) \subseteq M
    BY <1>5, DistinctIs, OwnElements DEF Enumerates
  <2> HIDE DEF keys
  <2> QED
    BY <2>1
<1>7. Apply(keys, LAMBDA m : LineOfModel(rows, width, m)) = Computed(raw)
  BY DEF Apply
<1> HIDE DEF keys, M
<1>8. raw \in [1 .. Len(keys) -> T] /\ Len(keys) \in Nat
  BY <1>6
<1>9. \A s \in T : s.n \in Int /\ Drawable(s.points) /\ s.key \notin {"none", "outlier"}
  <2> SUFFICES ASSUME NEW m \in M
               PROVE  LET s == LineOfModel(rows, width, m)
                      IN  s.n \in Int /\ Drawable(s.points) /\ s.key \notin {"none", "outlier"}
    OBVIOUS
  <2>1. Drawable(PointsOfModel(rows, m)) /\ SumOver(PointsOfModel(rows, m), LAMBDA p : p.n) \in Int
    BY PointsDrawable
  <2>2. Drawable(extendBucketSeries(PointsOfModel(rows, m), width))
    BY <2>1, ExtendedDrawable
  <2>3. m \notin {"none", "outlier"}
    <3>1. PICK r \in ToSet(rows) : m = r.model
      BY DEF M
    <3> QED
      BY <1>16, <3>1
  <2> QED
    BY <2>1, <2>2, <2>3 DEF LineOfModel
<1> HIDE DEF raw, T
<1>10. Computed(raw) = raw /\ raw \in Seq(T)
  BY <1>8, ComputedIs
<1>11. rank \in [1 .. Len(keys) -> Int] /\ rank \in [DOMAIN raw -> Int]
  <2>1. DOMAIN raw = 1 .. Len(keys) /\ \A i \in DOMAIN raw : raw[i].n \in Int
    BY <1>8, <1>9
  <2> QED
    BY <2>1
<1>12. all = Ordered(raw, Computed(rank))
  BY <1>1, <1>3, <1>5, <1>7, <1>10 DEF SortedBy, keys
<1> HIDE DEF rank, all
<1>13. Computed(rank) = rank
  BY <1>8, <1>11, ComputedIs
<1>14. all \in Seq(T)
  BY <1>10, <1>11, <1>12, <1>13, OrderedInside
<1>15. \A i \in DOMAIN all : all[i] \in T
  BY <1>14
<1> QED
  BY <1>9, <1>14, <1>15, OwnElements DEF DrawableLines, all

(* What is left of the lines and dots once some are unchecked.             *)
LEMMA VisibleDrawable ==
  ASSUME NEW lines, DrawableLines(lines), NEW checked
  PROVE  DrawableLines(visible(lines, checked))
<1> DEFINE J == {i \in DOMAIN lines : lines[i].key \in seriesSel(lines, checked)}
           v == visible(lines, checked)
<1>1. v = At(lines, J)
  BY DEF visible, Where
<1>2. J \in SUBSET DOMAIN lines /\ lines \in Seq(ToSet(lines))
  BY DEF DrawableLines
<1>3. {lines[i] : i \in J} \subseteq {lines[i] : i \in DOMAIN lines}
  OBVIOUS
<1> HIDE DEF J, v
<1>4. v \in Seq({lines[i] : i \in J})
  BY <1>1, <1>2, AtIs
<1>5. v \in Seq({lines[i] : i \in DOMAIN lines})
  BY <1>3, <1>4
<1>6. \A k \in DOMAIN v : \E i \in DOMAIN lines : v[k] = lines[i]
  BY <1>5
<1> QED
  BY <1>5, <1>6, OwnElements DEF DrawableLines, v

LEMMA VisibleDots ==
  ASSUME NEW dots, dots \in Seq(ToSet(dots)), NEW lines, NEW checked
  PROVE  LET seen == visibleOutliers(dots, lines, checked)
         IN  /\ seen \in Seq(ToSet(seen))
             /\ \A i \in DOMAIN seen : seen[i].model \in {l.key : l \in ToSet(visible(lines, checked))}
<1> DEFINE K == {l.key : l \in ToSet(visible(lines, checked))}
           J == {i \in DOMAIN dots : dots[i].model \in K}
           Y == {dots[i] : i \in J}
           seen == visibleOutliers(dots, lines, checked)
<1>1. seen = At(dots, J)
  BY DEF visibleOutliers, Where
<1>2. J \in SUBSET DOMAIN dots /\ \A o \in Y : o.model \in K
  OBVIOUS
<1> HIDE DEF K, J, seen
<1>3. seen \in Seq(Y)
  BY <1>1, <1>2, AtIs
<1>4. \A i \in DOMAIN seen : seen[i].model \in K
  <2> HIDE DEF Y
  <2> QED
    BY <1>2, <1>3
<1>5. seen \in Seq(ToSet(seen))
  <2> HIDE DEF Y
  <2> QED
    BY <1>3, OwnElements
<1> QED
  BY <1>4, <1>5 DEF K, seen

LEMMA CountedDrawable ==
  ASSUME NEW rows, rows \in Seq(ToSet(rows)), PercentileRows(rows), NEW width \in Int
  PROVE  DrawableLines(responseSeries(rows, width))
<1> DEFINE J == {i \in DOMAIN rows : rows[i].n > 0}
           Y == {rows[i] : i \in J}
           some == At(rows, J)
<1>1. J \in SUBSET DOMAIN rows /\ Y \subseteq ToSet(rows)
  BY DEF ToSet
<1>2. responseSeries(rows, width) = SeriesOf(some, width)
  BY DEF responseSeries, Where
<1> HIDE DEF J
<1>3. some \in Seq(Y)
  BY <1>1, AtIs
<1> HIDE DEF Y, some
<1>4. some \in Seq(ToSet(some)) /\ ToSet(some) \subseteq ToSet(rows)
  BY <1>1, <1>3, OwnElements
<1>5. PercentileRows(some)
  BY <1>4 DEF PercentileRows
<1> QED
  BY <1>2, <1>4, <1>5, SeriesDrawable

LEMMA LineTipsOfPanel ==
  ASSUME TypeOKPanels, kind \in {"latency", "responses"}, NEW x \in Times, NEW y \in Levels
  PROVE  LineTipRight(visible(series, over), visibleOutliers(body.outliers, series, over), x, y)
<1>1. kind \in Kind /\ body \in Answers[kind] \cup {Empty}
  BY BodyIs DEF TypeOKPanels
<1>2. /\ body.rows \in Seq(ToSet(body.rows)) /\ PercentileRows(body.rows) /\ body.bucket \in Int
      /\ body.outliers \in Seq(ToSet(body.outliers))
  <2>1. body.bucket \in Nat
    BY <1>1, PanelsAssumption
  <2> QED
    BY <1>1, <2>1, PanelsAssumption
<1>3. x \in Int /\ y \in Int /\ bucketMs \in Int
  BY PanelsAssumption DEF TypeOKPanels
<1>4. DrawableLines(series)
  <2>1. DrawableLines(responseSeries(body.rows, body.bucket))
    BY <1>2, CountedDrawable
  <2>2. DrawableLines(latencySeries(body.rows, bucketMs))
    BY <1>2, <1>3, SeriesDrawable DEF latencySeries
  <2> QED
    BY <2>1, <2>2 DEF series
<1> DEFINE lines == series
           dots == body.outliers
<1> HIDE DEF lines, dots
<1>5. DrawableLines(visible(lines, over))
  BY <1>4, VisibleDrawable DEF lines
<1>6. LET seen == visibleOutliers(dots, lines, over)
      IN  /\ seen \in Seq(ToSet(seen))
          /\ \A i \in DOMAIN seen : seen[i].model \in {l.key : l \in ToSet(visible(lines, over))}
  BY <1>2, VisibleDots DEF dots
<1>7. LineTipRight(visible(lines, over), visibleOutliers(dots, lines, over), x, y)
  BY <1>3, <1>5, <1>6, LineTips
<1> QED
  BY <1>7 DEF lines, dots

(***************************************************************************)
(* What the tooltips say: the error rates                                  *)
(***************************************************************************)
(* The moving average after one point, and of all of them.                 *)
EmaStep(points, g, i) ==
  LET p == points[i].at
  IN  IF i = 1 THEN [num |-> p.error, den |-> p.total]
      ELSE [num |-> 3 * p.error * g[i - 1].den + 17 * g[i - 1].num * p.total,
            den |-> 20 * p.total * g[i - 1].den]
Averages(points, g) == g = [i \in DOMAIN points |-> EmaStep(points, g, i)]
LEMMA EmaUnfolds ==
  ASSUME NEW points
  PROVE  Ema(points) = [i \in DOMAIN points |-> (CHOOSE g : Averages(points, g))[i]]
BY DEF Ema, Averages, EmaStep

LEMMA AveragesExist ==
  ASSUME NEW X, NEW points \in Seq(X)
  PROVE  \E g : Averages(points, g)
<1> DEFINE Part(n, g) == g = [i \in 1 .. n |-> EmaStep(points, g, i)]
           T == {n \in Nat : ~ \E g : Part(n, g)}
<1>1. T = {}
  <2>1. SUFFICES ASSUME T # {} PROVE FALSE
    OBVIOUS
  <2>2. PICK n \in T : \A m \in T : n <= m
    BY <2>1, LeastNat
  <2>3. n # 0
    <3> DEFINE g == [i \in 1 .. 0 |-> 0]
    <3>1. Part(0, g)
      OBVIOUS
    <3> QED
      BY <3>1
  <2> HIDE DEF Part
  <2>4. n - 1 \in Nat /\ n - 1 \notin T
    <3>1. n \in Nat /\ ~(n <= n - 1)
      OBVIOUS
    <3> QED
      BY <3>1, <2>2, <2>3
  <2>5. PICK g : Part(n - 1, g)
    BY <2>4
  <2> USE DEF Part
  <2> DEFINE h == [i \in 1 .. n |-> IF i = n THEN EmaStep(points, g, n) ELSE g[i]]
  <2>6. ASSUME NEW i \in 1 .. n PROVE h[i] = EmaStep(points, h, i)
    <3>1. n \in Nat
      BY <2>2
    <3>2. i = 1 \/ (i - 1 \in 1 .. n - 1 /\ i - 1 \in 1 .. n /\ i - 1 # n)
      BY <3>1
    <3>3. EmaStep(points, h, i) = EmaStep(points, g, i)
      BY <3>2 DEF EmaStep
    <3>4. CASE i = n
      BY <3>3, <3>4
    <3>5. CASE i # n
      <4>1. i \in 1 .. n - 1
        BY <3>1, <3>5
      <4>2. g[i] = EmaStep(points, g, i)
        BY <4>1, <2>5
      <4> QED
        BY <4>2, <3>3, <3>5
    <3> QED
      BY <3>4, <3>5
  <2>7. Part(n, h)
    BY <2>6
  <2> QED
    BY <2>7, <2>2
<1>2. DOMAIN points = 1 .. Len(points) /\ Len(points) \in Nat
  OBVIOUS
<1>3. \E g : Part(Len(points), g)
  BY <1>1, <1>2
<1> QED
  BY <1>2, <1>3 DEF Averages

(* No average of shares exceeds the whole.                                 *)
Rated(points) ==
  \A i \in DOMAIN points :
    points[i].at.total \in Nat \ {0} /\ points[i].at.error \in 0 .. points[i].at.total
LEMMA AverageGrows ==
  ASSUME NEW total \in Nat \ {0}, NEW error \in 0 .. total, NEW den \in Nat \ {0}, NEW num \in 0 .. den
  PROVE  /\ 20 * total * den \in Nat \ {0}
         /\ 3 * error * den + 17 * num * total \in 0 .. 20 * total * den
<1> DEFINE a == error * den
           b == num * total
           c == total * den
<1>1. a \in Nat /\ b \in Nat /\ c \in Nat /\ c > 0
  <2>1. c >= 1 * 1
    BY SMTT(30)
  <2> QED
    BY <2>1
<1>2. a <= c
  OBVIOUS
<1>3. b <= c
  <2>1. num * total <= den * total
    OBVIOUS
  <2>2. den * total = total * den
    OBVIOUS
  <2> QED
    BY <2>1, <2>2
<1>4. /\ 20 * total * den = 20 * c
      /\ 3 * error * den = 3 * a /\ 17 * num * total = 17 * b
  OBVIOUS
<1> HIDE DEF a, b, c
<1> QED
  BY <1>1, <1>2, <1>3, <1>4

LEMMA EmaIsShare ==
  ASSUME NEW X, NEW points \in Seq(X), Rated(points)
  PROVE  \A i \in DOMAIN points : Ema(points)[i].num <= Ema(points)[i].den
<1> DEFINE g == CHOOSE g : Averages(points, g)
           n == Len(points)
           Good(i) == g[i].den \in Nat \ {0} /\ g[i].num \in 0 .. g[i].den
           T == {i \in Nat : i \in 1 .. n /\ ~Good(i)}
<1>1. Averages(points, g)
  BY AveragesExist
<1>2. DOMAIN points = 1 .. n /\ n \in Nat
  OBVIOUS
<1>3. \A i \in 1 .. n : Ema(points)[i] = g[i]
  BY <1>2, EmaUnfolds
<1> HIDE DEF g
<1>4. \A i \in 1 .. n : g[i] = EmaStep(points, g, i)
  BY <1>1, <1>2 DEF Averages
<1> HIDE DEF n
<1>5. T = {}
  <2> SUFFICES ASSUME T # {} PROVE FALSE
    OBVIOUS
  <2>1. T \in SUBSET Nat
    OBVIOUS
  <2>2. PICK i \in T : \A j \in T : i <= j
    <3> HIDE DEF T
    <3> QED
      BY <2>1, LeastNat
  <2>3. i \in 1 .. n /\ ~Good(i) /\ i \in Nat
    OBVIOUS
  <2> DEFINE p == points[i].at
  <2>4. p.total \in Nat \ {0} /\ p.error \in 0 .. p.total
    BY <1>2, <2>3 DEF Rated
  <2>5. CASE i = 1
    <3>2. g[i] = [num |-> p.error, den |-> p.total]
      <4>1. EmaStep(points, g, i) = [num |-> p.error, den |-> p.total]
        BY <2>5 DEF EmaStep
      <4> QED
        BY <1>4, <2>3, <4>1
    <3>1. g[i].num = p.error /\ g[i].den = p.total
      BY <3>2
    <3> QED
      BY <2>3, <2>4, <3>1
  <2>6. CASE i # 1
    <3>1. i - 1 \in Nat /\ i - 1 \in 1 .. n
      BY <1>2, <2>3, <2>6
    <3>2. i - 1 \notin T
      <4> HIDE DEF T
      <4> QED
        BY <2>2, <2>3, <3>1
    <3>3. Good(i - 1)
      BY <3>1, <3>2
    <3> DEFINE den == g[i - 1].den
               num == g[i - 1].num
    <3>4. den \in Nat \ {0} /\ num \in 0 .. den
      BY <3>3
    <3>5. /\ g[i].num = 3 * p.error * den + 17 * num * p.total
          /\ g[i].den = 20 * p.total * den
      <4> DEFINE v == [num |-> 3 * p.error * den + 17 * num * p.total, den |-> 20 * p.total * den]
      <4>1. EmaStep(points, g, i) = v
        BY <2>6 DEF EmaStep
      <4>2. g[i] = v
        BY <1>4, <2>3, <4>1
      <4> QED
        BY <4>2
    <3> DEFINE total == p.total
               error == p.error
    <3>6. total \in Nat \ {0} /\ error \in 0 .. total
      BY <2>4
    <3>7. g[i].num = 3 * error * den + 17 * num * total /\ g[i].den = 20 * total * den
      BY <3>5
    <3> HIDE DEF den, num, total, error
    <3>8. /\ 20 * total * den \in Nat \ {0}
          /\ 3 * error * den + 17 * num * total \in 0 .. 20 * total * den
      BY <3>4, <3>6, AverageGrows
    <3>9. Good(i)
      BY <3>7, <3>8
    <3> QED
      BY <2>3, <3>9
  <2> QED
    BY <2>5, <2>6
<1>6. \A i \in 1 .. n : Good(i)
  <2>1. \A i \in 1 .. n : i \in Nat
    BY <1>2
  <2> QED
    BY <1>5, <2>1
<1>7. \A i \in 1 .. n : g[i].num <= g[i].den
  BY <1>6
<1> QED
  BY <1>2, <1>3, <1>7

(* The nearest of some places, the first one on a tie.                     *)
LEMMA SomePlaceNearest ==
  ASSUME NEW n \in Nat \ {0}, NEW d \in [1 .. n -> Nat]
  PROVE  \E i \in 1 .. n : \A j \in 1 .. n : d[i] < d[j] \/ (d[i] = d[j] /\ i <= j)
<1> DEFINE e == [i \in 1 .. n |-> [num |-> d[i], den |-> 1]]
<1>1. e \in [1 .. n -> Fraction]
  BY DEF Fraction
<1>2. 1 .. n # {} /\ n \in Nat
  <2>1. 1 \in 1 .. n
    OBVIOUS
  <2> QED
    BY <2>1
<1>3. \A i, j \in 1 .. n : Closer(e[i], e[j]) <=> d[i] < d[j]
  BY DEF Closer
<1> HIDE DEF e
<1>4. PICK i \in 1 .. n : First1(e, 1 .. n, i)
  BY <1>1, <1>2, SomeNearest
<1>5. \A j \in 1 .. n : d[i] < d[j] \/ (~(d[j] < d[i]) /\ i <= j)
  BY <1>3, <1>4 DEF First1
<1>6. \A j \in 1 .. n : d[i] < d[j] \/ (d[i] = d[j] /\ i <= j)
  BY <1>5
<1> QED
  BY <1>6

(* The buckets of the rows.                                                *)
TimesOf(rows) == {rows[i].ts : i \in DOMAIN rows}
LEMMA BucketsAre ==
  ASSUME NEW rows, CallRows(rows)
  PROVE  /\ Enumerates(Buckets(rows), TimesOf(rows)) /\ IsFiniteSet(TimesOf(rows))
         /\ TimesOf(rows) \in SUBSET Int
         /\ \A j, k \in DOMAIN Buckets(rows) : j < k => Buckets(rows)[j] < Buckets(rows)[k]
<1> DEFINE T == TimesOf(rows)
           f == [i \in DOMAIN rows |-> rows[i].ts]
<1>1. T \in SUBSET Int
  BY DEF CallRows, ToolRows, ToSet, TimesOf
<1>2. IsFiniteSet(T)
  <2>1. IsFiniteSet(DOMAIN rows)
    BY RowsFinite
  <2>2. T = {f[i] : i \in DOMAIN rows}
    BY DEF TimesOf
  <2> HIDE DEF T
  <2>3. IsFiniteSet({f[i] : i \in DOMAIN rows})
    <3>1. DOMAIN f = DOMAIN rows /\ f = [i \in DOMAIN rows |-> f[i]]
      OBVIOUS
    <3> HIDE DEF f
    <3> QED
      BY <2>1, <3>1, ValuesFinite
  <2> QED
    BY <2>2, <2>3
<1>3. Buckets(rows) = Ascending(T)
  BY DEF Buckets, TimesOf, ToSet
<1> HIDE DEF T
<1> QED
  BY <1>1, <1>2, <1>3, AscendingIs, AscendingRises DEF T

(* Errors of some rows are never more than their calls, and rows have      *)
(* calls.                                                                  *)
LEMMA RatesAre ==
  ASSUME NEW rows, CallRows(rows), ErrorRows(rows), NEW ts, NEW key
  PROVE  LET at == TallyAt(rows, ts, key)
         IN  /\ at.total \in Nat /\ at.error \in 0 .. at.total
             /\ RowsAt(rows, ts, ErrorMembers(rows, key)) # {} => at.total > 0
<1> DEFINE S == RowsAt(rows, ts, ErrorMembers(rows, key))
           at == TallyAt(rows, ts, key)
           rest == [i \in DOMAIN rows |-> rows[i].n - rows[i].error]
<1>1. \A i \in DOMAIN rows : rows[i].n \in Nat /\ rows[i].n > 0 /\ rows[i].error \in Nat /\ rows[i].error <= rows[i].n
  BY ErrorsKnown
<1>2. at.total = SumFunctionOnSet(CallsOf(rows), S) /\ at.error = SumFunctionOnSet(ErrorsOf(rows), S)
  BY <1>1, TallyIs
<1>3. S \in SUBSET DOMAIN rows
  BY DEF RowsAt
<1> HIDE DEF S, at
<1>4. IsFiniteSet(S)
  BY <1>3, RowsFinite
<1>5. \A i \in S : /\ CallsOf(rows)[i] \in Nat /\ CallsOf(rows)[i] > 0 /\ ErrorsOf(rows)[i] \in Nat
                   /\ rest[i] \in Nat
                   /\ CallsOf(rows)[i] = ErrorsOf(rows)[i] + rest[i]
  <2> SUFFICES ASSUME NEW i \in S
               PROVE  /\ CallsOf(rows)[i] \in Nat /\ CallsOf(rows)[i] > 0 /\ ErrorsOf(rows)[i] \in Nat
                      /\ rest[i] \in Nat
                      /\ CallsOf(rows)[i] = ErrorsOf(rows)[i] + rest[i]
    OBVIOUS
  <2>1. i \in DOMAIN rows
    BY <1>3
  <2> QED
    BY <1>1, <2>1 DEF CallsOf, ErrorsOf
<1> HIDE DEF rest
<1>6. /\ \A i \in S : CallsOf(rows)[i] \in Int /\ CallsOf(rows)[i] >= 0
      /\ \A i \in S : ErrorsOf(rows)[i] \in Int /\ ErrorsOf(rows)[i] >= 0
      /\ \A i \in S : rest[i] \in Int /\ rest[i] >= 0
  BY <1>5
<1>7. /\ SumFunctionOnSet(ErrorsOf(rows), S) \in Int /\ SumFunctionOnSet(ErrorsOf(rows), S) >= 0
      /\ SumFunctionOnSet(rest, S) \in Int /\ SumFunctionOnSet(rest, S) >= 0
  BY <1>4, <1>6, SumType
<1>8. SumFunctionOnSet(CallsOf(rows), S) = SumFunctionOnSet(ErrorsOf(rows), S) + SumFunctionOnSet(rest, S)
  BY <1>4, <1>5, <1>6, SumAdded
<1>9. at.total \in Nat /\ at.error \in 0 .. at.total
  BY <1>2, <1>7, <1>8
<1>10. ASSUME S # {} PROVE at.total > 0
  <2>1. PICK i \in S : TRUE
    BY <1>10
  <2>2. CallsOf(rows)[i] <= SumFunctionOnSet(CallsOf(rows), S)
    BY <1>4, <1>5, SumAtLeast
  <2> QED
    BY <1>2, <1>5, <1>9, <2>1, <2>2
<1> QED
  BY <1>9, <1>10 DEF S, at

(* Whatever the tooltip has a line for is drawn over that bucket.          *)
LEMMA SaidIsDrawn ==
  ASSUME NEW rows, CallRows(rows), ErrorRows(rows), NEW ts \in TimesOf(rows), NEW k \in ErrorBoxes(rows),
         \/ k = AGGREGATE
         \/ k = OtherTools /\ TallyAt(rows, ts, k).total > 0
         \/ k # OtherTools /\ k \in ToSet(ToolsOf(In(rows, ts)))
  PROVE  LET points == ErrorSeries(rows, k)
         IN  \E i \in DOMAIN points : points[i].ts = ts /\ Ema(points)[i].num <= Ema(points)[i].den
<1> DEFINE B == Buckets(rows)
           raw == [i \in DOMAIN B |-> [ts |-> B[i], at |-> TallyAt(rows, B[i], k)]]
           J == {i \in DOMAIN raw : raw[i].at.total > 0}
           Y == {raw[i] : i \in J}
           points == ErrorSeries(rows, k)
<1>1. TallyAt(rows, ts, k).total > 0
  <2>1. PICK r \in DOMAIN rows : rows[r].ts = ts
    BY DEF TimesOf
  <2>2. CASE k = AGGREGATE
    <3>1. ErrorMembers(rows, k) = ToSet(ToolsOf(rows))
      <4>1. PICK all : all = ToSet(ToolsOf(rows))
        OBVIOUS
      <4> QED
        BY <2>2, <4>1 DEF ErrorMembers, OtherTools, AGGREGATE
    <3>2. rows[r].tool \in ToSet(ToolsOf(rows))
      <4>1. rows[r].tool \in ToolSet(rows)
        BY <2>1 DEF ToolSet
      <4>2. Enumerates(ToolsOf(rows), ToolSet(rows))
        BY ToolsIs DEF CallRows
      <4> QED
        BY <4>1, <4>2 DEF Enumerates, ToSet
    <3>3. r \in RowsAt(rows, ts, ErrorMembers(rows, k))
      BY <2>1, <3>1, <3>2 DEF RowsAt
    <3> QED
      BY <3>3, RatesAre
  <2>3. CASE k # OtherTools /\ k \in ToSet(ToolsOf(In(rows, ts))) /\ k # AGGREGATE
    <3> DEFINE at == {i \in DOMAIN rows : rows[i].ts = ts}
               here == In(rows, ts)
    <3>1. here = At(rows, at) /\ at \in SUBSET DOMAIN rows
      BY DEF In, Where
    <3> HIDE DEF at, here
    <3>2. here \in Seq({rows[i] : i \in at})
      BY <3>1, AtIs DEF CallRows
    <3>3. Enumerates(ToolsOf(here), ToolSet(here))
      BY <3>2, ToolsIs
    <3>4. k \in ToolSet(here)
      <4>1. k \in ToSet(ToolsOf(here))
        BY <2>3 DEF here
      <4>2. PICK j \in DOMAIN ToolsOf(here) : ToolsOf(here)[j] = k
        BY <4>1 DEF ToSet
      <4> QED
        BY <3>3, <4>2 DEF Enumerates
    <3>5. PICK j \in DOMAIN here : here[j].tool = k
      BY <3>4 DEF ToolSet
    <3>6. PICK i \in at : here[j] = rows[i]
      BY <3>2, <3>5
    <3>7. i \in DOMAIN rows /\ rows[i].ts = ts /\ rows[i].tool = k
      BY <3>1, <3>5, <3>6 DEF at
    <3>8. ErrorMembers(rows, k) = {k}
      BY <2>3 DEF ErrorMembers
    <3>9. i \in RowsAt(rows, ts, ErrorMembers(rows, k))
      BY <3>7, <3>8 DEF RowsAt
    <3> QED
      BY <3>9, RatesAre
  <2> QED
    BY <2>2, <2>3
<1>2. points = At(Computed(raw), {i \in DOMAIN Computed(raw) : Computed(raw)[i].at.total > 0})
  <2>1. k \in ToSet(visibleTools(rows)) \cup {AGGREGATE, OtherTools}
    BY DEF ErrorBoxes
  <2> QED
    BY <2>1 DEF ErrorSeries, Where, Apply
<1>3. Enumerates(B, TimesOf(rows)) /\ Len(B) \in Nat /\ DOMAIN B = 1 .. Len(B)
  BY BucketsAre DEF Enumerates
<1>4. PICK b \in DOMAIN B : B[b] = ts
  BY <1>3 DEF Enumerates
<1> DEFINE Z == {raw[i] : i \in DOMAIN B}
<1>5. raw \in [1 .. Len(B) -> Z]
  BY <1>3
<1>6. \A i \in DOMAIN B : /\ raw[i].ts = B[i] /\ raw[i].at = TallyAt(rows, B[i], k)
                          /\ raw[i].at.total \in Nat /\ raw[i].at.error \in 0 .. raw[i].at.total
  <2> SUFFICES ASSUME NEW i \in DOMAIN B
               PROVE  /\ raw[i].ts = B[i] /\ raw[i].at = TallyAt(rows, B[i], k)
                      /\ raw[i].at.total \in Nat /\ raw[i].at.error \in 0 .. raw[i].at.total
    OBVIOUS
  <2>1. raw[i].ts = B[i] /\ raw[i].at = TallyAt(rows, B[i], k)
    OBVIOUS
  <2> HIDE DEF raw, B
  <2> QED
    BY <2>1, RatesAre
<1>7. DOMAIN raw = DOMAIN B
  OBVIOUS
<1> HIDE DEF raw, B, Z, points
<1>8. Computed(raw) = raw /\ raw \in Seq(Z)
  BY <1>3, <1>5, ComputedIs
<1>9. points = At(raw, J) /\ J \in SUBSET DOMAIN raw
  BY <1>2, <1>8
<1>10. b \in J
  BY <1>1, <1>4, <1>6, <1>7
<1>11. \A i \in J : /\ raw[i].at.total \in Nat \ {0}
                    /\ raw[i].at.error \in 0 .. raw[i].at.total
  BY <1>6, <1>7
<1> HIDE DEF J
<1>12. points \in Seq(Y) /\ \E i \in DOMAIN points : points[i] = raw[b]
  BY <1>8, <1>9, <1>10, AtIs
<1>13. Rated(points)
  <2>1. \A p \in Y : p.at.total \in Nat \ {0} /\ p.at.error \in 0 .. p.at.total
    BY <1>11
  <2> HIDE DEF Y
  <2>2. \A i \in DOMAIN points : points[i] \in Y
    BY <1>12
  <2> QED
    BY <2>1, <2>2 DEF Rated
<1>14. \A i \in DOMAIN points : Ema(points)[i].num <= Ema(points)[i].den
  <2> HIDE DEF Y
  <2> QED
    BY <1>12, <1>13, EmaIsShare
<1>15. raw[b].ts = ts
  BY <1>4, <1>6
<1> QED
  BY <1>12, <1>14, <1>15 DEF points

LEMMA ErrorTipAgrees ==
  ASSUME NEW rows, CallRows(rows), ErrorRows(rows), rows # <<>>, NEW checked,
         NEW bucket \in Int, NEW x \in Int
  PROVE  ErrorTipRight(rows, checked, bucket, x)
<1> DEFINE B == Buckets(rows)
           n == Len(B)
           dist(i) == Abs(2 * B[i] + bucket - x)
           d == [i \in 1 .. n |-> dist(i)]
           at == Nearest(DOMAIN B, LAMBDA i : dist(i))
           tip == ErrorTip(rows, checked, bucket, x)
<1>1. /\ Enumerates(B, TimesOf(rows)) /\ TimesOf(rows) \in SUBSET Int
      /\ DOMAIN B = 1 .. n /\ n \in Nat /\ B \in Seq(TimesOf(rows))
  BY BucketsAre DEF Enumerates
<1>2. n # 0
  <2>1. rows \in Seq(ToSet(rows))
    BY DEF CallRows
  <2>2. 1 \in DOMAIN rows
    BY <2>1
  <2>3. rows[1].ts \in TimesOf(rows)
    BY <2>2 DEF TimesOf
  <2> HIDE DEF B
  <2> QED
    BY <1>1, <2>3 DEF Enumerates
<1>3. tip.ts = B[at]
  BY DEF ErrorTip
<1>4. at = CHOOSE i \in DOMAIN B : \A j \in DOMAIN B : dist(i) < dist(j) \/ (dist(i) = dist(j) /\ i <= j)
  BY DEF Nearest
<1>5. \A k \in tip.lines :
        \/ k = AGGREGATE
        \/ k = OtherTools /\ TallyAt(rows, tip.ts, k).total > 0
        \/ k # OtherTools /\ k \in ToSet(ToolsOf(In(rows, tip.ts)))
  BY DEF ErrorTip
<1> HIDE DEF B, at, tip
<1>6. \A i \in 1 .. n : dist(i) \in Nat
  <2> SUFFICES ASSUME NEW i \in 1 .. n PROVE dist(i) \in Nat
    OBVIOUS
  <2>1. B[i] \in Int
    BY <1>1
  <2> QED
    BY <2>1 DEF Abs
<1> HIDE DEF dist, n
<1>7. d \in [1 .. n -> Nat] /\ \A i \in 1 .. n : d[i] = dist(i)
  BY <1>6
<1> HIDE DEF d
<1>8. \E i \in 1 .. n : \A j \in 1 .. n : dist(i) < dist(j) \/ (dist(i) = dist(j) /\ i <= j)
  <2>1. PICK i \in 1 .. n : \A j \in 1 .. n : d[i] < d[j] \/ (d[i] = d[j] /\ i <= j)
    BY <1>1, <1>2, <1>7, SomePlaceNearest
  <2> QED
    BY <1>7, <2>1
<1>9. at \in 1 .. n
  BY <1>1, <1>4, <1>8
<1>10. tip.ts \in TimesOf(rows)
  BY <1>1, <1>3, <1>9
<1> SUFFICES ASSUME NEW k \in tip.lines \cap ErrorBoxes(rows)
             PROVE  LET points == ErrorSeries(rows, k)
                    IN  \E i \in DOMAIN points : /\ points[i].ts = tip.ts
                                                 /\ Ema(points)[i].num <= Ema(points)[i].den
  BY DEF ErrorTipRight, tip
<1> QED
  BY <1>5, <1>10, SaidIsDrawn

(***************************************************************************)
(* What the tooltips say: the stack of the tool usage                      *)
(***************************************************************************)
(* A finite set as a sequence.                                             *)
LEMMA SetToSeqLists ==
  ASSUME NEW S, IsFiniteSet(S)
  PROVE  \E T \in SUBSET S : Enumerates(SetToSeq(S), T)
<1> DEFINE n == Cardinality(S)
           f == SetToSeq(S)
           T == {f[i] : i \in 1 .. n}
<1>1. n \in Nat /\ ExistsBijection(1 .. n, S)
  BY FS_CardinalityType
<1>2. \E g \in [1 .. n -> S] : IsInjective(g)
  BY <1>1 DEF ExistsBijection, Bijection, Injection, IsInjective
<1>3. f \in [1 .. n -> S] /\ IsInjective(f)
  BY <1>2 DEF SetToSeq
<1> HIDE DEF n, f
<1>4. T \subseteq S /\ f \in [1 .. n -> T]
  BY <1>3
<1>5. Enumerates(f, T)
  <2>1. f \in Seq(T) /\ DOMAIN f = 1 .. n
    BY <1>1, <1>4
  <2> QED
    BY <1>3, <2>1 DEF Enumerates, IsInjective
<1> QED
  BY <1>4, <1>5 DEF f

(* Two lists without a common element, one after the other.                *)
LEMMA ListsJoin ==
  ASSUME NEW S, NEW T, S \cap T = {}, NEW a, NEW b, Enumerates(a, S), Enumerates(b, T)
  PROVE  Enumerates(a \o b, S \cup T)
<1> DEFINE X == S \cup T
           c == a \o b
           m == Len(a)
           n == Len(b)
<1>1. a \in Seq(X) /\ b \in Seq(X) /\ m \in Nat /\ n \in Nat /\ DOMAIN a = 1 .. m /\ DOMAIN b = 1 .. n
  BY DEF Enumerates
<1>2. /\ c \in Seq(X) /\ Len(c) = m + n
      /\ \A j \in 1 .. m : c[j] = a[j]
      /\ \A j \in 1 .. n : c[m + j] = b[j]
  BY <1>1, ConcatPlaces
<1>3. /\ \A k \in 1 .. m : a[k] \in S
      /\ \A k \in 1 .. n : b[k] \in T
  BY <1>1 DEF Enumerates
<1> HIDE DEF X, c, m, n
<1>4. DOMAIN c = 1 .. m + n
  BY <1>2
<1>5. \A k \in 1 .. m + n : k \in 1 .. m \/ (k - m \in 1 .. n /\ k = m + (k - m))
  BY <1>1
<1>6. \A x \in X : \E k \in DOMAIN c : c[k] = x
  <2> SUFFICES ASSUME NEW x \in X PROVE \E k \in 1 .. m + n : c[k] = x
    BY <1>4
  <2>1. ASSUME x \in S PROVE \E k \in 1 .. m + n : c[k] = x
    <3>1. PICK k \in 1 .. m : a[k] = x
      BY <1>1, <2>1 DEF Enumerates
    <3> QED
      BY <1>1, <1>2, <3>1
  <2>2. ASSUME x \in T PROVE \E k \in 1 .. m + n : c[k] = x
    <3>1. PICK k \in 1 .. n : b[k] = x
      BY <1>1, <2>2 DEF Enumerates
    <3>2. m + k \in 1 .. m + n
      BY <1>1
    <3> QED
      BY <1>2, <3>1, <3>2
  <2> QED
    BY <2>1, <2>2 DEF X
<1>7. \A j, k \in DOMAIN c : c[j] = c[k] => j = k
  <2> SUFFICES ASSUME NEW j \in 1 .. m + n, NEW k \in 1 .. m + n, c[j] = c[k] PROVE j = k
    BY <1>4
  <2>1. CASE j \in 1 .. m /\ k \in 1 .. m
    BY <1>1, <1>2, <2>1 DEF Enumerates
  <2>2. CASE j \notin 1 .. m /\ k \notin 1 .. m
    <3>1. b[j - m] = b[k - m] /\ j - m \in 1 .. n /\ k - m \in 1 .. n
      BY <1>2, <1>5, <2>2
    <3>2. \A p, q \in 1 .. n : b[p] = b[q] => p = q
      BY <1>1 DEF Enumerates
    <3>3. j - m = k - m
      BY <3>1, <3>2
    <3> QED
      BY <1>1, <3>3
  <2>3. CASE (j \in 1 .. m) # (k \in 1 .. m)
    <3>1. \A i \in 1 .. m + n : IF i \in 1 .. m THEN c[i] \in S ELSE c[i] \in T
      <4> SUFFICES ASSUME NEW i \in 1 .. m + n PROVE IF i \in 1 .. m THEN c[i] \in S ELSE c[i] \in T
        OBVIOUS
      <4>1. CASE i \in 1 .. m
        BY <1>2, <1>3, <4>1
      <4>2. CASE i \notin 1 .. m
        BY <1>2, <1>3, <1>5, <4>2
      <4> QED
        BY <4>1, <4>2
    <3> QED
      BY <2>3, <3>1
  <2> QED
    BY <2>1, <2>2, <2>3
<1> QED
  BY <1>2, <1>6, <1>7 DEF Enumerates, X, c

(* A set and the list of it.                                               *)
LEMMA ListedSet ==
  ASSUME NEW S, NEW s, Enumerates(s, S)
  PROVE  ToSet(s) = S
<1>1. \A k \in DOMAIN s : s[k] \in S
  BY DEF Enumerates
<1> QED
  BY <1>1 DEF Enumerates, ToSet

(* Whatever is checked, the stack is a list of layers.                     *)
LEMMA StackIs ==
  ASSUME NEW rows, CallRows(rows), NEW checked, IsFiniteSet(DOMAIN checked)
  PROVE  \E X : layers(rows, checked) \in Seq(X)
<1> DEFINE P == promoted(rows)
           list == promotedList(rows)
           on == usageSel(rows, checked)
           kept == At(list, {i \in DOMAIN list : list[i] \in on})
           lost == on \ (ToSet(kept) \cup {OtherTools})
<1>1. bands(rows, checked) = MostCalled(rows, kept \o SetToSeq(lost))
  BY DEF bands, Where
<1>2. Enumerates(list, P)
  BY ToolLists
<1>3. IsFiniteSet(on)
  <2>1. IsFiniteSet(P)
    BY <1>2, ListedFinite
  <2>2. IsFiniteSet(P \cup {OtherTools} \cup DOMAIN checked)
    BY <2>1, FS_Singleton, FS_Union
  <2>3. on \subseteq P \cup {OtherTools} \cup DOMAIN checked
    BY DEF usageSel, Checked
  <2> HIDE DEF on, P
  <2> QED
    BY <2>2, <2>3, FS_Subset
<1> HIDE DEF P, list, on
<1>4. Enumerates(kept, P \cap on)
  BY <1>2, KeptIs
<1>5. ToSet(kept) = P \cap on
  BY <1>4, ListedSet
<1>6. IsFiniteSet(lost)
  BY <1>3, FS_Subset
<1> HIDE DEF kept, lost
<1>7. PICK T \in SUBSET lost : Enumerates(SetToSeq(lost), T)
  BY <1>6, SetToSeqLists
<1>8. (P \cap on) \cap T = {}
  BY <1>5, <1>7 DEF lost
<1>9. Enumerates(bands(rows, checked), (P \cap on) \cup T)
  BY <1>1, <1>4, <1>7, <1>8, ListsJoin, MostCalledIs
<1> DEFINE X == (P \cap on) \cup T \cup {OtherTools}
           last == IF showOther(rows, checked) THEN <<OtherTools>> ELSE <<>>
<1>10. bands(rows, checked) \in Seq(X) /\ last \in Seq(X)
  <2> DEFINE Y == (P \cap on) \cup T
  <2>1. bands(rows, checked) \in Seq(Y)
    BY <1>9 DEF Enumerates
  <2>2. Y \subseteq X /\ OtherTools \in X
    OBVIOUS
  <2> HIDE DEF X, Y
  <2> QED
    BY <2>1, <2>2
<1>11. layers(rows, checked) = bands(rows, checked) \o last
  BY DEF layers
<1> QED
  BY <1>10, <1>11, ConcatPlaces

(* A layer counts a natural number of calls.                               *)
LEMMA CallsType ==
  ASSUME NEW rows, CallRows(rows), NEW ts, NEW layer
  PROVE  Calls(rows, ts, layer) \in Nat
<1> DEFINE S == RowsAt(rows, ts, Members(rows, layer))
           f == CallsOf(rows)
<1>1. IsFiniteSet(Members(rows, layer))
  <2>1. Enumerates(otherTools(rows), ToolSet(rows) \ promoted(rows))
    BY ToolLists
  <2>2. ToSet(otherTools(rows)) = ToolSet(rows) \ promoted(rows)
    BY <2>1 DEF Enumerates, ToSet
  <2>3. IsFiniteSet(ToSet(otherTools(rows)))
    BY <2>1, <2>2, ListedFinite
  <2> QED
    BY <2>3, FS_Singleton DEF Members
<1>2. Calls(rows, ts, layer) = SumFunctionOnSet(f, S)
  BY <1>1, CallsAre
<1>3. S \in SUBSET DOMAIN rows
  BY DEF RowsAt
<1>4. \A i \in DOMAIN rows : rows[i].n \in Nat
  BY <1>3, RowsFinite
<1>5. \A i \in DOMAIN rows : f[i] \in Int /\ f[i] >= 0
  BY <1>4 DEF CallsOf
<1> HIDE DEF S, f
<1>6. IsFiniteSet(S)
  BY <1>3, RowsFinite
<1> QED
  BY <1>2, <1>3, <1>5, <1>6, SumType

(* What stands in a real column of the stack.                              *)
Stacked(rows, stack, ts) == [k \in DOMAIN stack |-> Calls(rows, ts, stack[k])]
LEMMA ColumnIs ==
  ASSUME NEW rows, CallRows(rows), NEW X, NEW stack \in Seq(X), NEW ts
  PROVE  LET column == RealColumn(rows, stack, ts)
             weight == Stacked(rows, stack, ts)
         IN  /\ column.ts = 2 * ts /\ column.weight = weight /\ weight \in Seq(Nat)
             /\ column.whole = SumFunctionOnSet(weight, DOMAIN stack)
             /\ column.whole \in Nat
             /\ \A k \in DOMAIN stack : weight[k] <= column.whole
<1> DEFINE column == RealColumn(rows, stack, ts)
           weight == Stacked(rows, stack, ts)
           n == Len(stack)
<1>1. n \in Nat /\ DOMAIN stack = 1 .. n
  OBVIOUS
<1>2. weight \in [1 .. n -> Nat] /\ weight = [k \in DOMAIN stack |-> weight[k]]
  BY <1>1, CallsType DEF Stacked
<1>3. column = [ts |-> 2 * ts, weight |-> Computed(weight), whole |-> SumOver(Computed(weight), LAMBDA w : w)]
  BY DEF RealColumn, Column, Apply, Stacked
<1> HIDE DEF column, weight, n
<1>5. Computed(weight) = weight /\ weight \in Seq(Nat)
  BY <1>1, <1>2, ComputedIs
<1>6. SumOver(weight, LAMBDA w : w) = SumFunctionOnSet(weight, DOMAIN stack)
  <2>1. DOMAIN weight = DOMAIN stack
    BY <1>1, <1>2
  <2> QED
    BY <1>2, <2>1 DEF SumOver, SumEach
<1>7. column.ts = 2 * ts /\ column.weight = weight /\ column.whole = SumOver(weight, LAMBDA w : w)
  BY <1>3, <1>5
<1>8. IsFiniteSet(DOMAIN stack)
  BY PlacesFinite
<1>9. \A k \in DOMAIN stack : weight[k] \in Nat /\ weight[k] >= 0 /\ weight[k] \in Int
  BY <1>1, <1>2
<1>10. SumFunctionOnSet(weight, DOMAIN stack) \in Nat
  BY <1>8, <1>9, SumType
<1>11. \A k \in DOMAIN stack : weight[k] <= SumFunctionOnSet(weight, DOMAIN stack)
  BY <1>8, <1>9, SumAtLeast
<1>12. column.whole = SumFunctionOnSet(weight, DOMAIN stack)
  BY <1>6, <1>7
<1> QED
  BY <1>5, <1>7, <1>10, <1>11, <1>12 DEF column, weight

(* The columns of the stack stand at different times, and one that does    *)
(* not stand for a bucket does not stand where a bucket's does.            *)
LEMMA GridIs ==
  ASSUME NEW rows, CallRows(rows), NEW X, NEW stack \in Seq(X), NEW bucket \in Nat
  PROVE  LET grid == Grid(rows, stack, bucket)
             B == Buckets(rows)
         IN  /\ DOMAIN grid \subseteq Nat
             /\ \A i \in DOMAIN grid :
                  /\ grid[i].ts \in Int
                  /\ \/ \E b \in DOMAIN B : grid[i] = RealColumn(rows, stack, B[b])
                     \/ \A b \in DOMAIN B : 2 * B[b] # grid[i].ts
             /\ \A i, j \in DOMAIN grid : grid[i].ts = grid[j].ts => i = j
<1> DEFINE B == Buckets(rows)
           n == Len(B)
           f == [b \in DOMAIN B |-> RealColumn(rows, stack, B[b])]
           S == {f[b] : b \in DOMAIN B}
           real == Computed(f)
           a == EdgeColumn(real[1], real[2], real[1].ts - bucket)
           z == EdgeColumn(real[n], real[n - 1], real[n].ts + bucket)
           grid == Grid(rows, stack, bucket)
<1>1. /\ n \in Nat /\ DOMAIN B = 1 .. n
      /\ \A b \in 1 .. n : B[b] \in Int
      /\ \A j, k \in 1 .. n : j < k => B[j] < B[k]
  <2>1. B \in Seq(TimesOf(rows)) /\ TimesOf(rows) \in SUBSET Int
    BY BucketsAre DEF Enumerates
  <2>2. \A j, k \in DOMAIN B : j < k => B[j] < B[k]
    BY BucketsAre
  <2> HIDE DEF B
  <2> QED
    BY <2>1, <2>2
<1>2. /\ f \in [1 .. n -> S]
      /\ \A b \in 1 .. n : f[b] = RealColumn(rows, stack, B[b]) /\ f[b].ts = 2 * B[b]
  BY <1>1 DEF RealColumn, Column
<1>3. grid = LET m == Len(real)
             IN  IF m < 2 \/ bucket = 0 THEN real
                 ELSE <<EdgeColumn(real[1], real[2], real[1].ts - bucket)>> \o real
                      \o <<EdgeColumn(real[m], real[m - 1], real[m].ts + bucket)>>
  BY DEF Grid, Apply
<1>4. a.ts = real[1].ts - bucket /\ z.ts = real[n].ts + bucket
  BY DEF EdgeColumn, Column
<1> HIDE DEF f, S, B, n
<1>5. real = f /\ f \in Seq(S) /\ Len(f) = n
  BY <1>1, <1>2, ComputedIs
<1>6. /\ \A i \in DOMAIN f : /\ f[i].ts \in Int
                             /\ \E b \in DOMAIN B : f[i] = RealColumn(rows, stack, B[b])
      /\ \A i, j \in DOMAIN f : f[i].ts = f[j].ts => i = j
      /\ DOMAIN f = 1 .. n
  <2>1. DOMAIN f = 1 .. n
    BY <1>2
  <2>2. \A i \in 1 .. n : f[i].ts \in Int /\ \E b \in DOMAIN B : f[i] = RealColumn(rows, stack, B[b])
    <3> SUFFICES ASSUME NEW i \in 1 .. n PROVE f[i].ts \in Int /\ \E b \in DOMAIN B : f[i] = RealColumn(rows, stack, B[b])
      OBVIOUS
    <3>1. B[i] \in Int /\ f[i].ts = 2 * B[i] /\ i \in DOMAIN B /\ f[i] = RealColumn(rows, stack, B[i])
      BY <1>1, <1>2
    <3>2. 2 * B[i] \in Int
      BY <3>1
    <3> QED
      BY <3>1, <3>2
  <2>3. ASSUME NEW i \in 1 .. n, NEW j \in 1 .. n, f[i].ts = f[j].ts PROVE i = j
    <3>1. B[i] \in Int /\ B[j] \in Int /\ 2 * B[i] = 2 * B[j]
      BY <1>1, <1>2, <2>3
    <3>2. ~(B[i] < B[j]) /\ ~(B[j] < B[i])
      BY <3>1
    <3> QED
      BY <1>1, <3>2
  <2> QED
    BY <2>1, <2>2, <2>3
<1>7. CASE n < 2 \/ bucket = 0
  <2>1. grid = f
    BY <1>3, <1>5, <1>7
  <2> HIDE DEF grid
  <2>2. DOMAIN grid \subseteq Nat
    BY <1>1, <1>6, <2>1
  <2> QED
    BY <1>6, <2>1, <2>2 DEF grid, B
<1>8. CASE ~(n < 2 \/ bucket = 0)
  <2>1. grid = <<a>> \o f \o <<z>>
    BY <1>3, <1>5, <1>8
  <2>2. a.ts = 2 * B[1] - bucket /\ z.ts = 2 * B[n] + bucket
    BY <1>1, <1>2, <1>4, <1>5, <1>8
  <2> HIDE DEF grid, a, z, real
  <2> DEFINE Y == S \cup {a, z}
             c == <<a>> \o f
  <2>3. <<a>> \in Seq(Y) /\ <<z>> \in Seq(Y) /\ Len(<<a>>) = 1 /\ Len(<<z>>) = 1 /\ <<a>>[1] = a /\ <<z>>[1] = z
    OBVIOUS
  <2>4. f \in Seq(Y)
    BY <1>5
  <2>5. c \in Seq(Y) /\ Len(c) = 1 + n /\ c[1] = a /\ \A j \in 1 .. n : c[1 + j] = f[j]
    BY <1>1, <1>5, <2>3, <2>4, ConcatPlaces
  <2> HIDE DEF Y, c
  <2>6. /\ grid \in Seq(Y) /\ Len(grid) = n + 2
        /\ \A j \in 1 .. 1 + n : grid[j] = c[j]
        /\ grid[n + 2] = z
    <3>1. /\ c \o <<z>> \in Seq(Y) /\ Len(c \o <<z>>) = 1 + n + 1
          /\ \A j \in 1 .. 1 + n : (c \o <<z>>)[j] = c[j]
          /\ \A j \in 1 .. 1 : (c \o <<z>>)[1 + n + j] = <<z>>[j]
      BY <2>3, <2>5, ConcatPlaces
    <3>2. grid = c \o <<z>>
      BY <2>1 DEF c
    <3>3. (c \o <<z>>)[1 + n + 1] = z
      BY <2>3, <3>1
    <3>4. 1 + n + 1 = n + 2
      BY <1>1
    <3> QED
      BY <3>1, <3>2, <3>3, <3>4
  <2>7. /\ DOMAIN grid = 1 .. n + 2 /\ grid[1] = a /\ grid[n + 2] = z
        /\ \A j \in 1 .. n : grid[1 + j] = f[j]
    BY <1>1, <2>5, <2>6
  <2>8. /\ grid[1].ts = 2 * B[1] - bucket /\ grid[n + 2].ts = 2 * B[n] + bucket
        /\ \A j \in 1 .. n : grid[1 + j].ts = 2 * B[j] /\ grid[1 + j] = RealColumn(rows, stack, B[j])
    BY <1>2, <2>2, <2>7
  <2>9. \A b \in 1 .. n : B[1] <= B[b] /\ B[b] <= B[n]
    BY <1>1
  <2>10. \A i \in 1 .. n + 2 : i = 1 \/ i = n + 2 \/ (i - 1 \in 1 .. n /\ i = 1 + (i - 1))
    BY <1>1
  <2>11. \A i \in 1 .. n + 2 : i = 1 \/ i = n + 2 \/ \E j \in 1 .. n : i = 1 + j
    BY <2>10
  <2>12. \A i, j \in 1 .. n + 2 : i < j => grid[i].ts < grid[j].ts
    <3> SUFFICES ASSUME NEW i \in 1 .. n + 2, NEW j \in 1 .. n + 2, i < j PROVE grid[i].ts < grid[j].ts
      OBVIOUS
    <3>1. B[1] \in Int /\ B[n] \in Int /\ B[1] <= B[n] /\ bucket > 0
      BY <1>1, <1>8
    <3>2. CASE i = 1 /\ j = n + 2
      BY <2>8, <3>1, <3>2
    <3>3. ASSUME i = 1, NEW l \in 1 .. n, j = 1 + l PROVE grid[i].ts < grid[j].ts
      <4>1. B[l] \in Int /\ B[1] <= B[l] /\ grid[i].ts = 2 * B[1] - bucket /\ grid[j].ts = 2 * B[l]
        BY <1>1, <2>8, <2>9, <3>3
      <4> QED
        BY <3>1, <4>1
    <3>4. ASSUME NEW k \in 1 .. n, i = 1 + k, j = n + 2 PROVE grid[i].ts < grid[j].ts
      <4>1. B[k] \in Int /\ B[k] <= B[n] /\ grid[i].ts = 2 * B[k] /\ grid[j].ts = 2 * B[n] + bucket
        BY <1>1, <2>8, <2>9, <3>4
      <4> QED
        BY <3>1, <4>1
    <3>5. ASSUME NEW k \in 1 .. n, i = 1 + k, NEW l \in 1 .. n, j = 1 + l PROVE grid[i].ts < grid[j].ts
      <4>1. k < l
        BY <3>5
      <4>2. B[k] < B[l] /\ B[k] \in Int /\ B[l] \in Int
        BY <1>1, <4>1
      <4> QED
        BY <2>8, <3>5, <4>2
    <3>6. i # n + 2 /\ j # 1
      BY <1>1
    <3> QED
      BY <2>11, <3>2, <3>3, <3>4, <3>5, <3>6
  <2>13. \A i, j \in DOMAIN grid : grid[i].ts = grid[j].ts => i = j
    <3>0. \A i \in 1 .. n + 2 : grid[i].ts \in Int
      <4>1. B[1] \in Int /\ B[n] \in Int
        BY <1>1, <1>8
      <4>2. grid[1].ts \in Int /\ grid[n + 2].ts \in Int
        BY <2>8, <4>1
      <4>3. \A j \in 1 .. n : grid[1 + j].ts \in Int
        <5> SUFFICES ASSUME NEW j \in 1 .. n PROVE grid[1 + j].ts \in Int
          OBVIOUS
        <5>1. B[j] \in Int /\ grid[1 + j].ts = 2 * B[j]
          BY <1>1, <2>8
        <5> QED
          BY <5>1
      <4> QED
        BY <2>11, <4>2, <4>3
    <3> SUFFICES ASSUME NEW i \in 1 .. n + 2, NEW j \in 1 .. n + 2, grid[i].ts = grid[j].ts PROVE i = j
      BY <2>7
    <3>1. grid[i].ts \in Int /\ ~(grid[i].ts < grid[i].ts)
      BY <3>0
    <3>2. ~(i < j) /\ ~(j < i)
      BY <2>12, <3>1
    <3> QED
      BY <1>1, <3>2
  <2>14. \A i \in DOMAIN grid :
           /\ grid[i].ts \in Int
           /\ \/ \E b \in DOMAIN B : grid[i] = RealColumn(rows, stack, B[b])
              \/ \A b \in DOMAIN B : 2 * B[b] # grid[i].ts
    <3> SUFFICES ASSUME NEW i \in 1 .. n + 2
                 PROVE  /\ grid[i].ts \in Int
                        /\ \/ \E b \in DOMAIN B : grid[i] = RealColumn(rows, stack, B[b])
                           \/ \A b \in DOMAIN B : 2 * B[b] # grid[i].ts
      BY <2>7
    <3>1. ASSUME NEW j \in 1 .. n, i = 1 + j
          PROVE  grid[i].ts \in Int /\ \E b \in DOMAIN B : grid[i] = RealColumn(rows, stack, B[b])
      <4>1. B[j] \in Int /\ grid[i].ts = 2 * B[j] /\ grid[i] = RealColumn(rows, stack, B[j])
        BY <1>1, <2>8, <3>1
      <4>2. 2 * B[j] \in Int /\ j \in DOMAIN B
        BY <1>1, <4>1
      <4> QED
        BY <4>1, <4>2
    <3>2. ASSUME i = 1 \/ i = n + 2
          PROVE  grid[i].ts \in Int /\ \A b \in DOMAIN B : 2 * B[b] # grid[i].ts
      <4>1. B[1] \in Int /\ B[n] \in Int /\ bucket > 0
        BY <1>1, <1>8
      <4>2. ASSUME NEW b \in 1 .. n PROVE 2 * B[b] # 2 * B[1] - bucket /\ 2 * B[b] # 2 * B[n] + bucket
        <5>1. B[b] \in Int /\ B[1] <= B[b] /\ B[b] <= B[n]
          BY <1>1, <2>9
        <5> QED
          BY <4>1, <5>1, SMTT(30)
      <4>3. grid[i].ts \in {2 * B[1] - bucket, 2 * B[n] + bucket}
        BY <2>8, <3>2
      <4> QED
        BY <1>1, <4>1, <4>2, <4>3, SMTT(30)
    <3> QED
      BY <2>11, <3>1, <3>2
  <2>15. DOMAIN grid \subseteq Nat
    BY <1>1, <2>7
  <2> QED
    BY <2>13, <2>14, <2>15 DEF grid, B
<1> QED
  BY <1>7, <1>8

(* The layer under the cursor has a part of the bucket's calls, the one    *)
(* drawn there.                                                            *)
LEMMA UsageTipAgrees ==
  ASSUME NEW rows, CallRows(rows), NEW X, NEW stack \in Seq(X), NEW bucket \in Nat
  PROVE  UsageTipRight(rows, stack, bucket)
<1> DEFINE grid == Grid(rows, stack, bucket)
           B == Buckets(rows)
<1> SUFFICES ASSUME NEW i \in DOMAIN grid, NEW f \in 0 .. Heights,
                    UsageTip(rows, stack, grid, grid[i].ts, f) \notin {NoTip, Throws}
             PROVE  LET tip == UsageTip(rows, stack, grid, grid[i].ts, f)
                    IN  /\ i \in liveIdx(grid) /\ tip.of = grid[i].whole
                        /\ \E k \in DOMAIN stack :
                             stack[k] = tip.layer /\ grid[i].weight[k] = tip.calls /\ tip.calls > 0
  BY DEF UsageTipRight
<1> DEFINE x == grid[i].ts
           dist(j) == Abs(grid[j].ts - x)
           at == Nearest(DOMAIN grid, LAMBDA j : dist(j))
           column == grid[at]
           hit == {k \in DOMAIN stack : /\ Bottom(column, k) * Heights <= f * column.whole
                                        /\ f * column.whole < Top(column, k) * Heights}
           ts == column.ts \div 2
           counted == SumOver(stack, LAMBDA l : Calls(rows, ts, l))
           one == CHOOSE k \in hit : TRUE
           tip == UsageTip(rows, stack, grid, x, f)
<1>1. tip = IF grid = <<>> \/ hit = {} THEN NoTip
            ELSE IF \A b \in ToSet(B) : 2 * b # column.ts THEN Throws
            ELSE [layer |-> stack[one], calls |-> Calls(rows, ts, stack[one]), of |-> Max({1, counted})]
  BY Zenon DEF UsageTip
<1>2. at = CHOOSE j \in DOMAIN grid : \A k \in DOMAIN grid : dist(j) < dist(k) \/ (dist(j) = dist(k) /\ j <= k)
  BY DEF Nearest
<1>3. /\ DOMAIN grid \subseteq Nat
      /\ \A j \in DOMAIN grid :
           /\ grid[j].ts \in Int
           /\ \/ \E b \in DOMAIN B : grid[j] = RealColumn(rows, stack, B[b])
              \/ \A b \in DOMAIN B : 2 * B[b] # grid[j].ts
      /\ \A j, k \in DOMAIN grid : grid[j].ts = grid[k].ts => j = k
  BY GridIs
<1> HIDE DEF grid, B, at
<1>4. at = i
  <2>1. \A j \in DOMAIN grid : dist(j) \in Nat /\ (dist(j) = 0 => j = i)
    <3> SUFFICES ASSUME NEW j \in DOMAIN grid PROVE dist(j) \in Nat /\ (dist(j) = 0 => j = i)
      OBVIOUS
    <3>1. grid[j].ts \in Int /\ grid[i].ts \in Int
      BY <1>3
    <3>2. dist(j) \in Nat /\ (dist(j) = 0 => grid[j].ts = grid[i].ts)
      BY <3>1 DEF Abs
    <3> QED
      BY <1>3, <3>2
  <2>2. dist(i) = 0 /\ i \in Nat
    <3>1. grid[i].ts \in Int
      BY <1>3
    <3> QED
      BY <1>3, <3>1 DEF Abs
  <2> HIDE DEF dist
  <2>3. \A k \in DOMAIN grid : dist(i) < dist(k) \/ (dist(i) = dist(k) /\ i <= k)
    BY <2>1, <2>2
  <2>4. at \in DOMAIN grid /\ \A k \in DOMAIN grid : dist(at) < dist(k) \/ (dist(at) = dist(k) /\ at <= k)
    BY <1>2, <2>3
  <2>5. dist(at) = 0
    BY <2>1, <2>2, <2>4
  <2> QED
    BY <2>1, <2>4, <2>5
<1>5. column = grid[i]
  BY <1>4
<1>6. /\ hit # {} /\ \E b \in ToSet(B) : 2 * b = column.ts
      /\ tip = [layer |-> stack[one], calls |-> Calls(rows, ts, stack[one]), of |-> Max({1, counted})]
  <2> HIDE DEF hit, tip, one, ts, counted, column
  <2>1. tip \notin {NoTip, Throws}
    BY DEF tip
  <2> QED
    BY <1>1, <2>1
<1>7. PICK b \in DOMAIN B : column = RealColumn(rows, stack, B[b])
  <2>1. \E b \in DOMAIN B : 2 * B[b] = column.ts
    BY <1>6 DEF ToSet
  <2> QED
    BY <1>3, <1>5, <2>1
<1>8. B[b] \in Int
  BY BucketsAre DEF Enumerates, B
<1> DEFINE weight == Stacked(rows, stack, B[b])
<1>9. /\ column.ts = 2 * B[b] /\ column.weight = weight /\ weight \in Seq(Nat)
      /\ column.whole = SumFunctionOnSet(weight, DOMAIN stack)
      /\ column.whole \in Nat
      /\ \A k \in DOMAIN stack : weight[k] <= column.whole
      /\ DOMAIN weight = DOMAIN stack
      /\ \A k \in DOMAIN stack : weight[k] = Calls(rows, B[b], stack[k])
  <2> HIDE DEF column
  <2>1. /\ column.ts = 2 * B[b] /\ column.weight = weight /\ weight \in Seq(Nat)
        /\ column.whole = SumFunctionOnSet(weight, DOMAIN stack)
        /\ column.whole \in Nat
        /\ \A k \in DOMAIN stack : weight[k] <= column.whole
    <3> DEFINE c == RealColumn(rows, stack, B[b])
    <3>1. /\ c.ts = 2 * B[b] /\ c.weight = weight /\ weight \in Seq(Nat) /\ c.whole \in Nat
          /\ c.whole = SumFunctionOnSet(weight, DOMAIN stack)
          /\ \A k \in DOMAIN stack : weight[k] <= c.whole
      BY ColumnIs
    <3> HIDE DEF c, weight
    <3> QED
      BY <1>7, <3>1 DEF c
  <2>2. DOMAIN weight = DOMAIN stack /\ \A k \in DOMAIN stack : weight[k] = Calls(rows, B[b], stack[k])
    BY DEF Stacked
  <2> HIDE DEF weight
  <2> QED
    BY <2>1, <2>2
<1>10. ts = B[b]
  BY <1>8, <1>9
<1>11. one \in hit
  BY <1>6
<1>12. one \in DOMAIN stack /\ Bottom(column, one) * Heights <= f * column.whole
         /\ f * column.whole < Top(column, one) * Heights
  BY <1>11
<1>17. counted = SumFunctionOnSet(Stacked(rows, stack, ts), DOMAIN stack)
  BY DEF SumOver, SumEach, Stacked
<1> HIDE DEF one, hit, column, ts
<1>13. Bottom(column, one) \in Int
  <2> DEFINE v == SubSeq(weight, 1, one - 1)
             w == [k \in DOMAIN v |-> v[k]]
  <2>1. Bottom(column, one) = SumFunctionOnSet(w, DOMAIN v)
    BY <1>9 DEF Bottom, SumOver, SumEach
  <2>2. v \in Seq(Nat)
    <3>1. one \in Nat /\ one >= 1 /\ one - 1 <= Len(weight)
      BY <1>9, <1>12
    <3> HIDE DEF weight
    <3> QED
      BY <1>9, <3>1
  <2> HIDE DEF v
  <2>3. IsFiniteSet(DOMAIN v)
    BY <2>2, PlacesFinite
  <2>4. \A k \in DOMAIN v : w[k] \in Int
    BY <2>2
  <2> HIDE DEF w
  <2> QED
    BY <2>1, <2>3, <2>4, SumType
<1>14. weight[one] \in Nat
  <2> HIDE DEF weight
  <2> QED
    BY <1>9, <1>12
<1> HIDE DEF weight
<1>15. weight[one] > 0
  <2>1. Top(column, one) = Bottom(column, one) + weight[one]
    BY <1>9 DEF Top
  <2>2. ASSUME weight[one] = 0 PROVE FALSE
    <3>1. Top(column, one) = Bottom(column, one)
      BY <1>13, <2>1, <2>2
    <3>2. Bottom(column, one) * Heights \in Int
      BY <1>13, ToolPanelAssumption
    <3>3. f * column.whole \in Int
      <4>1. f \in Int /\ column.whole \in Int
        BY <1>9, ToolPanelAssumption
      <4> QED
        BY <4>1
    <3> QED
      BY <1>12, <3>1, <3>2, <3>3
  <2> QED
    BY <1>14, <2>2
<1>16. column.whole > 0
  <2>1. weight[one] <= column.whole /\ column.whole \in Nat
    BY <1>9, <1>12
  <2> QED
    BY <1>14, <1>15, <2>1
<1> HIDE DEF counted, tip
<1>18. counted = column.whole
  BY <1>9, <1>10, <1>17 DEF weight
<1>19. Max({1, counted}) = column.whole
  <2>1. Max({1, counted}) = IF 1 <= counted THEN counted ELSE 1
    <3>1. counted \in Int /\ 1 \in Int
      BY <1>9, <1>18
    <3> QED
      BY <3>1, MaxOf
  <2> QED
    BY <1>9, <1>16, <1>18, <2>1
<1>20. /\ tip.of = column.whole /\ tip.layer = stack[one] /\ tip.calls = Calls(rows, ts, stack[one])
  BY <1>6, <1>19
<1>21. tip.calls = weight[one] /\ column.weight[one] = weight[one]
  BY <1>9, <1>10, <1>12, <1>20
<1>22. i \in liveIdx(grid)
  BY <1>5, <1>16 DEF liveIdx
<1> QED
  BY <1>5, <1>12, <1>15, <1>20, <1>21, <1>22 DEF tip, grid

(* A model with a sub-panel has rows.                                      *)
LEMMA SubPanelRows ==
  ASSUME NEW all, CallRows(all), NEW m \in ToSet(errorModels(all))
  PROVE  \E i \in DOMAIN all : all[i].model = m
<1> DEFINE J == {i \in DOMAIN all : all[i].model # Synthetic}
           Y == {all[i] : i \in J}
           real == Real(all)
           f == [i \in DOMAIN real |-> real[i].model]
           Z == {f[i] : i \in DOMAIN real}
           some == Distinct(Computed(f))
           rank == [i \in DOMAIN some |-> -SumOver(OfModel(all, some[i]), LAMBDA r : r.n)]
<1>1. real = At(all, J) /\ J \in SUBSET DOMAIN all
  BY DEF Real, Where
<1>2. errorModels(all) = Ordered(some, Computed(rank))
  BY DEF errorModels, SortedBy, Apply
<1>3. \A i \in DOMAIN some : rank[i] = -SumOver(OfModel(all, some[i]), LAMBDA r : r.n)
  OBVIOUS
<1>4. ASSUME NEW k PROVE SumOver(OfModel(all, k), LAMBDA r : r.n) \in Int
  <2> DEFINE rows == OfModel(all, k)
             K == {i \in DOMAIN all : all[i].model = k}
             g == [i \in DOMAIN rows |-> rows[i].n]
  <2>1. SumOver(OfModel(all, k), LAMBDA r : r.n) = SumFunctionOnSet(g, DOMAIN rows)
    BY DEF SumOver, SumEach
  <2>2. rows = At(all, K) /\ K \in SUBSET DOMAIN all
    BY DEF OfModel, Where
  <2>3. \A i \in DOMAIN rows : g[i] = rows[i].n
    OBVIOUS
  <2> HIDE DEF rows, g, K
  <2>4. rows \in Seq({all[i] : i \in K})
    BY <2>2, AtIs DEF CallRows
  <2>5. \A i \in DOMAIN all : all[i].n \in Nat
    BY RowsFinite
  <2>6. \A i \in DOMAIN rows : g[i] \in Int
    <3> SUFFICES ASSUME NEW i \in DOMAIN rows PROVE g[i] \in Int
      OBVIOUS
    <3>1. rows[i] \in {all[j] : j \in K}
      BY <2>4
    <3> QED
      BY <2>2, <2>3, <2>5, <3>1
  <2>7. IsFiniteSet(DOMAIN rows)
    BY <2>4, PlacesFinite
  <2> QED
    BY <2>1, <2>6, <2>7, SumType
<1>5. rank = [i \in DOMAIN some |-> rank[i]]
  OBVIOUS
<1> HIDE DEF rank
<1>6. rank \in [DOMAIN some -> Int]
  <2>1. ASSUME NEW i \in DOMAIN some PROVE rank[i] \in Int
    <3>1. PICK v : v = SumOver(OfModel(all, some[i]), LAMBDA r : r.n)
      OBVIOUS
    <3>2. v \in Int
      BY <1>4, <3>1
    <3>3. rank[i] = -v
      BY <1>3, <3>1, Zenon
    <3> QED
      BY <3>2, <3>3
  <2> QED
    BY <1>5, <2>1
<1> HIDE DEF some, J
<1>7. real \in Seq({all[i] : i \in J})
  BY <1>1, AtIs DEF CallRows
<1> HIDE DEF real
<1>8. Z \subseteq {all[i].model : i \in J}
  <2> SUFFICES ASSUME NEW i \in DOMAIN real PROVE real[i].model \in {all[j].model : j \in J}
    BY DEF Z
  <2>1. real[i] \in {all[j] : j \in J}
    BY <1>7
  <2> QED
    BY <2>1
<1>9. Len(real) \in Nat /\ DOMAIN real = 1 .. Len(real)
  BY <1>7
<1>10. f \in [1 .. Len(real) -> Z]
  BY <1>9
<1>11. ToSet(f) = Z
  BY DEF ToSet
<1> HIDE DEF f, Z
<1>12. Computed(f) = f /\ f \in Seq(Z)
  BY <1>9, <1>10, ComputedIs
<1>13. Enumerates(some, Z)
  BY <1>11, <1>12, DistinctIs DEF some
<1>14. some \in Seq(Z) /\ Len(some) \in Nat /\ DOMAIN some = 1 .. Len(some)
  BY <1>13 DEF Enumerates
<1>15. Computed(rank) = rank
  BY <1>6, <1>14, ComputedIs
<1>16. errorModels(all) \in Seq(Z)
  BY <1>2, <1>6, <1>14, <1>15, OrderedInside
<1>17. m \in Z
  BY <1>16 DEF ToSet
<1> QED
  BY <1>1, <1>8, <1>17

(* Whatever body is on display and wherever the cursor is, a tooltip says  *)
(* what is drawn there: the layer of a stack with the calls and the total  *)
(* of its column, error lines with a point in the bucket, a percentile     *)
(* between the ends of the stretch drawn, a running total up to the end    *)
(* of the bin.                                                             *)
THEOREM TooltipsTrue == SpecPanels => []HoverAgreesWithDrawing
<1>1. ASSUME TypeOKPanels PROVE kind \in Kind /\ body \in Answers[kind] \cup {Empty}
  BY BodyIs, <1>1 DEF TypeOKPanels
<1>2. ASSUME TypeOKPanels, kind \in {"usage", "errors"} PROVE CallRows(body.rows)
  BY <1>1, <1>2, PanelsAssumption DEF CallRows
<1>3. ASSUME TypeOKPanels, kind = "usage"
      PROVE  UsageTipRight(body.rows, layers(body.rows, over), bucketMs)
  <2>1. CallRows(body.rows) /\ bucketMs \in Nat
    BY <1>2, <1>3 DEF TypeOKPanels
  <2>2. IsFiniteSet(DOMAIN over)
    BY <1>1, <1>3, PanelsAssumption DEF TypeOKPanels
  <2>3. PICK X : layers(body.rows, over) \in Seq(X)
    BY <2>1, <2>2, StackIs
  <2> QED
    BY <2>1, <2>3, UsageTipAgrees
<1>4. ASSUME TypeOKPanels, kind = "errors", NEW m \in SubPanels, NEW x \in Times
      PROVE  ErrorTipRight(OfModel(body.rows, m), OverOf(m), bucketMs, x)
  <2>1. CallRows(body.rows) /\ ErrorRows(body.rows)
    BY <1>1, <1>2, <1>4, PanelsAssumption
  <2>2. \E i \in DOMAIN body.rows : body.rows[i].model = m
    BY <2>1, <1>4, SubPanelRows DEF SubPanels
  <2>3. /\ CallRows(OfModel(body.rows, m)) /\ ErrorRows(OfModel(body.rows, m))
        /\ OfModel(body.rows, m) # <<>>
    BY <2>1, <2>2, ModelRows
  <2>4. bucketMs \in Int /\ x \in Int
    BY <1>4, PanelsAssumption DEF TypeOKPanels
  <2> QED
    BY <2>3, <2>4, ErrorTipAgrees
<1>5. ASSUME TypeOKPanels, kind \in {"latency", "responses"}, NEW x \in Times, NEW y \in Levels
      PROVE  LineTipRight(visible(series, over), visibleOutliers(body.outliers, series, over), x, y)
  BY <1>5, LineTipsOfPanel
<1>6. ASSUME TypeOKPanels, kind = "charts", OnPage(body) PROVE SeriesTipRight(body)
  <2>1. body.events # <<>>
    BY <1>6 DEF OnPage
  <2>2. ChartBody(body)
    BY <1>1, <1>6, PanelsAssumption
  <2> QED
    BY <2>1, <2>2, SeriesTipAgrees
<1>7. TypeOKPanels => HoverAgreesWithDrawing
  BY <1>3, <1>4, <1>5, <1>6 DEF HoverAgreesWithDrawing
<1> QED
  BY <1>7, PanelTypeCorrect, PTL

(***************************************************************************)
(* The charts and the summary: bins and buckets                            *)
(***************************************************************************)
(* Each width of a bin is a multiple of the ones before.                   *)
LEMMA WidthsNest ==
  ASSUME NEW i \in DOMAIN NiceBins, NEW j \in DOMAIN NiceBins, i <= j
  PROVE  \E m \in Nat \ {0} : NiceBins[j] = m * NiceBins[i]
<1>1. PICK n \in Nat : n = Len(NiceBins)
  BY ChartsAssumption
<1>2. DOMAIN NiceBins = 1 .. n /\ \A k \in 1 .. n : NiceBins[k] \in Nat
  BY <1>1, ChartsAssumption
<1>3. \A k \in 1 .. n - 1 : NiceBins[k] < NiceBins[k + 1] /\ NiceBins[k + 1] % NiceBins[k] = 0
  BY <1>1, ChartsAssumption
<1> DEFINE T == {k \in Nat : k \in i .. n /\ ~\E m \in Nat \ {0} : NiceBins[k] = m * NiceBins[i]}
<1>4. T = {}
  <2> SUFFICES ASSUME T # {} PROVE FALSE
    OBVIOUS
  <2>1. PICK k \in T : \A l \in T : k <= l
    BY LeastNat
  <2>2. k \in i .. n /\ i \in 1 .. n
    BY <1>2
  <2>3. CASE k = i
    <3>1. NiceBins[k] = 1 * NiceBins[i] /\ 1 \in Nat \ {0}
      BY <1>2, <2>2, <2>3
    <3> QED
      BY <2>1, <3>1
  <2>4. CASE k # i
    <3>1. k - 1 \in 1 .. n - 1 /\ k - 1 \in i .. n /\ ~(k <= k - 1) /\ k - 1 \in Nat /\ k - 1 + 1 = k
      BY <2>2, <2>4
    <3>2. k - 1 \notin T
      BY <2>1, <3>1
    <3>3. PICK m \in Nat \ {0} : NiceBins[k - 1] = m * NiceBins[i]
      BY <3>1, <3>2
    <3> HIDE DEF T
    <3>4. PICK u \in Nat, v \in Nat, w \in Nat : u = NiceBins[k - 1] /\ v = NiceBins[k] /\ w = NiceBins[i]
      BY <1>2, <2>2, <3>1
    <3>5. u < v /\ v % u = 0
      BY <1>3, <3>1, <3>4
    <3>6. u > 0
      <4>1. u # 0
        <5> SUFFICES ASSUME u = 0 PROVE FALSE
          OBVIOUS
        <5>1. NiceBins[1] > 0 /\ 1 \in 1 .. n
          BY <1>2, ChartsAssumption, <2>2
        <5>2. k - 1 # 1
          BY <3>4, <5>1
        <5>3. k - 2 \in 1 .. n - 1 /\ k - 2 + 1 = k - 1 /\ k - 2 \in 1 .. n
          BY <3>1, <5>2
        <5>4. NiceBins[k - 2] < NiceBins[k - 1] /\ NiceBins[k - 2] \in Nat
          BY <1>2, <1>3, <5>3
        <5> QED
          BY <3>4, <5>4
      <4> QED
        BY <4>1
    <3>7. PICK q \in Nat : q = v \div u
      BY <3>6
    <3>8. v = q * u
      BY <3>5, <3>6, <3>7
    <3>9. q # 0
      BY <3>5, <3>8
    <3>10. v = (q * m) * w /\ q * m \in Nat \ {0}
      <4>1. u = m * w
        BY <3>3, <3>4
      <4>2. q * (m * w) = (q * m) * w
        OBVIOUS
      <4>3. q * m \in Nat \ {0}
        BY <3>9
      <4> QED
        BY <3>8, <4>1, <4>2, <4>3
    <3> QED
      BY <2>1, <3>4, <3>10 DEF T
  <2> QED
    BY <2>3, <2>4
<1>5. j \in i .. n /\ j \in Nat
  BY <1>2
<1> QED
  BY <1>4, <1>5

(* A bin is a number of buckets of the server.                             *)
LEMMA BinOfBuckets ==
  ASSUME NEW range, NEW bucket \in ToSet(NiceBins), bucket > 0
  PROVE  \E m \in Nat \ {0} : dashboardBinMs(range, bucket) = m * bucket
<1> DEFINE fits == {b \in ToSet(NiceBins) : range.end - range.start >= MinBins * b}
           S == {NiceBins[1], bucket} \cup fits
<1>1. NiceBins \in Seq(Nat) /\ Len(NiceBins) > 0
  BY ChartsAssumption
<1>2. 1 \in DOMAIN NiceBins /\ ToSet(NiceBins) \subseteq Nat /\ S \subseteq ToSet(NiceBins)
  BY <1>1 DEF ToSet
<1>3. IsFiniteSet(ToSet(NiceBins))
  <2>1. IsFiniteSet(DOMAIN NiceBins)
    BY <1>1, PlacesFinite
  <2>2. ToSet(NiceBins) = {NiceBins[i] : i \in DOMAIN NiceBins}
    BY DEF ToSet
  <2> QED
    BY <1>1, <2>1, <2>2, ValuesFinite
<1>4. dashboardBinMs(range, bucket) = Max(S) /\ bucket \in S
  BY DEF dashboardBinMs
<1> HIDE DEF S
<1>5. IsFiniteSet(S) /\ S \in SUBSET Int /\ S # {}
  BY <1>2, <1>3, <1>4, FS_Subset
<1>6. Max(S) \in S /\ bucket <= Max(S)
  BY <1>4, <1>5, ExtremesAre
<1>7. PICK i \in DOMAIN NiceBins : NiceBins[i] = bucket
  BY DEF ToSet
<1>8. PICK j \in DOMAIN NiceBins : NiceBins[j] = Max(S)
  BY <1>2, <1>6 DEF ToSet
<1>9. CASE i <= j
  BY <1>4, <1>7, <1>8, <1>9, WidthsNest
<1>10. CASE ~(i <= j)
  <2>1. j <= i
    BY <1>1, <1>10
  <2>2. PICK m \in Nat \ {0} : bucket = m * Max(S)
    BY <1>7, <1>8, <2>1, WidthsNest
  <2>3. Max(S) \in Nat /\ bucket \in Nat
    BY <1>2, <1>6
  <2>4. Max(S) <= bucket
    BY <2>2, <2>3
  <2>5. Max(S) = 1 * bucket /\ 1 \in Nat \ {0}
    BY <1>6, <2>3, <2>4
  <2> QED
    BY <1>4, <2>5
<1> QED
  BY <1>9, <1>10

(* What a bin is, and the last one ends where the range does.              *)
LEMMA BinsAre ==
  ASSUME NEW range, range.start \in Int, range.end \in Int, range.start < range.end,
         NEW bin \in Nat \ {0}
  PROVE  \E n \in Nat \ {0} :
           LET bins == boundedTimeIntervals(range, bin)
           IN  /\ DOMAIN bins = 1 .. n /\ Len(bins) = n
               /\ range.start + n * bin >= range.end
               /\ \A k \in 1 .. n : /\ bins[k].start = range.start + (k - 1) * bin
                                    /\ bins[k].end \in {range.start + k * bin, range.end}
                                    /\ bins[k].end \in Int /\ bins[k].end <= range.end
                                    /\ range.start + k * bin \in Int
                                    /\ range.start + k * bin <= range.end
                                         => bins[k].end = range.start + k * bin
               /\ bins[n].end = range.end
<1> DEFINE a == range.start
           z == range.end
           n == (z - a + bin - 1) \div bin
           bins == boundedTimeIntervals(range, bin)
<1>0. a \in Int /\ z \in Int /\ a < z /\ bin \in Nat /\ bin > 0
  OBVIOUS
<1> HIDE DEF a, z
<1>1. /\ n \in Int /\ n * bin \in Int
      /\ n * bin <= z - a + bin - 1 /\ z - a + bin - 1 < n * bin + bin
  BY <1>0, Quotient
<1> HIDE DEF n
<1>2. n * bin >= z - a
  BY <1>0, <1>1
<1>3. n >= 1
  <2> SUFFICES ASSUME n <= 0 PROVE FALSE
    BY <1>1
  <2>1. n * bin <= 0
    BY <1>0, <1>1
  <2> QED
    BY <1>0, <1>1, <1>2, <2>1
<1>4. bins = [k \in 1 .. n |-> [start |-> a + (k - 1) * bin, end |-> Min({a + k * bin, z})]]
  BY DEF boundedTimeIntervals, n, a, z
<1> HIDE DEF bins
<1>5. DOMAIN bins = 1 .. n /\ Len(bins) = n
  BY <1>1, <1>3, <1>4
<1>6. ASSUME NEW k \in 1 .. n
      PROVE  /\ bins[k].start = a + (k - 1) * bin
             /\ bins[k].end \in {a + k * bin, z} /\ bins[k].end \in Int /\ bins[k].end <= z
             /\ a + k * bin \in Int
             /\ a + k * bin <= z => bins[k].end = a + k * bin
             /\ a + k * bin >= z => bins[k].end = z
  <2>1. a + k * bin \in Int
    BY <1>0
  <2>2. bins[k].start = a + (k - 1) * bin /\ bins[k].end = Min({a + k * bin, z})
    BY <1>4
  <2> QED
    BY <1>0, <2>1, <2>2, MinOf
<1>7. n \in 1 .. n /\ n \in Nat \ {0}
  BY <1>1, <1>3
<1>8. a + n * bin >= z
  BY <1>0, <1>1, <1>2
<1>9. bins[n].end = z
  BY <1>6, <1>7, <1>8
<1> QED
  BY <1>5, <1>6, <1>7, <1>8, <1>9 DEF a, z, bins

(* No bin splits a bucket.                                                 *)
LEMMA BucketsKept ==
  ASSUME NEW b, ChartBody(b), b.events # <<>>
  PROVE  BucketsWhole(b)
<1> DEFINE events == b.events
           range == rangeOf(b)
           bin == dashboardBinMs(range, b.bucket)
           bins == boundedTimeIntervals(range, bin)
           half == b.bucket \div 2
           first == events[1].ts
           last == events[Len(events)].ts
<1>1. /\ events \in Seq(ToSet(events)) /\ \A e \in ToSet(events) : e.ts \in Int
      /\ b.bucket \in Nat /\ b.bucket % 2 = 0 /\ events # <<>>
  BY DEF ChartBody, EventRows
<1>2. \A i, j \in DOMAIN events : i < j => events[i].ts <= events[j].ts
  BY DEF ChartBody, ByTime
<1>3. range.start \in Int /\ range.end \in Int /\ range.start < range.end
  BY RangeIs
<1>4. bin \in Nat \ {0}
  BY <1>1, BinIs
<1>5. PICK n \in Nat \ {0} :
         /\ DOMAIN bins = 1 .. n
         /\ range.start + n * bin >= range.end
         /\ \A k \in 1 .. n : /\ bins[k].start = range.start + (k - 1) * bin
                              /\ bins[k].end \in {range.start + k * bin, range.end}
  <2> HIDE DEF range, bin
  <2> QED
    BY <1>3, <1>4, BinsAre
<1>6. SUFFICES ASSUME NEW i \in DOMAIN events
               PROVE  \E k \in DOMAIN bins :
                        bins[k].start <= events[i].ts - half /\ events[i].ts + half <= bins[k].end
  BY DEF BucketsWhole
<1>7. /\ Len(events) \in Nat \ {0} /\ 1 \in DOMAIN events /\ Len(events) \in DOMAIN events
      /\ i \in 1 .. Len(events) /\ \A j \in DOMAIN events : events[j].ts \in Int
  <2> HIDE DEF events
  <2>1. events \in Seq(ToSet(events)) /\ events # <<>>
    BY <1>1
  <2>2. \A j \in DOMAIN events : events[j] \in ToSet(events)
    BY DEF ToSet
  <2> QED
    BY <1>1, <1>6, <2>1, <2>2
<1>8. PICK ts \in Int : ts = events[i].ts
  BY <1>7
<1>9. first \in Int /\ last \in Int /\ first <= ts /\ ts <= last
  <2>1. i = 1 \/ 1 < i
    BY <1>7
  <2>2. i = Len(events) \/ i < Len(events)
    BY <1>7
  <2> QED
    BY <1>2, <1>7, <1>8, <2>1, <2>2
<1>10. CASE b.bucket = 0
  <2> DEFINE wide == (last - first) \div 50
             pad == Max({FilePad, wide})
  <2>1. range.start = first - pad /\ range.end = last + pad
    BY <1>10 DEF rangeOf, fileRange
  <2> HIDE DEF first, last, bin, bins, events
  <2>2. wide \in Int
    BY <1>9, Quotient
  <2>3. FilePad \in Int /\ FilePad >= 1
    BY ChartsAssumption
  <2> HIDE DEF wide
  <2>4. pad \in Int /\ pad >= 1
    BY <2>2, <2>3, MaxOf
  <2> HIDE DEF pad, range
  <2>5. ts \in range.start .. range.end
    BY <1>3, <1>9, <2>1, <2>4
  <2>6. PICK k \in DOMAIN bins : k \in timeBinIndexAtX(bins, ts)
    BY <1>3, <1>4, <2>5, BinsCover DEF bins
  <2>7. half = 0
    BY <1>10
  <2>8. bins[k].start <= ts /\ ts <= bins[k].end
    <3>1. bins[k].start <= ts /\ (ts < bins[k].end \/ ts = bins[k].end)
      BY <2>6 DEF timeBinIndexAtX
    <3>2. bins[k].end \in Int
      BY <1>3, <1>4, <1>5
    <3> QED
      BY <3>1, <3>2
  <2>9. bins[k].start <= events[i].ts - half /\ events[i].ts + half <= bins[k].end
    BY <1>8, <2>7, <2>8
  <2> QED
    BY <2>9
<1>11. CASE b.bucket > 0
  <2> PICK w \in Nat : w = b.bucket /\ w > 0
    BY <1>1, <1>11
  <2>1. w \in ToSet(NiceBins) /\ \A e \in ToSet(events) : (e.ts - half) % w = 0
    BY <1>11 DEF ChartBody
  <2>2. range.start = first - half /\ range.end = last + half
    BY <1>11 DEF rangeOf, backendAggregateRange
  <2>3. PICK m \in Nat \ {0} : bin = m * w
    <3> HIDE DEF range
    <3> QED
      BY <2>1, BinOfBuckets
  <2>4. half \in Nat /\ w = 2 * half
    BY <1>1
  <2>5. (ts - half) % w = 0 /\ (first - half) % w = 0
    <3>1. events[i] \in ToSet(events) /\ events[1] \in ToSet(events)
      BY <1>6, <1>7 DEF ToSet
    <3> QED
      BY <1>8, <2>1, <3>1
  <2> HIDE DEF first, last, bin, bins, events, half, range
  <2>6. PICK p \in Int : ts - half = p * w
    <3>1. PICK x \in Int : x = ts - half
      BY <2>4
    <3>2. x = (x \div w) * w + (x % w) /\ x \div w \in Int
      OBVIOUS
    <3>3. x = (x \div w) * w
      BY <2>5, <3>1, <3>2
    <3> QED
      BY <3>1, <3>2, <3>3
  <2>7. PICK q \in Int : first - half = q * w
    <3>1. PICK x \in Int : x = first - half
      BY <1>9, <2>4
    <3>2. x = (x \div w) * w + (x % w) /\ x \div w \in Int
      OBVIOUS
    <3>3. x = (x \div w) * w
      BY <2>5, <3>1, <3>2
    <3> QED
      BY <3>1, <3>2, <3>3
  <2>8. PICK d \in Int : d = p - q
    OBVIOUS
  <2>9. d >= 0
    <3> SUFFICES ASSUME d <= -1 PROVE FALSE
      BY <2>8
    <3>1. (d + 1) * w <= 0 /\ (d + 1) * w = p * w - q * w + w
      BY <2>8
    <3>2. p * w \in Int /\ q * w \in Int
      OBVIOUS
    <3> QED
      BY <1>9, <2>4, <2>6, <2>7, <3>1, <3>2
  <2> PICK k0 \in Int : k0 = d \div m
    BY <2>8
  <2>10. k0 * m <= d /\ d + 1 <= k0 * m + m /\ k0 >= 0 /\ k0 * m \in Int
    BY <2>8, <2>9
  <2>11. /\ k0 * bin <= d * w /\ d * w + w <= k0 * bin + bin
         /\ k0 * bin \in Int /\ d * w \in Int /\ bin \in Int
    <3>1. k0 * bin = (k0 * m) * w /\ k0 * bin + bin = (k0 * m + m) * w
      <4>1. k0 * (m * w) = (k0 * m) * w /\ (k0 * m + m) * w = (k0 * m) * w + m * w
        BY SMTT(30)
      <4> QED
        BY <2>3, <4>1
    <3>2. (k0 * m) * w <= d * w /\ (d + 1) * w <= (k0 * m + m) * w
      <4>1. PICK x \in Int : x = k0 * m
        BY <2>10
      <4>2. x * w <= d * w
        BY <2>10, <4>1
      <4>3. (d + 1) * w <= (x + m) * w
        BY <2>10, <4>1
      <4> QED
        BY <4>1, <4>2, <4>3
    <3>3. (d + 1) * w = d * w + w /\ d * w \in Int
      OBVIOUS
    <3> QED
      BY <1>4, <3>1, <3>2, <3>3
  <2>12. ts - half = range.start + d * w
    <3>1. d * w = p * w - q * w
      <4>1. (p - q) * w = p * w - q * w
        OBVIOUS
      <4> QED
        BY <2>8, <4>1
    <3>2. p * w \in Int /\ q * w \in Int
      OBVIOUS
    <3> QED
      BY <2>2, <2>6, <2>7, <3>1, <3>2, <1>9, <2>4
  <2>13. range.start + k0 * bin <= ts - half /\ ts + half <= range.start + (k0 * bin + bin)
    BY <1>3, <2>4, <2>11, <2>12
  <2>14. ts + half <= range.end
    BY <1>9, <2>2, <2>4
  <2>15. k0 + 1 \in 1 .. n
    <3> SUFFICES ASSUME n <= k0 PROVE FALSE
      BY <2>10
    <3>1. n * bin <= k0 * bin /\ n * bin \in Int
      BY <1>4
    <3> QED
      BY <1>3, <1>5, <2>4, <2>11, <2>13, <2>14, <3>1, SMTT(30)
  <2>16. /\ bins[k0 + 1].start = range.start + k0 * bin
         /\ bins[k0 + 1].end \in {range.start + (k0 * bin + bin), range.end}
    <3>1. (k0 + 1) * bin = k0 * bin + bin /\ k0 + 1 - 1 = k0
      BY <1>4
    <3> QED
      BY <1>5, <2>15, <3>1
  <2>17. bins[k0 + 1].start <= events[i].ts - half /\ events[i].ts + half <= bins[k0 + 1].end
    BY <1>8, <2>13, <2>14, <2>16
  <2> QED
    BY <1>5, <2>15, <2>17
<1> QED
  BY <1>1, <1>10, <1>11

(***************************************************************************)
(* The charts and the summary: totals                                      *)
(***************************************************************************)
(* What stands at the first places is the front of a sequence.             *)
LEMMA FrontIsAt ==
  ASSUME NEW X, NEW s \in Seq(X), NEW u \in 0 .. Len(s)
  PROVE  At(s, 1 .. u) = SubSeq(s, 1, u)
<1> DEFINE a == Ascending(1 .. u)
           rank == [i \in 1 .. u |-> i]
           same == [k \in 1 .. u |-> k]
<1>1. IsFiniteSet(1 .. u) /\ Cardinality(1 .. u) = u /\ 1 .. u \in SUBSET Int /\ u \in Nat
  BY FS_Interval, 1 \in Int
<1>2. Enumerates(a, 1 .. u) /\ Len(a) = u /\ \A j, k \in DOMAIN a : j < k => a[j] < a[k]
  BY <1>1, AscendingIs, AscendingRises
<1> HIDE DEF a
<1>3. a \in [1 .. u -> 1 .. u] /\ DOMAIN a = 1 .. u
  <2>1. a \in Seq(1 .. u)
    BY <1>2 DEF Enumerates
  <2> QED
    BY <1>1, <1>2, <2>1
<1>4. Lists(a, 1 .. u, rank)
  <2>1. \A i \in 1 .. u : \E k \in 1 .. u : a[k] = i
    BY <1>2, <1>3 DEF Enumerates
  <2>2. ASSUME NEW j \in 1 .. u, NEW k \in 1 .. u, j < k PROVE Precedes(rank, a[j], a[k])
    BY <1>2, <1>3, <2>2 DEF Precedes
  <2> QED
    BY <1>3, <2>1, <2>2 DEF Lists
<1>5. Lists(same, 1 .. u, rank)
  <2>1. ASSUME NEW j \in 1 .. u, NEW k \in 1 .. u, j < k PROVE Precedes(rank, same[j], same[k])
    BY <2>1 DEF Precedes
  <2> QED
    BY <2>1 DEF Lists
<1>6. rank \in [1 .. u -> Int]
  OBVIOUS
<1> HIDE DEF rank, same
<1>7. a = same
  BY <1>1, <1>4, <1>5, <1>6, ListsUnique
<1> DEFINE f == [k \in DOMAIN a |-> s[a[k]]]
<1>8. At(s, 1 .. u) = Computed(f)
  BY DEF At, a
<1>9. f = [k \in 1 .. u |-> s[k]]
  BY <1>3, <1>7 DEF same
<1>10. f \in [1 .. u -> X]
  BY <1>9
<1> HIDE DEF f
<1>11. Computed(f) = f
  BY <1>1, <1>10, ComputedIs
<1>12. SubSeq(s, 1, u) = [k \in 1 .. u |-> s[k]]
  OBVIOUS
<1> QED
  BY <1>8, <1>9, <1>11, <1>12

(* What the pointer has passed when it stops.                              *)
LEMMA Passed ==
  ASSUME NEW E, NEW events \in Seq(E), \A e \in E : e.ts \in Int, NEW end \in Int,
         \A i, j \in DOMAIN events : i < j => events[i].ts <= events[j].ts
  PROVE  LET u == Max({j \in 0 .. Len(events) : \A i \in 1 .. j : events[i].ts < end})
         IN  /\ SubSeq(events, 1, u) = At(events, {i \in DOMAIN events : events[i].ts < end})
             /\ (\A e \in ToSet(events) : e.ts < end) => SubSeq(events, 1, u) = events
<1> DEFINE u == Max({j \in 0 .. Len(events) : \A i \in 1 .. j : events[i].ts < end})
           early == {i \in DOMAIN events : events[i].ts < end}
<1>1. u \in 0 .. Len(events) /\ early = 1 .. u
  BY StopsAt
<1> HIDE DEF u, early
<1>2. At(events, 1 .. u) = SubSeq(events, 1, u)
  BY <1>1, FrontIsAt
<1>3. ASSUME \A e \in ToSet(events) : e.ts < end PROVE SubSeq(events, 1, u) = events
  <2>1. early = DOMAIN events
    BY <1>3 DEF early, ToSet
  <2>2. u = Len(events)
    BY <1>1, <2>1
  <2> QED
    BY <2>2, SubSeqFull
<1>4. SubSeq(events, 1, u) = At(events, early)
  BY <1>1, <1>2
<1> QED
  BY <1>3, <1>4 DEF u, early

(* The pointer at the last bin, which ends where the range does.           *)
LastStop(events, bins) ==
  [k \in 0 .. Len(bins) |->
    IF k = 0 THEN 0
    ELSE Max({j \in 0 .. Len(events) : \A i \in 1 .. j : events[i].ts < bins[k].end})][Len(bins)]
LEMMA LastEnd ==
  ASSUME NEW range, range.start \in Int, range.end \in Int, range.start < range.end,
         NEW bin \in Nat \ {0}
  PROVE  LET bins == boundedTimeIntervals(range, bin)
         IN  Len(bins) \in Nat \ {0} /\ bins[Len(bins)].end = range.end
<1> DEFINE bins == boundedTimeIntervals(range, bin)
<1>1. PICK n \in Nat \ {0} :
         /\ DOMAIN bins = 1 .. n /\ Len(bins) = n
         /\ range.start + n * bin >= range.end
         /\ \A k \in 1 .. n : /\ bins[k].start = range.start + (k - 1) * bin
                              /\ bins[k].end \in {range.start + k * bin, range.end}
                              /\ bins[k].end \in Int /\ bins[k].end <= range.end
                              /\ range.start + k * bin \in Int
                              /\ range.start + k * bin <= range.end
                                   => bins[k].end = range.start + k * bin
         /\ bins[n].end = range.end
  BY BinsAre, Zenon
<1> HIDE DEF bins
<1>2. Len(bins) \in Nat \ {0} /\ bins[Len(bins)].end = range.end
  BY <1>1
<1> QED
  BY <1>2 DEF bins

(* All events come before the end of the range.                            *)
LEMMA EventsWithin ==
  ASSUME NEW b, ChartBody(b), b.events # <<>>
  PROVE  \A e \in ToSet(b.events) : e.ts < rangeOf(b).end
<1> DEFINE events == b.events
           first == events[1].ts
           last == events[Len(events)].ts
           end == rangeOf(b).end
<1>1. /\ events \in Seq(ToSet(events)) /\ \A e \in ToSet(events) : e.ts \in Int
      /\ b.bucket \in Nat /\ b.bucket % 2 = 0 /\ events # <<>>
  BY DEF ChartBody, EventRows
<1>2. \A i, j \in DOMAIN events : i < j => events[i].ts <= events[j].ts
  BY DEF ChartBody, ByTime
<1>3. Len(events) \in DOMAIN events /\ 1 \in DOMAIN events /\ DOMAIN events = 1 .. Len(events) /\ Len(events) \in Nat
  <2> HIDE DEF events
  <2> QED
    BY <1>1
<1>4. first \in Int /\ last \in Int
  BY <1>1, <1>3 DEF ToSet
<1>5. last < end
  <2>1. CASE b.bucket > 0
    <3>1. end = last + b.bucket \div 2
      BY <2>1 DEF rangeOf, backendAggregateRange
    <3>2. b.bucket \div 2 \in Int /\ b.bucket \div 2 >= 1
      BY <1>1, <2>1
    <3> HIDE DEF last, end
    <3> QED
      BY <1>4, <3>1, <3>2
  <2>2. CASE b.bucket = 0
    <3> DEFINE wide == (last - first) \div 50
               pad == Max({FilePad, wide})
    <3>1. end = last + pad
      BY <2>2 DEF rangeOf, fileRange
    <3> HIDE DEF first, last, end
    <3>2. wide \in Int
      BY <1>4, Quotient
    <3>3. FilePad \in Int /\ FilePad >= 1
      BY ChartsAssumption
    <3> HIDE DEF wide
    <3>4. pad \in Int /\ pad >= 1
      BY <3>2, <3>3, MaxOf
    <3> HIDE DEF pad
    <3> QED
      BY <1>4, <3>1, <3>4
  <2> QED
    BY <1>1, <2>1, <2>2
<1>6. SUFFICES ASSUME NEW e \in ToSet(events) PROVE e.ts < end
  OBVIOUS
<1>7. PICK i \in DOMAIN events : events[i] = e
  BY DEF ToSet
<1>8. e.ts <= last
  <2>1. i = Len(events) \/ i < Len(events)
    BY <1>3, <1>7
  <2> QED
    BY <1>2, <1>3, <1>4, <1>7, <2>1
<1>9. e.ts \in Int /\ end \in Int
  BY <1>1, <1>6, RangeIs
<1> HIDE DEF last, end
<1> QED
  BY <1>4, <1>5, <1>8, <1>9

(* The charts' totals are the summary's.                                   *)
LEMMA TotalsAgree ==
  ASSUME NEW b, ChartBody(b), b.events # <<>>
  PROVE  TotalsRight(b)
<1> DEFINE range == rangeOf(b)
           bin == dashboardBinMs(range, b.bucket)
           bins == boundedTimeIntervals(range, bin)
           u == LastStop(b.events, bins)
           v == LastStop(b.churn, bins)
           early == Where(b.churn, LAMBDA c : c.ts < range.end)
<1>1. range.start \in Int /\ range.end \in Int /\ range.start < range.end
  BY RangeIs
<1>2. bin \in Nat \ {0}
  BY BinIs DEF ChartBody
<1>3. PICK z \in Int : z = range.end
  BY <1>1
<1>4. /\ u = Max({j \in 0 .. Len(b.events) : \A i \in 1 .. j : b.events[i].ts < z})
      /\ v = Max({j \in 0 .. Len(b.churn) : \A i \in 1 .. j : b.churn[i].ts < z})
  <2>1. Len(bins) \in Nat \ {0} /\ bins[Len(bins)].end = range.end
    <3> HIDE DEF range, bin
    <3> QED
      BY <1>1, <1>2, LastEnd
  <2> HIDE DEF bins, range
  <2>2. Len(bins) \in 0 .. Len(bins) /\ Len(bins) # 0 /\ bins[Len(bins)].end = z
    BY <1>3, <2>1
  <2>3. u = Max({j \in 0 .. Len(b.events) : \A i \in 1 .. j : b.events[i].ts < z})
    BY <2>2 DEF LastStop
  <2>4. v = Max({j \in 0 .. Len(b.churn) : \A i \in 1 .. j : b.churn[i].ts < z})
    BY <2>2 DEF LastStop
  <2> QED
    BY <2>3, <2>4, Zenon
<1>5. SubSeq(b.events, 0 + 1, u) = b.events
  <2>1. b.events \in Seq(ToSet(b.events)) /\ \A e \in ToSet(b.events) : e.ts \in Int
    BY DEF ChartBody, EventRows
  <2>2. \A e \in ToSet(b.events) : e.ts < z
    BY <1>3, EventsWithin
  <2>3. \A i, j \in DOMAIN b.events : i < j => b.events[i].ts <= b.events[j].ts
    BY DEF ChartBody, ByTime
  <2> DEFINE w == Max({j \in 0 .. Len(b.events) : \A i \in 1 .. j : b.events[i].ts < z})
  <2>4. (\A e \in ToSet(b.events) : e.ts < z) => SubSeq(b.events, 1, w) = b.events
    BY <2>1, <2>3, Passed
  <2> HIDE DEF u
  <2>5. u = w
    BY <1>4, Zenon
  <2> HIDE DEF w
  <2> QED
    BY <2>2, <2>4, <2>5
<1>6. SubSeq(b.churn, 0 + 1, v) = early
  <2>1. b.churn \in Seq(ToSet(b.churn)) /\ \A e \in ToSet(b.churn) : e.ts \in Int
    BY DEF ChartBody, EditRows
  <2>2. early = At(b.churn, {i \in DOMAIN b.churn : b.churn[i].ts < z})
    BY <1>3 DEF Where
  <2>3. \A i, j \in DOMAIN b.churn : i < j => b.churn[i].ts <= b.churn[j].ts
    BY DEF ChartBody, ByTime
  <2> DEFINE w == Max({j \in 0 .. Len(b.churn) : \A i \in 1 .. j : b.churn[i].ts < z})
  <2>4. SubSeq(b.churn, 1, w) = At(b.churn, {i \in DOMAIN b.churn : b.churn[i].ts < z})
    BY <2>1, <2>3, Passed
  <2> HIDE DEF v, early
  <2>5. v = w
    BY <1>4, Zenon
  <2> HIDE DEF w
  <2> QED
    BY <2>2, <2>4, <2>5
<1> DEFINE total(events, val(_)) == buildTimeSeriesData(events, range, bin, val).total
<1>7. ASSUME NEW k \in Token PROVE total(b.events, LAMBDA e : e.tokens[k]) = totals(b.events).tokens[k]
  <2>1. total(b.events, LAMBDA e : e.tokens[k]) 
          = SumFunctionOnSet([i \in DOMAIN SubSeq(b.events, 0 + 1, u) |-> SubSeq(b.events, 0 + 1, u)[i].tokens[k]],
                             DOMAIN SubSeq(b.events, 0 + 1, u))
    BY DEF buildTimeSeriesData, LastStop, SumOver, SumEach
  <2>2. totals(b.events).tokens[k] = SumFunctionOnSet([i \in DOMAIN b.events |-> b.events[i].tokens[k]], DOMAIN b.events)
    BY DEF totals, SumOver, SumEach
  <2> HIDE DEF u, total
  <2> QED
    BY <1>5, <2>1, <2>2
<1>8. total(b.events, LAMBDA e : e.cost) = totals(b.events).cost
  <2>1. total(b.events, LAMBDA e : e.cost) 
          = SumFunctionOnSet([i \in DOMAIN SubSeq(b.events, 0 + 1, u) |-> SubSeq(b.events, 0 + 1, u)[i].cost],
                             DOMAIN SubSeq(b.events, 0 + 1, u))
    BY DEF buildTimeSeriesData, LastStop, SumOver, SumEach
  <2>2. totals(b.events).cost = SumFunctionOnSet([i \in DOMAIN b.events |-> b.events[i].cost], DOMAIN b.events)
    BY DEF totals, SumOver, SumEach
  <2> HIDE DEF u, total
  <2> QED
    BY <1>5, <2>1, <2>2
<1>9. total(b.churn, LAMBDA c : c.added) = churnTotals(early).added
  <2>1. total(b.churn, LAMBDA c : c.added) 
          = SumFunctionOnSet([i \in DOMAIN SubSeq(b.churn, 0 + 1, v) |-> SubSeq(b.churn, 0 + 1, v)[i].added],
                             DOMAIN SubSeq(b.churn, 0 + 1, v))
    BY DEF buildTimeSeriesData, LastStop, SumOver, SumEach
  <2>2. churnTotals(early).added = SumFunctionOnSet([i \in DOMAIN early |-> early[i].added], DOMAIN early)
    BY DEF churnTotals, SumOver, SumEach
  <2> HIDE DEF v, total, early
  <2> QED
    BY <1>6, <2>1, <2>2
<1>10. total(b.churn, LAMBDA c : c.deleted) = churnTotals(early).deleted
  <2>1. total(b.churn, LAMBDA c : c.deleted) 
          = SumFunctionOnSet([i \in DOMAIN SubSeq(b.churn, 0 + 1, v) |-> SubSeq(b.churn, 0 + 1, v)[i].deleted],
                             DOMAIN SubSeq(b.churn, 0 + 1, v))
    BY DEF buildTimeSeriesData, LastStop, SumOver, SumEach
  <2>2. churnTotals(early).deleted = SumFunctionOnSet([i \in DOMAIN early |-> early[i].deleted], DOMAIN early)
    BY DEF churnTotals, SumOver, SumEach
  <2> HIDE DEF v, total, early
  <2> QED
    BY <1>6, <2>1, <2>2
<1> HIDE DEF total
<1> QED
  BY <1>7, <1>8, <1>9, <1>10 DEF TotalsRight, total

(***************************************************************************)
(* The charts and the summary: bars                                        *)
(***************************************************************************)
(* A sort and a filter take over what there is under other places.         *)
LEMMA SortRenames ==
  ASSUME NEW S, NEW s \in Seq(S), NEW rank \in [DOMAIN s -> Int]
  PROVE  \E p : /\ Renames(p, DOMAIN s, DOMAIN s) /\ Lists(p, DOMAIN s, rank)
                /\ Ordered(s, rank) = [k \in DOMAIN s |-> s[p[k]]]
                /\ Ordered(s, rank) \in Seq(S)
<1>1. PICK n \in Nat : n = Len(s)
  OBVIOUS
<1>2. DOMAIN s = 1 .. n /\ IsFiniteSet(1 .. n)
  BY <1>1, FS_Interval, 1 \in Int
<1>3. PICK p : Lists(p, DOMAIN s, rank) /\ Ordered(s, rank) = [k \in DOMAIN s |-> s[p[k]]]
  BY OrderedLists
<1>4. p \in [1 .. n -> 1 .. n] /\ \A i \in 1 .. n : \E k \in 1 .. n : p[k] = i
  BY <1>2, <1>3 DEF Lists
<1>5. \A j, k \in 1 .. n : p[j] = p[k] => j = k
  <2> SUFFICES ASSUME NEW j \in 1 .. n, NEW k \in 1 .. n, p[j] = p[k], j # k PROVE FALSE
    OBVIOUS
  <2>1. j < k \/ k < j
    OBVIOUS
  <2>2. Precedes(rank, p[j], p[k]) \/ Precedes(rank, p[k], p[j])
    BY <1>2, <1>3, <2>1 DEF Lists
  <2>3. p[j] \in Int /\ rank[p[j]] \in Int
    BY <1>2, <1>4
  <2> QED
    BY <2>2, <2>3 DEF Precedes
<1>6. Renames(p, DOMAIN s, DOMAIN s)
  BY <1>2, <1>4, <1>5 DEF Renames
<1>7. Ordered(s, rank) \in Seq(S)
  <2>1. \A k \in 1 .. n : s[p[k]] \in S
    BY <1>2, <1>4
  <2> QED
    BY <1>2, <1>3, <2>1
<1> QED
  BY <1>3, <1>6, <1>7

LEMMA FilterRenames ==
  ASSUME NEW X, NEW s \in Seq(X), NEW S \in SUBSET DOMAIN s
  PROVE  /\ Renames(Ascending(S), DOMAIN At(s, S), S)
         /\ \A k \in DOMAIN At(s, S) : At(s, S)[k] = s[Ascending(S)[k]]
         /\ At(s, S) \in Seq(X)
<1> DEFINE a == Ascending(S)
           f == [k \in DOMAIN a |-> s[a[k]]]
<1>1. IsFiniteSet(S) /\ S \in SUBSET Int /\ Cardinality(S) \in Nat
  BY PlacesFinite
<1>2. Enumerates(a, S) /\ Len(a) = Cardinality(S)
  BY <1>1, AscendingIs
<1>3. At(s, S) = Computed(f)
  BY DEF At
<1> HIDE DEF a
<1>4. PICK n \in Nat : n = Cardinality(S)
  BY <1>1
<1>5. DOMAIN a = 1 .. n /\ a \in [1 .. n -> S]
  <2>1. a \in Seq(S)
    BY <1>2 DEF Enumerates
  <2> QED
    BY <1>2, <1>4, <2>1
<1>6. f \in [1 .. n -> X] /\ DOMAIN f = 1 .. n
  BY <1>5
<1>7. At(s, S) = f
  <2> HIDE DEF f
  <2> QED
    BY <1>3, <1>6, ComputedIs
<1>8. Renames(a, 1 .. n, S)
  <2>1. IsFiniteSet(1 .. n)
    BY FS_Interval, 1 \in Int
  <2>2. (\A x \in S : \E k \in DOMAIN a : a[k] = x) /\ \A j, k \in DOMAIN a : a[j] = a[k] => j = k
    BY <1>2 DEF Enumerates
  <2> QED
    BY <1>1, <1>5, <2>1, <2>2 DEF Renames
<1>9. f \in Seq(X)
  BY <1>6
<1>10. \A k \in 1 .. n : f[k] = s[a[k]]
  BY <1>5
<1> QED
  BY <1>6, <1>7, <1>8, <1>9, <1>10 DEF a

(* No bar is more than all of them.                                        *)
Valued(V) == \A r \in V : r.value \in Nat
ValuesOf(rows) == [i \in DOMAIN rows |-> rows[i].value]
LEMMA BarWithinAll ==
  ASSUME NEW V, Valued(V), NEW rows \in Seq(V), NEW i \in DOMAIN rows
  PROVE  BarTip(rows, i).value <= BarTip(rows, i).of
<1>1. BarTip(rows, i).value = ValuesOf(rows)[i]
  BY DEF BarTip, ValuesOf
<1>2. BarTip(rows, i).of = SumFunctionOnSet(ValuesOf(rows), DOMAIN rows)
  BY DEF BarTip, SumOver, SumEach, ValuesOf
<1>3. IsFiniteSet(DOMAIN rows)
  BY PlacesFinite
<1>4. \A j \in DOMAIN rows : ValuesOf(rows)[j] \in Nat
  BY DEF ValuesOf, Valued
<1> QED
  BY <1>1, <1>2, <1>3, <1>4, SumAtLeast

(* The bars of a list of rows that are kept and sorted by some rank.       *)
LEMMA KeptSorted ==
  ASSUME NEW V, NEW all \in Seq(V), NEW F \in SUBSET DOMAIN all, NEW f,
         \A i \in DOMAIN At(all, F) : f[i] \in Int, DOMAIN f = DOMAIN At(all, F),
         f = [i \in DOMAIN f |-> f[i]]
  PROVE  Ordered(At(all, F), Computed(f)) \in Seq(V)
<1> DEFINE kept == At(all, F)
<1>1. kept \in Seq(V)
  BY FilterRenames
<1> HIDE DEF kept
<1>2. PICK n \in Nat : n = Len(kept)
  BY <1>1
<1>3. DOMAIN kept = 1 .. n
  BY <1>1, <1>2
<1>4. f \in [1 .. n -> Int]
  BY <1>3 DEF kept
<1>5. Computed(f) = f
  BY <1>4, ComputedIs
<1>6. Ordered(kept, f) \in Seq(V)
  BY <1>1, <1>3, <1>4, SortRenames
<1> QED
  BY <1>5, <1>6 DEF kept

(* The costs of the models.                                                *)
LEMMA ModelCosts ==
  ASSUME NEW b, ChartBody(b)
  PROVE  \E V : Valued(V) /\ costByModel(b) \in Seq(V)
<1> DEFINE rows == IF b.costs # <<>> THEN b.costs ELSE b.events
           model == [i \in DOMAIN rows |-> rows[i].model]
           names == Computed(model)
           keys == Distinct(names)
           of(m) == SumWhere(rows, LAMBDA r : r.model = m, LAMBDA r : r.cost)
           V == {[label |-> m, value |-> of(m)] : m \in ToSet(names)}
           bar == [i \in DOMAIN keys |-> [label |-> keys[i], value |-> of(keys[i])]]
           all == Computed(bar)
           F == {i \in DOMAIN all : all[i].value > 0}
           kept == At(all, F)
           rank == [i \in DOMAIN kept |-> -kept[i].value]
<1>1. PICK C : rows \in Seq(C) /\ \A r \in C : r.cost \in Nat
  <2>1. b.costs \in Seq(ToSet(b.costs)) /\ \A r \in ToSet(b.costs) : r.cost \in Nat
    BY DEF ChartBody, CostRows
  <2>2. b.events \in Seq(ToSet(b.events)) /\ \A r \in ToSet(b.events) : r.cost \in Nat
    BY DEF ChartBody, EventRows
  <2> QED
    BY <2>1, <2>2
<1>2. costByModel(b) = Ordered(kept, Computed(rank))
  BY DEF costByModel, SortedBy, Where, Apply
<1> HIDE DEF rows
<1>3. PICK n \in Nat : n = Len(rows)
  BY <1>1
<1>4. DOMAIN rows = 1 .. n
  BY <1>1, <1>3
<1>5. names \in Seq(ToSet(names))
  <2>1. model \in [1 .. n -> {rows[i].model : i \in 1 .. n}]
    BY <1>4
  <2> HIDE DEF model
  <2>2. names \in Seq({rows[i].model : i \in 1 .. n})
    BY <2>1, ComputedIs
  <2> HIDE DEF names
  <2> QED
    BY <2>2, OwnElements
<1>6. ASSUME NEW m PROVE of(m) \in Nat
  <2> DEFINE I == {i \in DOMAIN rows : rows[i].model = m}
             g == [i \in I |-> rows[i].cost]
  <2>1. of(m) = SumFunctionOnSet(g, I)
    BY DEF SumWhere, SumEach
  <2>2. IsFiniteSet(I)
    BY <1>1, PlacesFinite, FS_Subset
  <2>3. \A i \in I : g[i] \in Nat
    BY <1>1
  <2> HIDE DEF g, I
  <2>4. SumFunctionOnSet(g, I) \in Int /\ SumFunctionOnSet(g, I) >= 0
    BY <2>2, <2>3, SumType
  <2> QED
    BY <2>1, <2>4
<1> HIDE DEF of, names
<1>7. Valued(V)
  BY <1>6 DEF Valued
<1>8. keys \in Seq(ToSet(names))
  BY <1>5, DistinctIs DEF Enumerates
<1> HIDE DEF keys
<1>9. all \in Seq(V)
  <2>1. PICK l \in Nat : l = Len(keys)
    BY <1>8
  <2>2. DOMAIN keys = 1 .. l /\ \A i \in 1 .. l : keys[i] \in ToSet(names)
    BY <1>8, <2>1
  <2>3. bar \in [1 .. l -> V]
    BY <2>2
  <2> HIDE DEF bar, V
  <2> QED
    BY <2>3, ComputedIs
<1> HIDE DEF all, V
<1>10. kept \in Seq(V)
  BY <1>9, FilterRenames
<1> HIDE DEF kept
<1>11. rank = [i \in DOMAIN rank |-> rank[i]] /\ DOMAIN rank = DOMAIN kept /\ \A i \in DOMAIN kept : rank[i] \in Int
  BY <1>7, <1>10 DEF Valued
<1> HIDE DEF rank
<1>12. Ordered(kept, Computed(rank)) \in Seq(V)
  <2> HIDE DEF F
  <2>1. F \in SUBSET DOMAIN all
    BY DEF F
  <2> QED
    BY <1>9, <1>11, <2>1, KeptSorted DEF kept
<1> QED
  BY <1>2, <1>7, <1>12

(* The summary's tokens are counted, by kind and together.                 *)
LEMMA TokensCounted ==
  ASSUME NEW E, Counted(E), NEW events \in Seq(E)
  PROVE  /\ \A k \in Token : totals(events).tokens[k] \in Nat
         /\ totals(events).total = totals(events).tokens["input"] + totals(events).tokens["output"]
                                     + totals(events).tokens["read"]
         /\ totals(events).cost \in Int
<1> DEFINE D == DOMAIN events
           sum(k) == SumOver(events, LAMBDA e : e.tokens[k])
           cost == [i \in D |-> events[i].cost]
<1>1. IsFiniteSet(D)
  BY PlacesFinite
<1>2. \A i \in D : events[i].cost \in Nat /\ \A k \in Token : events[i].tokens[k] \in Nat
  BY DEF Counted
<1>3. ASSUME NEW k \in Token PROVE sum(k) \in Nat
  <2> DEFINE f == [i \in D |-> events[i].tokens[k]]
  <2>1. sum(k) = SumFunctionOnSet(f, D)
    BY DEF SumOver, SumEach
  <2>2. \A i \in D : f[i] \in Int /\ f[i] >= 0
    BY <1>2
  <2> HIDE DEF f, D, sum
  <2> QED
    BY <1>1, <2>1, <2>2, SumType
<1>4. /\ totals(events).tokens = [k \in Token |-> sum(k)]
      /\ totals(events).total = sum("input") + sum("output") + sum("read")
      /\ totals(events).cost = SumFunctionOnSet(cost, D)
  BY DEF totals, SumOver, SumEach
<1>5. \A i \in D : cost[i] \in Int
  BY <1>2
<1> HIDE DEF sum, cost, D
<1>6. totals(events).cost \in Int
  BY <1>1, <1>4, <1>5, SumType
<1>7. "input" \in Token /\ "output" \in Token /\ "read" \in Token
  BY DEF Token
<1> QED
  BY <1>3, <1>4, <1>6, <1>7

(* Of numbers none of which is negative, those above zero add up to all.   *)
LEMMA PositiveOnes ==
  ASSUME NEW S, IsFiniteSet(S), NEW f, \A x \in S : f[x] \in Nat
  PROVE  SumFunctionOnSet(f, {x \in S : f[x] > 0}) = SumFunctionOnSet(f, S)
<1> DEFINE A == {x \in S : f[x] > 0}
           B == {x \in S : f[x] = 0}
<1>1. A \in SUBSET S /\ B \in SUBSET S /\ A \cap B = {}
  OBVIOUS
<1>2. A \cup B = S /\ IsFiniteSet(B)
  BY FS_Subset
<1>3. \A x \in S : f[x] \in Int
  OBVIOUS
<1>4. \A x \in B : f[x] = 0
  OBVIOUS
<1>5. IsFiniteSet(A) /\ \A x \in A : f[x] \in Int
  BY FS_Subset
<1> HIDE DEF A, B
<1>6. SumFunctionOnSet(f, A \cup B) = SumFunctionOnSet(f, A) + SumFunctionOnSet(f, B)
  BY <1>1, <1>3, SumOfUnion
<1>7. SumFunctionOnSet(f, B) = 0
  BY <1>2, <1>4, SumOfZeroes
<1>8. SumFunctionOnSet(f, A) \in Int
  BY <1>5, SumType
<1>9. SumFunctionOnSet(f, A) = SumFunctionOnSet(f, S)
  <2>1. SumFunctionOnSet(f, S) = SumFunctionOnSet(f, A) + SumFunctionOnSet(f, B)
    BY <1>2, <1>6, Zenon
  <2> QED
    BY <1>7, <1>8, <2>1
<1> QED
  BY <1>9 DEF A

(* Three numbers added up.                                                 *)
LEMMA SumOfThree ==
  ASSUME NEW f, f[1] \in Int, f[2] \in Int, f[3] \in Int
  PROVE  SumFunctionOnSet(f, 1 .. 3) = f[1] + f[2] + f[3]
<1>1. IsFiniteSet({1}) /\ IsFiniteSet({1, 2})
  BY FS_Singleton, FS_AddElement
<1>2. SumFunctionOnSet(f, {1}) = f[1]
  BY SumOfOne
<1>3. SumFunctionOnSet(f, {1} \cup {2}) = f[2] + SumFunctionOnSet(f, {1})
  BY <1>1, SumWith
<1>4. {1} \cup {2} = {1, 2} /\ {1, 2} \cup {3} = 1 .. 3 /\ 3 \notin {1, 2}
  OBVIOUS
<1>5. SumFunctionOnSet(f, {1, 2} \cup {3}) = f[3] + SumFunctionOnSet(f, {1, 2})
  BY <1>1, <1>4, SumWith
<1>6. SumFunctionOnSet(f, {1, 2}) = f[2] + SumFunctionOnSet(f, {1})
  BY <1>3, <1>4, Zenon
<1>7. SumFunctionOnSet(f, 1 .. 3) = f[3] + SumFunctionOnSet(f, {1, 2})
  BY <1>4, <1>5, Zenon
<1> QED
  BY <1>2, <1>6, <1>7

(* The bars of the token breakdown share out the events' tokens.           *)
Priced(E) == \A e \in E : \A k \in Token : Rate[e.model][k] \in Nat
LEMMA BreakdownIs ==
  ASSUME NEW E, Counted(E), Priced(E), NEW events \in Seq(E)
  PROVE  LET d == computeTokenBreakdown(events)
         IN  /\ \E V : Valued(V) /\ d.byTokens \in Seq(V) /\ d.byCost \in Seq(V)
             /\ SumFunctionOnSet(ValuesOf(d.byTokens), DOMAIN d.byTokens) = totals(events).total
<1> DEFINE sum(k) == totals(events).tokens[k]
           cost(k) == SumOver(events, LAMBDA e : e.tokens[k] * Rate[e.model][k])
           row(k) == [label |-> k, value |-> sum(k), cost |-> cost(k)]
           V == {row(k) : k \in Token}
           kinds == <<"input", "output", "read">>
           each == [i \in DOMAIN kinds |-> row(kinds[i])]
           all == Computed(each)
           F == {i \in DOMAIN all : all[i].value > 0}
           kept == At(all, F)
           byTokens == [i \in DOMAIN kept |-> -kept[i].value]
           byCost == [i \in DOMAIN kept |-> -kept[i].cost]
           d == computeTokenBreakdown(events)
<1>1. d.byTokens = Ordered(kept, Computed(byTokens)) /\ d.byCost = Ordered(kept, Computed(byCost))
  BY Zenon DEF computeTokenBreakdown, SortedBy, Where, Apply
<1>2. ASSUME NEW k \in Token PROVE cost(k) \in Int
  <2> DEFINE f == [i \in DOMAIN events |-> events[i].tokens[k] * Rate[events[i].model][k]]
  <2>1. cost(k) = SumFunctionOnSet(f, DOMAIN events)
    BY DEF SumOver, SumEach
  <2>2. \A i \in DOMAIN events : events[i].tokens[k] \in Nat /\ Rate[events[i].model][k] \in Nat
    BY DEF Counted, Priced
  <2>3. \A i \in DOMAIN events : f[i] \in Int
    BY <2>2
  <2>4. IsFiniteSet(DOMAIN events)
    BY PlacesFinite
  <2> HIDE DEF f, cost
  <2> QED
    BY <2>1, <2>3, <2>4, SumType
<1>3. /\ \A k \in Token : sum(k) \in Nat
      /\ totals(events).total = sum("input") + sum("output") + sum("read")
  BY TokensCounted
<1>4. "input" \in Token /\ "output" \in Token /\ "read" \in Token
  BY DEF Token
<1> HIDE DEF cost, sum, d
<1>5. \A r \in V : r.value \in Nat /\ r.cost \in Int
  BY <1>2, <1>3
<1>6. each = <<row("input"), row("output"), row("read")>> /\ each \in [1 .. 3 -> V]
  BY <1>4
<1> HIDE DEF row, V
<1>7. all = each /\ all \in Seq(V) /\ DOMAIN all = 1 .. 3
  <2>1. all = each /\ all \in Seq(V)
    <3> HIDE DEF each
    <3> QED
      BY <1>6, ComputedIs, ZenonT(30)
  <2> QED
    BY <1>6, <2>1
<1>8. kept \in Seq(V) /\ F \in SUBSET DOMAIN all
  BY <1>7, FilterRenames
<1>9. \A i \in DOMAIN kept : kept[i].value \in Nat /\ kept[i].cost \in Int
  <2> HIDE DEF kept
  <2>1. \A i \in DOMAIN kept : kept[i] \in V
    BY <1>8
  <2> QED
    BY <1>5, <2>1
<1>10. d.byTokens \in Seq(V) /\ d.byCost \in Seq(V)
  <2>1. /\ byTokens = [i \in DOMAIN byTokens |-> byTokens[i]] /\ DOMAIN byTokens = DOMAIN kept
        /\ byCost = [i \in DOMAIN byCost |-> byCost[i]] /\ DOMAIN byCost = DOMAIN kept
        /\ \A i \in DOMAIN kept : byTokens[i] \in Int /\ byCost[i] \in Int
    <3> HIDE DEF kept
    <3> QED
      BY <1>9
  <2> HIDE DEF all, F, byTokens, byCost
  <2>2. Ordered(kept, Computed(byTokens)) \in Seq(V)
    BY <1>7, <1>8, <2>1, KeptSorted
  <2>3. Ordered(kept, Computed(byCost)) \in Seq(V)
    BY <1>7, <1>8, <2>1, KeptSorted
  <2> QED
    BY <1>1, <2>2, <2>3
<1>11. SumFunctionOnSet(ValuesOf(d.byTokens), DOMAIN d.byTokens)
         = SumFunctionOnSet(ValuesOf(kept), DOMAIN kept)
  <2> HIDE DEF kept
  <2>1. PICK n \in Nat : n = Len(kept)
    BY <1>8
  <2>2. DOMAIN kept = 1 .. n
    BY <1>8, <2>1
  <2>3. byTokens \in [1 .. n -> Int]
    BY <1>9, <2>2
  <2> HIDE DEF byTokens
  <2>4. Computed(byTokens) = byTokens
    BY <2>3, ComputedIs
  <2>5. PICK p : /\ Renames(p, DOMAIN kept, DOMAIN kept)
                 /\ Ordered(kept, byTokens) = [k \in DOMAIN kept |-> kept[p[k]]]
    <3>1. byTokens \in [DOMAIN kept -> Int]
      BY <2>2, <2>3
    <3>2. \E p : /\ Renames(p, DOMAIN kept, DOMAIN kept) /\ Lists(p, DOMAIN kept, byTokens)
                 /\ Ordered(kept, byTokens) = [k \in DOMAIN kept |-> kept[p[k]]]
                 /\ Ordered(kept, byTokens) \in Seq(V)
      BY <1>8, <3>1, SortRenames
    <3> QED
      BY <3>2, Zenon
  <2>6. d.byTokens = [k \in DOMAIN kept |-> kept[p[k]]]
    BY <1>1, <2>4, <2>5
  <2>7. DOMAIN d.byTokens = DOMAIN kept
    BY <2>6
  <2>8. \A k \in DOMAIN kept : ValuesOf(d.byTokens)[k] = ValuesOf(kept)[p[k]]
    BY <2>5, <2>6, <2>7 DEF ValuesOf, Renames
  <2>9. \A k \in DOMAIN kept : ValuesOf(kept)[k] \in Int
    BY <1>9 DEF ValuesOf
  <2>10. SumFunctionOnSet(ValuesOf(d.byTokens), DOMAIN kept) = SumFunctionOnSet(ValuesOf(kept), DOMAIN kept)
    BY <2>5, <2>8, <2>9, SumRenamed
  <2> QED
    BY <2>7, <2>10
<1>12. SumFunctionOnSet(ValuesOf(kept), DOMAIN kept) = SumFunctionOnSet(ValuesOf(all), F)
  <2>1. PICK a : a = Ascending(F)
    OBVIOUS
  <2> HIDE DEF all, F
  <2>2. Renames(a, DOMAIN kept, F) /\ \A k \in DOMAIN kept : kept[k] = all[a[k]]
    <3>1. /\ Renames(Ascending(F), DOMAIN At(all, F), F)
          /\ \A k \in DOMAIN At(all, F) : At(all, F)[k] = all[Ascending(F)[k]]
      BY <1>7, <1>8, FilterRenames
    <3> QED
      BY <2>1, <3>1
  <2>3. \A x \in F : ValuesOf(all)[x] \in Int
    <3>1. \A x \in F : all[x] \in V /\ x \in DOMAIN all
      BY <1>7, <1>8
    <3> QED
      BY <1>5, <3>1 DEF ValuesOf
  <2>4. \A k \in DOMAIN kept : ValuesOf(kept)[k] = ValuesOf(all)[a[k]]
    <3>1. \A k \in DOMAIN kept : a[k] \in DOMAIN all
      BY <1>8, <2>2 DEF Renames
    <3> HIDE DEF kept
    <3> QED
      BY <2>2, <3>1 DEF ValuesOf
  <2> HIDE DEF kept
  <2> QED
    BY <2>2, <2>3, <2>4, SumRenamed
<1>13. \A i \in 1 .. 3 : ValuesOf(all)[i] = all[i].value /\ ValuesOf(all)[i] \in Nat
  <2> HIDE DEF all
  <2>1. \A i \in 1 .. 3 : all[i] \in V
    BY <1>7
  <2> QED
    BY <1>5, <1>7, <2>1 DEF ValuesOf
<1>14. SumFunctionOnSet(ValuesOf(all), F) = SumFunctionOnSet(ValuesOf(all), 1 .. 3)
  <2>1. F = {i \in 1 .. 3 : ValuesOf(all)[i] > 0}
    BY <1>7, <1>13
  <2>2. IsFiniteSet(1 .. 3)
    BY FS_Interval, 1 \in Int, 3 \in Int
  <2> HIDE DEF all, F
  <2> QED
    BY <1>13, <2>1, <2>2, PositiveOnes
<1>15. ValuesOf(all)[1] = sum("input") /\ ValuesOf(all)[2] = sum("output") /\ ValuesOf(all)[3] = sum("read")
  <2>1. all[1] = row("input") /\ all[2] = row("output") /\ all[3] = row("read")
    BY <1>6, <1>7
  <2> HIDE DEF all
  <2> QED
    BY <1>13, <2>1 DEF row
<1>16. SumFunctionOnSet(ValuesOf(all), 1 .. 3) = sum("input") + sum("output") + sum("read")
  <2>1. ValuesOf(all)[1] \in Int /\ ValuesOf(all)[2] \in Int /\ ValuesOf(all)[3] \in Int
    BY <1>13
  <2> HIDE DEF all
  <2> QED
    BY <1>15, <2>1, SumOfThree
<1>17. Valued(V)
  BY <1>5 DEF Valued
<1>18. SumFunctionOnSet(ValuesOf(d.byTokens), DOMAIN d.byTokens) = totals(events).total
  BY <1>3, <1>11, <1>12, <1>14, <1>16
<1> QED
  BY <1>10, <1>17, <1>18 DEF d

(* The bars are right.                                                     *)
LEMMA BarsAgree ==
  ASSUME NEW b, ChartBody(b), b.events # <<>>
  PROVE  BarsRight(b)
<1> DEFINE E == ToSet(b.events)
           some == TokenBreakdown(b.events, picked)
           F == {i \in DOMAIN b.events : b.events[i].model = picked}
           events == IF picked = "" THEN b.events ELSE At(b.events, F)
<1>1. Counted(E) /\ Priced(E) /\ b.events \in Seq(E)
  BY DEF ChartBody, EventRows, Counted, Priced
<1>2. some = computeTokenBreakdown(events)
  BY DEF TokenBreakdown, Where
<1>3. events \in Seq(E)
  <2> HIDE DEF E
  <2> QED
    BY <1>1, FilterRenames, Zenon
<1>4. picked = "" => events = b.events
  BY Zenon
<1> HIDE DEF E, some, events
<1>5. /\ \E V : Valued(V) /\ some.byTokens \in Seq(V) /\ some.byCost \in Seq(V)
      /\ SumFunctionOnSet(ValuesOf(some.byTokens), DOMAIN some.byTokens) = totals(events).total
  BY <1>1, <1>2, <1>3, BreakdownIs
<1>6. PICK V : Valued(V) /\ some.byTokens \in Seq(V) /\ some.byCost \in Seq(V)
  BY <1>5
<1>7. PICK C : Valued(C) /\ costByModel(b) \in Seq(C)
  BY ModelCosts
<1>8. BarTip(some.byTokens, 1).of = SumFunctionOnSet(ValuesOf(some.byTokens), DOMAIN some.byTokens)
  BY DEF BarTip, SumOver, SumEach, ValuesOf
<1>9. /\ \A i \in DOMAIN costByModel(b) : BarTip(costByModel(b), i).value <= BarTip(costByModel(b), i).of
      /\ \A i \in DOMAIN some.byTokens : BarTip(some.byTokens, i).value <= BarTip(some.byTokens, i).of
      /\ \A i \in DOMAIN some.byCost : BarTip(some.byCost, i).value <= BarTip(some.byCost, i).of
  BY <1>6, <1>7, BarWithinAll
<1>10. picked = "" => BarTip(some.byTokens, 1).of = totals(b.events).total
  BY <1>4, <1>5, <1>8, Zenon
<1> QED
  BY <1>9, <1>10, Zenon DEF BarsRight, some

(***************************************************************************)
(* The charts and the summary: the list of sessions                        *)
(***************************************************************************)
LEMMA SessionsListed ==
  ASSUME NEW b, ChartBody(b), b.events # <<>>, NEW sort \in Order
  PROVE  SessionsRight(b, sort)
<1> DEFINE sessions == sessionsOf(b)
           row(s) == [start |-> s.start, dur |-> s.end - s.start,
                      cost |-> totals(s.events).cost, total |-> totals(s.events).total,
                      primary |-> Primary(s.events)]
           rank(r) == CASE sort = "recent" -> -r.start
                        [] sort = "cost"   -> -r.cost
                        [] sort = "tokens" -> -r.total
           each == [i \in DOMAIN sessions |-> row(sessions[i])]
           base == Computed(each)
           ranks == [i \in DOMAIN base |-> rank(base[i])]
           rows == SessionRows(b, sort)
           list == ToSet(SessionsList(b, sort))
           R == {row(s) : s \in ToSet(sessions)}
<1>1. PICK E, S : Charted(E, S) /\ sessions \in Seq(S)
  BY BurnSessions
<1>2. rows = Ordered(base, Computed(ranks))
  BY DEF SessionRows, SortedBy, Apply
<1>3. list = ToSet(SubSeq(rows, 1, Min({ListLimit, Len(rows)})))
  BY DEF SessionsList, First
<1> HIDE DEF sessions, rows
<1>4. PICK n \in Nat : n = Len(sessions)
  BY <1>1
<1>5. DOMAIN sessions = 1 .. n /\ \A i \in 1 .. n : sessions[i] \in S
  BY <1>1, <1>4
<1>6. ASSUME NEW i \in 1 .. n
      PROVE  each[i].start \in Int /\ each[i].cost \in Int /\ each[i].total \in Int
             /\ each[i].total = totals(sessions[i].events).total
  <2>1. sessions[i].start \in Int /\ sessions[i].events \in Seq(E) /\ Counted(E)
    BY <1>1, <1>5 DEF Charted
  <2>2. totals(sessions[i].events).cost \in Int /\ totals(sessions[i].events).total \in Int
    BY <2>1, TokensCounted, TotalIs
  <2>3. each[i] = row(sessions[i])
    BY <1>5
  <2> QED
    BY <2>1, <2>2, <2>3
<1>7. base = each /\ base \in Seq(R) /\ DOMAIN base = 1 .. n
  <2>1. each \in [1 .. n -> R] /\ DOMAIN each = 1 .. n
    BY <1>5 DEF ToSet
  <2> HIDE DEF each, R
  <2> QED
    BY <2>1, ComputedIs
<1> HIDE DEF base, each, row, R
<1>8. ASSUME NEW i \in 1 .. n
      PROVE  /\ ranks[i] \in Int
             /\ sort = "recent" => ranks[i] = -base[i].start
             /\ sort = "cost"   => ranks[i] = -base[i].cost
             /\ sort = "tokens" => ranks[i] = -base[i].total
  <2>1. sort = "recent" \/ sort = "cost" \/ sort = "tokens"
    BY DEF Order
  <2>2. base[i].start \in Int /\ base[i].cost \in Int /\ base[i].total \in Int
    BY <1>6, <1>7
  <2>3. ranks[i] = rank(base[i])
    BY <1>7
  <2> HIDE DEF ranks
  <2> QED
    BY <2>1, <2>2, <2>3
<1>9. ranks \in [1 .. n -> Int]
  BY <1>7, <1>8
<1> HIDE DEF ranks
<1>10. Computed(ranks) = ranks
  BY <1>9, ComputedIs
<1>11. PICK p : /\ Renames(p, 1 .. n, 1 .. n) /\ Lists(p, 1 .. n, ranks)
                /\ rows = [k \in 1 .. n |-> base[p[k]]]
  <2>1. ranks \in [DOMAIN base -> Int]
    BY <1>7, <1>9
  <2>2. \E p : /\ Renames(p, DOMAIN base, DOMAIN base) /\ Lists(p, DOMAIN base, ranks)
               /\ Ordered(base, ranks) = [k \in DOMAIN base |-> base[p[k]]]
               /\ Ordered(base, ranks) \in Seq(R)
    BY <1>7, <2>1, SortRenames
  <2>3. PICK p : /\ Renames(p, DOMAIN base, DOMAIN base) /\ Lists(p, DOMAIN base, ranks)
                 /\ Ordered(base, ranks) = [k \in DOMAIN base |-> base[p[k]]]
    BY <2>2, Zenon
  <2>4. rows = Ordered(base, ranks)
    BY <1>2, <1>10, Zenon
  <2>5. Renames(p, 1 .. n, 1 .. n) /\ Lists(p, 1 .. n, ranks)
    BY <1>7, <2>3, Zenon
  <2>6. rows = [k \in 1 .. n |-> base[p[k]]]
    BY <1>7, <2>3, <2>4, Zenon
  <2> QED
    BY <2>5, <2>6, Zenon
<1>12. SumOver(rows, LAMBDA r : r.total) = SumOver(sessionsOf(b), LAMBDA s : totals(s.events).total)
  <2> DEFINE mine == [i \in 1 .. n |-> rows[i].total]
             theirs == [i \in 1 .. n |-> totals(sessions[i].events).total]
  <2>1. DOMAIN rows = 1 .. n
    BY <1>11
  <2>2. SumOver(rows, LAMBDA r : r.total) = SumFunctionOnSet(mine, 1 .. n)
    BY <2>1 DEF SumOver, SumEach
  <2>3. SumOver(sessionsOf(b), LAMBDA s : totals(s.events).total) = SumFunctionOnSet(theirs, 1 .. n)
    BY <1>5 DEF SumOver, SumEach, sessions
  <2>4. \A i \in 1 .. n : theirs[i] = base[i].total /\ theirs[i] \in Int
    BY <1>6, <1>7
  <2>5. \A k \in 1 .. n : p[k] \in 1 .. n
    BY <1>11 DEF Renames
  <2>6. \A k \in 1 .. n : mine[k] = theirs[p[k]]
    BY <1>11, <2>4, <2>5
  <2> HIDE DEF mine, theirs
  <2>7. SumFunctionOnSet(mine, 1 .. n) = SumFunctionOnSet(theirs, 1 .. n)
    BY <1>11, <2>4, <2>6, SumRenamed
  <2> QED
    BY <2>2, <2>3, <2>7
<1>13. ASSUME NEW r \in ToSet(rows) \ list, NEW l \in list
       PROVE  /\ sort = "recent" => r.start <= l.start
              /\ sort = "cost"   => r.cost <= l.cost
              /\ sort = "tokens" => r.total <= l.total
  <2>1. rows \in Seq(R) /\ Len(rows) = n /\ DOMAIN rows = 1 .. n
    <3>1. \A k \in 1 .. n : p[k] \in 1 .. n
      BY <1>11 DEF Renames
    <3>2. \A k \in 1 .. n : base[k] \in R
      BY <1>7
    <3>3. \A k \in 1 .. n : base[p[k]] \in R
      BY <3>1, <3>2
    <3> QED
      BY <1>11, <3>3
  <2>2. PICK m \in 0 .. n : list = ToSet(SubSeq(rows, 1, m))
    <3>1. ListLimit \in Nat
      BY ListsAssumption
    <3>2. Min({ListLimit, n}) \in 0 .. n
      BY <3>1, MinOf
    <3> QED
      BY <1>3, <2>1, <3>2
  <2>3. PICK i \in 1 .. n : r = rows[i]
    BY <2>1 DEF ToSet
  <2>4. DOMAIN SubSeq(rows, 1, m) = 1 .. m /\ \A j \in 1 .. m : SubSeq(rows, 1, m)[j] = rows[j]
    BY <2>1
  <2>5. PICK j \in 1 .. m : l = rows[j]
    BY <2>2, <2>4 DEF ToSet
  <2>6. i \notin 1 .. m
    BY <2>2, <2>3, <2>4 DEF ToSet
  <2>7. j < i /\ j \in 1 .. n
    BY <2>6
  <2>8. p[j] \in 1 .. n /\ p[i] \in 1 .. n /\ r = base[p[i]] /\ l = base[p[j]]
    BY <1>11, <2>3, <2>5, <2>7 DEF Renames
  <2>9. ranks[p[j]] <= ranks[p[i]] 
    <3>1. Precedes(ranks, p[j], p[i])
      BY <1>11, <2>7 DEF Lists
    <3> QED
      BY <1>9, <2>8, <3>1 DEF Precedes
  <2>10. /\ base[p[i]].start \in Int /\ base[p[i]].cost \in Int /\ base[p[i]].total \in Int
         /\ base[p[j]].start \in Int /\ base[p[j]].cost \in Int /\ base[p[j]].total \in Int
    BY <1>6, <1>7, <2>8
  <2>11. /\ sort = "recent" => ranks[p[i]] = -base[p[i]].start /\ ranks[p[j]] = -base[p[j]].start
         /\ sort = "cost"   => ranks[p[i]] = -base[p[i]].cost /\ ranks[p[j]] = -base[p[j]].cost
         /\ sort = "tokens" => ranks[p[i]] = -base[p[i]].total /\ ranks[p[j]] = -base[p[j]].total
    BY <1>8, <2>8
  <2>12. \A x, y \in Int : -y <= -x => x <= y
    OBVIOUS
  <2>13. /\ sort = "recent" => base[p[i]].start <= base[p[j]].start
         /\ sort = "cost"   => base[p[i]].cost <= base[p[j]].cost
         /\ sort = "tokens" => base[p[i]].total <= base[p[j]].total
    BY <2>9, <2>10, <2>11, <2>12
  <2> QED
    BY <2>8, <2>13
<1>14. sort = "recent" \/ sort = "cost" \/ sort = "tokens"
  BY DEF Order
<1>15. \A r \in ToSet(rows) \ list, l \in list :
         CASE sort = "recent" -> r.start <= l.start
           [] sort = "cost"   -> r.cost <= l.cost
           [] sort = "tokens" -> r.total <= l.total
  <2> SUFFICES ASSUME NEW r \in ToSet(rows) \ list, NEW l \in list
               PROVE  CASE sort = "recent" -> r.start <= l.start
                        [] sort = "cost"   -> r.cost <= l.cost
                        [] sort = "tokens" -> r.total <= l.total
    OBVIOUS
  <2>1. /\ sort = "recent" => r.start <= l.start
        /\ sort = "cost"   => r.cost <= l.cost
        /\ sort = "tokens" => r.total <= l.total
    BY <1>13
  <2> QED
    BY <1>14, <2>1
<1> QED
  BY <1>12, <1>15 DEF SessionsRight, rows

(***************************************************************************)
(* The charts and the summary: the labels of the columns                   *)
(***************************************************************************)
LEMMA FlattenOne ==
  ASSUME NEW X, NEW a \in Seq(X)
  PROVE  FlattenSeq(<<a>>) = a
<1> DEFINE off == [i \in 1 .. 1 + 1 |-> IF i = 1 THEN 0 ELSE Len(a)]
<1>1. PICK ss \in Seq(Seq(X)) : ss = <<a>>
  <2>1. PICK Y : Y = Seq(X)
    OBVIOUS
  <2>2. <<a>> \in Seq(Y)
    BY <2>1
  <2> QED
    BY <2>1, <2>2
<1>2. Len(ss) = 1 /\ ss[1] = a
  BY <1>1
<1>3. off \in [1 .. 1 + 1 -> Nat] /\ off[1] = 0 /\ off[1 + 1] = Len(a)
  OBVIOUS
<1> HIDE DEF off
<1>4. Offsets(off, ss)
  BY <1>2, <1>3 DEF Offsets
<1>5. \A i \in 1 .. Len(ss) : \A j \in 1 .. Len(ss[i]) : ss[i][j] = a[off[i] + j]
  BY <1>2, <1>3
<1>6. off[Len(ss) + 1] = Len(a)
  BY <1>2, <1>3
<1>7. FlattenSeq(ss) = a
  BY <1>4, <1>5, <1>6, PiecesJoin
<1> QED
  BY <1>1, <1>7

(* Joining a sequence and some more.                                       *)
LEMMA FlattenFirst ==
  ASSUME NEW X, NEW a \in Seq(X), NEW ss \in Seq(Seq(X))
  PROVE  FlattenSeq(<<a>> \o ss) = a \o FlattenSeq(ss)
<1>1. PICK m \in Nat : m = Len(ss)
  OBVIOUS
<1>2. PICK f : f = FlattenSeq(ss)
  OBVIOUS
<1>3. PICK off : Offsets(off, ss)
  BY OffsetsExist
<1>4. f \in Seq(X) /\ Len(f) = off[m + 1] /\ \A i \in 1 .. m : \A j \in 1 .. Len(ss[i]) : f[off[i] + j] = ss[i][j]
  BY <1>1, <1>2, <1>3, FlattenPlaces, SMTT(30)
<1>5. PICK tt \in Seq(Seq(X)) : tt = <<a>> \o ss
  <2>1. PICK Y : Y = Seq(X)
    OBVIOUS
  <2>2. <<a>> \in Seq(Y) /\ ss \in Seq(Y)
    BY <2>1
  <2>3. <<a>> \o ss \in Seq(Y)
    BY <2>2
  <2> QED
    BY <2>1, <2>3
<1>6. Len(tt) = m + 1 /\ tt[1] = a /\ \A i \in 1 .. m : tt[i + 1] = ss[i]
  BY <1>1, <1>5
<1>7. PICK s \in Seq(X) : s = a \o f
  <2>1. f \in Seq(X)
    BY <1>4
  <2>2. a \o f \in Seq(X)
    BY <2>1, ConcatPlaces
  <2> QED
    BY <2>2
<1>8. PICK k \in Nat : k = Len(a)
  OBVIOUS
<1>9. /\ Len(s) = k + Len(f) /\ \A j \in 1 .. k : s[j] = a[j]
      /\ \A j \in 1 .. Len(f) : s[k + j] = f[j]
  BY <1>4, <1>7, <1>8
<1> DEFINE more == [i \in 1 .. (m + 1) + 1 |-> IF i = 1 THEN 0 ELSE k + off[i - 1]]
<1>10. /\ \A i \in 1 .. m + 1 : off[i] \in Nat
       /\ off[1] = 0 /\ \A i \in 1 .. m : off[i + 1] = off[i] + Len(ss[i])
  BY <1>1, <1>3 DEF Offsets
<1>11. more[1] = 0 /\ \A i \in 1 .. m + 1 : more[i + 1] = k + off[i]
  <2>1. \A i \in 1 .. m + 1 : i + 1 \in 1 .. (m + 1) + 1 /\ i + 1 # 1 /\ i + 1 - 1 = i
    OBVIOUS
  <2> QED
    BY <2>1
<1>12. more \in [1 .. (m + 1) + 1 -> Nat]
  <2>1. \A i \in 1 .. (m + 1) + 1 : i = 1 \/ i - 1 \in 1 .. m + 1
    OBVIOUS
  <2> QED
    BY <1>10, <2>1
<1> HIDE DEF more
<1>13. \A i \in 1 .. m + 1 : i = 1 \/ \E q \in 1 .. m : i = q + 1
  <2> SUFFICES ASSUME NEW i \in 1 .. m + 1, i # 1 PROVE \E q \in 1 .. m : i = q + 1
    OBVIOUS
  <2>1. i - 1 \in 1 .. m /\ i = (i - 1) + 1
    OBVIOUS
  <2> QED
    BY <2>1
<1>14. \A i \in 1 .. m : /\ i \in 1 .. m + 1 /\ i + 1 \in 1 .. m + 1 /\ Len(ss[i]) \in Nat
                         /\ off[i] \in Nat /\ off[i + 1] \in Nat
  <2>1. \A i \in 1 .. m : i \in 1 .. m + 1 /\ i + 1 \in 1 .. m + 1 /\ Len(ss[i]) \in Nat
    BY <1>1
  <2> QED
    BY <1>10, <2>1
<1>15. ASSUME NEW i \in 1 .. m + 1 PROVE more[i + 1] = more[i] + Len(tt[i])
  <2>1. CASE i = 1
    <3>1. more[i + 1] = k /\ more[i] = 0 /\ Len(tt[i]) = k
      BY <1>6, <1>8, <1>10, <1>11, <2>1
    <3> QED
      BY <3>1
  <2>2. CASE i # 1
    <3>1. PICK q \in 1 .. m : i = q + 1
      BY <1>13, <2>2
    <3>2. more[i + 1] = k + off[q + 1] /\ more[i] = k + off[q] /\ tt[i] = ss[q]
      BY <1>6, <1>11, <1>14, <3>1
    <3>3. off[q + 1] = off[q] + Len(ss[q]) /\ off[q] \in Nat /\ Len(ss[q]) \in Nat
      BY <1>10, <1>14
    <3> QED
      BY <3>2, <3>3
  <2> QED
    BY <2>1, <2>2
<1>16. Offsets(more, tt)
  BY <1>6, <1>11, <1>12, <1>15 DEF Offsets
<1>17. more[Len(tt) + 1] = Len(s)
  <2>1. m + 1 \in 1 .. m + 1
    OBVIOUS
  <2> QED
    BY <1>4, <1>6, <1>9, <1>11, <2>1
<1>18. ASSUME NEW i \in 1 .. m + 1, NEW j \in 1 .. Len(tt[i]) PROVE tt[i][j] = s[more[i] + j]
  <2>1. CASE i = 1
    <3>1. j \in 1 .. k /\ more[i] + j = j /\ tt[i] = a
      BY <1>6, <1>8, <1>11, <2>1
    <3> QED
      BY <1>9, <3>1
  <2>2. CASE i # 1
    <3>1. PICK q \in 1 .. m : i = q + 1
      BY <1>13, <2>2
    <3>2. more[i] = k + off[q] /\ tt[i] = ss[q] /\ j \in 1 .. Len(ss[q])
      BY <1>6, <1>11, <1>14, <3>1
    <3>3. f[off[q] + j] = ss[q][j]
      BY <1>4, <3>2
    <3>4. off[q] + j \in 1 .. Len(f)
      <4>1. \A x, y \in 1 .. m + 1 : x <= y => off[x] <= off[y]
        BY <1>1, <1>3, OffsetsRise
      <4>2. m + 1 \in 1 .. m + 1 /\ q + 1 \in 1 .. m + 1 /\ q + 1 <= m + 1
        OBVIOUS
      <4>3. off[q + 1] <= off[m + 1] /\ off[m + 1] \in Nat
        BY <1>10, <4>1, <4>2
      <4>4. off[q + 1] = off[q] + Len(ss[q]) /\ off[q] \in Nat /\ Len(ss[q]) \in Nat /\ off[q + 1] \in Nat
        BY <1>10, <1>14
      <4>5. Len(f) = off[m + 1]
        BY <1>4
      <4>6. \A x, y, z, u \in Nat : z = x + y /\ z <= u => \A v \in 1 .. y : x + v \in 1 .. u
        OBVIOUS
      <4>7. \A v \in 1 .. Len(ss[q]) : off[q] + v \in 1 .. off[m + 1]
        BY <4>3, <4>4, <4>6
      <4> QED
        BY <3>2, <4>5, <4>7
    <3>5. more[i] + j = k + (off[q] + j)
      <4>1. off[q] \in Nat /\ j \in Nat
        BY <1>14, <3>2
      <4> QED
        BY <3>2, <4>1
    <3> QED
      BY <1>9, <3>2, <3>3, <3>4, <3>5
  <2> QED
    BY <2>1, <2>2
<1>19. FlattenSeq(tt) = s
  BY <1>6, <1>16, <1>17, <1>18, PiecesJoin
<1> QED
  BY <1>2, <1>5, <1>7, <1>19

(* Where a line ends, what is left then, and the lines of a rest.          *)
CutOf(s, n) == LET breaks == {i \in 1 .. n : s[i] \in Separators}
               IN  IF breaks = {} THEN n ELSE Max(breaks)
RestOf(s, n) == SubSeq(s, CutOf(s, n) + 1, Len(s))
WrapStep(s, n, g) ==
  IF Len(s) <= n THEN <<s>> ELSE <<SubSeq(s, 1, CutOf(s, n))>> \o g[RestOf(s, n)]
RestsOf(label) == {SubSeq(label, i, Len(label)) : i \in 1 .. Len(label) + 1}
Wraps(label, n, g) == g = [s \in RestsOf(label) |-> WrapStep(s, n, g)]

LEMMA CutIs ==
  ASSUME NEW s, NEW n \in Nat \ {0}
  PROVE  CutOf(s, n) \in 1 .. n
<1> DEFINE breaks == {i \in 1 .. n : s[i] \in Separators}
<1>1. breaks \in SUBSET Int /\ breaks \subseteq 1 .. n
  OBVIOUS
<1>2. IsFiniteSet(breaks)
  <2>1. IsFiniteSet(1 .. n)
    BY FS_Interval
  <2> HIDE DEF breaks
  <2> QED
    BY <1>1, <2>1, FS_Subset
<1>3. breaks # {} => Max(breaks) \in 1 .. n
  <2> HIDE DEF breaks
  <2> QED
    BY <1>1, <1>2, ExtremesAre
<1>4. n \in 1 .. n
  OBVIOUS
<1>5. CutOf(s, n) = IF breaks = {} THEN n ELSE Max(breaks)
  BY DEF CutOf
<1> HIDE DEF breaks
<1> QED
  BY <1>3, <1>4, <1>5

(* What is left is a shorter rest of the label.                            *)
LEMMA RestIs ==
  ASSUME NEW X, NEW label \in Seq(X), NEW n \in Nat \ {0}, NEW s \in RestsOf(label)
  PROVE  /\ s \in Seq(X) /\ Len(s) \in Nat
         /\ Len(s) > n =>
              /\ RestOf(s, n) \in RestsOf(label) /\ Len(RestOf(s, n)) < Len(s)
              /\ SubSeq(s, 1, CutOf(s, n)) \in Seq(X) /\ Len(SubSeq(s, 1, CutOf(s, n))) <= n
              /\ SubSeq(s, 1, CutOf(s, n)) \o RestOf(s, n) = s
<1>1. PICK m \in Nat : m = Len(label)
  OBVIOUS
<1>2. PICK i \in 1 .. m + 1 : s = SubSeq(label, i, m)
  BY <1>1 DEF RestsOf
<1>3. s \in Seq(X) /\ Len(s) = m - i + 1 /\ \A j \in 1 .. m - i + 1 : s[j] = label[i + j - 1]
  BY <1>1, <1>2
<1>4. Len(s) \in Nat
  BY <1>3
<1>5. PICK c \in 1 .. n : c = CutOf(s, n)
  BY CutIs
<1>6. ASSUME Len(s) > n
      PROVE  /\ RestOf(s, n) \in RestsOf(label) /\ Len(RestOf(s, n)) < Len(s)
             /\ SubSeq(s, 1, c) \in Seq(X) /\ Len(SubSeq(s, 1, c)) <= n
             /\ SubSeq(s, 1, c) \o RestOf(s, n) = s
  <2>1. PICK r : r = RestOf(s, n)
    OBVIOUS
  <2>2. r = SubSeq(s, c + 1, m - i + 1)
    BY <1>3, <1>5, <2>1 DEF RestOf
  <2>3. c \in Nat /\ c >= 1 /\ c < m - i + 1
    BY <1>3, <1>6
  <2>4. r \in Seq(X) /\ Len(r) = m - i + 1 - c /\ \A j \in 1 .. m - i + 1 - c : r[j] = s[c + j]
    BY <1>3, <2>2, <2>3
  <2>5. PICK k \in 1 .. m + 1 : k = i + c
    BY <2>3
  <2>6. PICK t : t = SubSeq(label, k, m)
    OBVIOUS
  <2>7. t \in Seq(X) /\ Len(t) = m - k + 1 /\ \A j \in 1 .. m - k + 1 : t[j] = label[k + j - 1]
    BY <1>1, <2>6
  <2>8. r = t
    <3>1. Len(r) = Len(t) /\ Len(r) \in Nat
      BY <2>3, <2>4, <2>5, <2>7
    <3>2. ASSUME NEW j \in 1 .. Len(r) PROVE r[j] = t[j]
      <4>1. c + j \in 1 .. m - i + 1 /\ j \in 1 .. m - i + 1 - c /\ j \in 1 .. m - k + 1
        BY <2>3, <2>4, <2>5
      <4>2. r[j] = s[c + j] /\ s[c + j] = label[i + (c + j) - 1] /\ t[j] = label[k + j - 1]
        BY <1>3, <2>4, <2>7, <4>1
      <4>3. i + (c + j) - 1 = k + j - 1
        BY <2>3, <2>5, <4>1
      <4> QED
        BY <4>2, <4>3
    <3> QED
      BY <2>4, <2>7, <3>1, <3>2
  <2>9. r \in RestsOf(label)
    BY <1>1, <2>5, <2>6, <2>8 DEF RestsOf
  <2>10. PICK h : h = SubSeq(s, 1, c)
    OBVIOUS
  <2>11. h \in Seq(X) /\ Len(h) = c /\ \A j \in 1 .. c : h[j] = s[j]
    BY <1>3, <2>3, <2>10
  <2>12. h \o r = s
    <3>1. /\ h \o r \in Seq(X) /\ Len(h \o r) = Len(h) + Len(r)
          /\ \A j \in 1 .. Len(h) : (h \o r)[j] = h[j]
          /\ \A j \in 1 .. Len(r) : (h \o r)[Len(h) + j] = r[j]
      <4>1. h \in Seq(X) /\ r \in Seq(X)
        BY <2>4, <2>11
      <4> QED
        BY <4>1, ConcatPlaces
    <3>2. PICK u : u = h \o r
      OBVIOUS
    <3>3. u \in Seq(X) /\ Len(u) = Len(s)
      BY <1>3, <2>3, <2>4, <2>11, <3>1, <3>2
    <3>4. ASSUME NEW j \in 1 .. Len(s) PROVE u[j] = s[j]
      <4>1. CASE j <= c
        <5>1. j \in 1 .. c
          BY <1>4, <2>3, <4>1
        <5> QED
          BY <2>11, <3>1, <3>2, <5>1
      <4>2. CASE ~(j <= c)
        <5>1. PICK q \in 1 .. m - i + 1 - c : c + q = j
          <6>1. j - c \in 1 .. m - i + 1 - c /\ c + (j - c) = j
            BY <1>3, <2>3, <4>2
          <6> QED
            BY <6>1
        <5>2. r[q] = s[c + q] /\ q \in 1 .. Len(r) /\ Len(h) = c
          BY <2>4, <2>11
        <5>3. u[c + q] = r[q]
          BY <3>1, <3>2, <5>2
        <5> QED
          BY <5>1, <5>2, <5>3
      <4> QED
        BY <4>1, <4>2
    <3>5. s \in Seq(X)
      BY <1>3
    <3>6. u = s
      BY <3>3, <3>4, <3>5
    <3> QED
      BY <3>2, <3>6
  <2> QED
    BY <1>3, <2>1, <2>3, <2>4, <2>9, <2>10, <2>11, <2>12
<1> QED
  BY <1>3, <1>4, <1>5, <1>6

LEMMA WrapsExist ==
  ASSUME NEW X, NEW label \in Seq(X), NEW n \in Nat \ {0}
  PROVE  \E g : Wraps(label, n, g)
<1> DEFINE D == RestsOf(label)
           Short(m) == {s \in D : Len(s) < m}
           Part(m, g) == g = [s \in Short(m) |-> WrapStep(s, n, g)]
           T == {m \in Nat : ~ \E g : Part(m, g)}
<1>1. \A s \in D : /\ Len(s) \in Nat
                   /\ Len(s) > n => RestOf(s, n) \in D /\ Len(RestOf(s, n)) \in Nat /\ Len(RestOf(s, n)) < Len(s)
  BY RestIs
<1> HIDE DEF D
<1>2. T = {}
  <2>1. SUFFICES ASSUME T # {} PROVE FALSE
    OBVIOUS
  <2>2. PICK m \in T : \A k \in T : m <= k
    BY <2>1, LeastNat
  <2>3. m # 0
    <3> DEFINE g == [s \in Short(0) |-> 0]
    <3>1. Short(0) = {}
      BY <1>1
    <3>2. Part(0, g)
      BY <3>1
    <3> QED
      BY <3>2
  <2> HIDE DEF Part
  <2>4. m - 1 \in Nat /\ m - 1 \notin T
    <3>1. m \in Nat /\ ~(m <= m - 1)
      OBVIOUS
    <3> QED
      BY <3>1, <2>2, <2>3
  <2>5. PICK g : Part(m - 1, g)
    BY <2>4
  <2> USE DEF Part
  <2> DEFINE h == [s \in Short(m) |-> IF Len(s) = m - 1 THEN WrapStep(s, n, g) ELSE g[s]]
  <2>6. ASSUME NEW s \in Short(m) PROVE h[s] = WrapStep(s, n, h)
    <3>0. m \in Nat /\ s \in D /\ Len(s) < m
      BY <2>2
    <3>1. Len(s) > n => RestOf(s, n) \in Short(m) /\ Len(RestOf(s, n)) # m - 1
      BY <1>1, <3>0
    <3>2. Len(s) > n => h[RestOf(s, n)] = g[RestOf(s, n)]
      BY <3>1
    <3>3. WrapStep(s, n, h) = WrapStep(s, n, g)
      <4>1. CASE Len(s) <= n
        BY <4>1 DEF WrapStep
      <4>2. CASE ~(Len(s) <= n)
        <5>1. Len(s) > n
          BY <1>1, <3>0, <4>2
        <5> QED
          BY <3>2, <5>1 DEF WrapStep
      <4> QED
        BY <4>1, <4>2
    <3>4. CASE Len(s) = m - 1
      BY <3>3, <3>4
    <3>5. CASE Len(s) # m - 1
      <4>1. s \in Short(m - 1)
        BY <1>1, <3>0, <3>5
      <4>2. g[s] = WrapStep(s, n, g)
        BY <4>1, <2>5
      <4> QED
        BY <4>2, <3>3, <3>5
    <3> QED
      BY <3>4, <3>5
  <2>7. Part(m, h)
    BY <2>6
  <2> QED
    BY <2>7, <2>2
<1>3. PICK m \in Nat : m = Len(label) + 1
  OBVIOUS
<1>4. Short(m) = D
  <2>1. \A s \in D : Len(s) < m
    <3> SUFFICES ASSUME NEW s \in D PROVE Len(s) < m
      OBVIOUS
    <3>1. PICK i \in 1 .. m : s = SubSeq(label, i, Len(label))
      BY <1>3 DEF D, RestsOf
    <3> QED
      BY <1>3, <3>1
  <2> QED
    BY <2>1
<1>5. PICK g : Part(m, g)
  BY <1>2
<1>6. Wraps(label, n, g)
  BY <1>4, <1>5 DEF Wraps, D
<1> QED
  BY <1>6

(* The lines of a rest are that rest, and none is too long.                *)
LEMMA LinesOfRest ==
  ASSUME NEW X, NEW label \in Seq(X), NEW n \in Nat \ {0}, NEW g, Wraps(label, n, g)
  PROVE  \A s \in RestsOf(label) :
           /\ g[s] \in Seq(Seq(X)) /\ FlattenSeq(g[s]) = s
           /\ \A i \in DOMAIN g[s] : Len(g[s][i]) <= n
<1> DEFINE Good(s) == /\ g[s] \in Seq(Seq(X)) /\ FlattenSeq(g[s]) = s
                      /\ \A i \in DOMAIN g[s] : Len(g[s][i]) <= n
           T == {m \in Nat : \E s \in RestsOf(label) : Len(s) = m /\ ~Good(s)}
<1>1. T = {}
  <2> SUFFICES ASSUME T # {} PROVE FALSE
    OBVIOUS
  <2>1. PICK m \in T : \A k \in T : m <= k
    <3>1. T \in SUBSET Nat
      OBVIOUS
    <3> HIDE DEF T
    <3> QED
      BY <3>1, LeastNat
  <2>2. PICK s \in RestsOf(label) : Len(s) = m /\ ~Good(s)
    OBVIOUS
  <2> HIDE DEF Good
  <2>3. g[s] = WrapStep(s, n, g)
    BY <2>2 DEF Wraps
  <2>4. s \in Seq(X) /\ Len(s) \in Nat
    BY RestIs
  <2>5. CASE Len(s) <= n
    <3>1. g[s] = <<s>>
      BY <2>3, <2>5 DEF WrapStep
    <3>2. FlattenSeq(g[s]) = s
      BY <2>4, <3>1, FlattenOne
    <3>3. g[s] \in Seq(Seq(X)) /\ \A i \in DOMAIN g[s] : g[s][i] = s
      BY <2>4, <3>1
    <3>4. Good(s)
      BY <2>5, <3>2, <3>3 DEF Good
    <3> QED
      BY <2>2, <3>4
  <2>6. CASE ~(Len(s) <= n)
    <3>1. PICK a, r : a = SubSeq(s, 1, CutOf(s, n)) /\ r = RestOf(s, n)
      OBVIOUS
    <3>2. Len(s) > n
      BY <2>4, <2>6
    <3>3. /\ r \in RestsOf(label) /\ Len(r) < Len(s)
          /\ a \in Seq(X) /\ Len(a) <= n /\ a \o r = s
      BY <3>1, <3>2, RestIs, SMTT(30)
    <3>4. Len(r) \in Nat
      BY <3>3, RestIs
    <3>5. Len(r) \notin T
      BY <2>1, <2>2, <3>3, <3>4
    <3>6. Good(r)
      BY <3>3, <3>4, <3>5
    <3>7. g[s] = <<a>> \o g[r]
      BY <2>3, <2>6, <3>1 DEF WrapStep
    <3>8. PICK ss \in Seq(Seq(X)) : ss = g[r]
      BY <3>6 DEF Good
    <3>9. FlattenSeq(<<a>> \o ss) = a \o FlattenSeq(ss)
      BY <3>3, FlattenFirst
    <3>10. FlattenSeq(g[s]) = s
      BY <3>3, <3>6, <3>7, <3>8, <3>9 DEF Good
    <3>11. <<a>> \o ss \in Seq(Seq(X)) /\ \A i \in DOMAIN (<<a>> \o ss) : i = 1 \/ i - 1 \in DOMAIN ss
      BY <3>3
    <3>12. \A i \in DOMAIN (<<a>> \o ss) : (<<a>> \o ss)[i] = IF i = 1 THEN a ELSE ss[i - 1]
      BY <3>3
    <3>13. \A i \in DOMAIN ss : Len(ss[i]) <= n
      BY <3>6, <3>8 DEF Good
    <3>14. \A i \in DOMAIN (<<a>> \o ss) : Len((<<a>> \o ss)[i]) <= n
      BY <3>3, <3>11, <3>12, <3>13
    <3>15. Good(s)
      BY <3>7, <3>8, <3>10, <3>11, <3>14 DEF Good
    <3> QED
      BY <2>2, <3>15
  <2> QED
    BY <2>5, <2>6
<1> SUFFICES ASSUME NEW s \in RestsOf(label) PROVE Good(s)
  OBVIOUS
<1>2. Len(s) \in Nat
  BY RestIs
<1> QED
  BY <1>1, <1>2

LEMMA WrapUnfolds ==
  ASSUME NEW label, NEW n
  PROVE  wrapAxisLabel(label, n) = (CHOOSE g : Wraps(label, Max({1, n}), g))[label]
BY DEF wrapAxisLabel, Wraps, WrapStep, CutOf, RestOf, RestsOf

LEMMA LabelsWrapped ==
  ASSUME NEW label, label \in Seq(ToSet(label)), NEW n \in 1 .. 4
  PROVE  LabelRight(label, n)
<1>1. Max({1, n}) = n /\ n \in Nat \ {0}
  BY MaxOf
<1>2. PICK g : g = CHOOSE h : Wraps(label, n, h)
  OBVIOUS
<1>3. Wraps(label, n, g)
  BY <1>1, <1>2, WrapsExist
<1>4. wrapAxisLabel(label, n) = g[label]
  BY <1>1, <1>2, WrapUnfolds
<1>5. label \in RestsOf(label)
  <2>1. SubSeq(label, 1, Len(label)) = label /\ 1 \in 1 .. Len(label) + 1
    OBVIOUS
  <2> QED
    BY <2>1 DEF RestsOf
<1>6. FlattenSeq(g[label]) = label /\ \A i \in DOMAIN g[label] : Len(g[label][i]) <= n
  BY <1>1, <1>3, <1>5, LinesOfRest
<1> QED
  BY <1>4, <1>6 DEF LabelRight

(* Each server bucket stands in one bin, the bars and lines of the time    *)
(* series add up to the summary, no bar is more than the whole, the list   *)
(* of sessions keeps their tokens and drops none that should come before   *)
(* one it shows, and a wrapped label is the label in lines that fit: for   *)
(* every answer and files the panels can be given.                         *)
THEOREM ChartsSumUp == SpecPanels => []ChartsMatchSummary
<1>1. ASSUME TypeOKPanels, kind = "charts", NEW b \in Drawn
      PROVE  /\ ChartBody(b) /\ b.events # <<>>
             /\ \A r \in ToSet(b.byProject) : ProjectName[r.project] \in Seq(ToSet(ProjectName[r.project]))
  <2>1. kind \in Kind /\ body \in Answers[kind] \cup {Empty}
    BY BodyIs, <1>1 DEF TypeOKPanels
  <2>2. b \in Files["charts"] \/ (b = body /\ OnPage(body))
    BY <1>1 DEF Drawn
  <2>3. b \in Answers["charts"] \cup {Empty} \cup Files["charts"]
    BY <1>1, <2>1, <2>2
  <2>4. OnPage(body) => body.events # <<>>
    BY <1>1 DEF OnPage
  <2>5. b.events # <<>>
    BY <1>1, <2>1, <2>2, <2>4, PanelsAssumption
  <2> QED
    BY <1>1, <2>1, <2>3, <2>5, PanelsAssumption
<1>2. ASSUME TypeOKPanels, kind = "charts", NEW b \in Drawn, NEW project,
             NEW bar \in ToSet(costByProject(b, project, ProjectName)), NEW n \in 1 .. 4
      PROVE  LabelRight(bar.label, n)
  <2> DEFINE all == [i \in DOMAIN b.byProject |->
                       [label |-> ProjectName[b.byProject[i].project], value |-> b.byProject[i].cost]]
  <2>1. project = 0
    <3>1. project # 0 => costByProject(b, project, ProjectName) = <<>>
      BY Zenon DEF costByProject
    <3>2. ToSet(<<>>) = {}
      BY DEF ToSet
    <3> QED
      BY <1>2, <3>1, <3>2
  <2>2. costByProject(b, project, ProjectName) = Computed(all)
    BY <2>1 DEF costByProject, Apply
  <2>3. PICK m \in Nat : DOMAIN b.byProject = 1 .. m /\ b.byProject \in Seq(ToSet(b.byProject))
    <3>1. b.byProject \in Seq(ToSet(b.byProject))
      BY <1>1, <1>2 DEF ChartBody, CostRows
    <3>2. DOMAIN b.byProject = 1 .. Len(b.byProject) /\ Len(b.byProject) \in Nat
      BY <3>1
    <3> QED
      BY <3>1, <3>2
  <2>4. Computed(all) = all /\ DOMAIN all = 1 .. m
    <3> DEFINE Y == {all[i] : i \in 1 .. m}
    <3>1. all \in [1 .. m -> Y] /\ DOMAIN all = 1 .. m
      BY <2>3
    <3> HIDE DEF all, Y
    <3> QED
      BY <3>1, ComputedIs
  <2>5. PICK i \in 1 .. m : bar = all[i]
    <3>1. bar \in ToSet(costByProject(b, project, ProjectName))
      BY <1>2
    <3> HIDE DEF all
    <3>2. bar \in ToSet(all)
      BY <2>2, <2>4, <3>1
    <3> QED
      BY <2>4, <3>2 DEF ToSet
  <2>6. bar.label = ProjectName[b.byProject[i].project] /\ b.byProject[i] \in ToSet(b.byProject)
    BY <2>3, <2>5
  <2>7. bar.label \in Seq(ToSet(bar.label))
    BY <1>1, <1>2, <2>6
  <2> QED
    BY <2>7, LabelsWrapped
<1>3. ASSUME TypeOKPanels, kind = "charts", NEW b \in Drawn
      PROVE  /\ BucketsWhole(b) /\ TotalsRight(b) /\ BarsRight(b)
             /\ \A sort \in Order : SessionsRight(b, sort)
  <2>1. ChartBody(b) /\ b.events # <<>>
    BY <1>1, <1>3
  <2> QED
    BY <2>1, BucketsKept, TotalsAgree, BarsAgree, SessionsListed
<1>4. TypeOKPanels => ChartsMatchSummary
  BY <1>2, <1>3 DEF ChartsMatchSummary
<1> QED
  BY <1>4, PanelTypeCorrect, PTL
=============================================================================
