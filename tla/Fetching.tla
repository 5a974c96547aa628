------------------------------- MODULE Fetching -------------------------------
(***************************************************************************)
(* A part of the page that fetches its own data whenever what the user has *)
(* selected changes, and shows whatever answer lands.                      *)
(*                                                                         *)
(* The App, the dashboard's panels and the views of the cache page are all *)
(* built this way and share nothing but the selection, so one of them at a *)
(* time is enough: kind says which.  No request is ever cancelled, so the  *)
(* answers of several may land in any order, be refused or get lost.       *)
(***************************************************************************)
EXTENDS Naturals

CONSTANTS
  Kind,        \* the parts of the page to look at
  Options,     \* what the user can select, by kind and field
  Start,       \* the selection of a page just loaded
  Answers,     \* the bodies the server may answer, by kind
  Empty,       \* what a part makes of a body without the fields it reads
  MaxRequests  \* bound on requests in one life of the page, by kind

Field == {"project", "range", "own", "nonce"}

(* The dashboard's answer belongs to the App and feeds several panels.     *)
OfDashboard == {"dashboard", "charts", "responses", "context"}
OwnModel    == {"usage", "latency", "heat"}
OfApp       == OfDashboard \cup {"projects", "models", "session"}
OfCachePage == {"cache", "growth"}
AllKinds    == OfApp \cup OwnModel \cup {"errors"} \cup OfCachePage

ASSUME FetchingAssumption ==
  /\ Kind \subseteq AllKinds
  /\ \A k \in Kind : Options[k] \in [Field -> SUBSET Nat]
  /\ Start \in [Field -> Nat] /\ \A k \in Kind, f \in Field : Start[f] \in Options[k][f]
  /\ \A k \in Kind : MaxRequests[k] \in Nat \ {0}

VARIABLES
  kind,      \* which part this is
  sel,       \* the selection: project, range, the panel's own model, dashNonce
  mounted,   \* the part is on the page
  requests,  \* requests in flight, with the selection they were sent for
  lastId,    \* requests sent so far
  newest,    \* what became of the newest one
  shown,     \* the body on display and the selection it was fetched for
  err        \* the part shows an error instead

vars == <<kind, sel, mounted, requests, lastId, newest, shown, err>>

(* The dependencies of the effect.                                         *)
DepsApp(k) ==
  CASE k \in OfDashboard -> {"project", "range", "nonce"}
    [] k = "projects"    -> {"range"}
    [] OTHER             -> {}
DepsStale(k) == {"project", "range", "nonce"}                        \* mutant
DepsPanel(k) == {"project", "range", "nonce"} \cup (IF k \in OwnModel THEN {"own"} ELSE {})
DepsCachePage(k) == {"project", "range"}
Deps(k) ==
  CASE k \in OfApp       -> DepsApp(k)
    [] k \in OfCachePage -> DepsCachePage(k)
    [] OTHER             -> DepsPanel(k)

(* The parameters of the request: each of them must be a dependency, but   *)
(* for the session of the Inspector, which a click asks for.               *)
Query(k) ==
  CASE k = "projects" -> {"range"}
    [] k = "models"   -> {}
    [] k = "session"  -> {"own"}
    [] k \in OwnModel -> {"project", "range", "own"}
    [] k \in OfDashboard \cup OfCachePage \cup {"errors"} -> {"project", "range"}

KeyAll(s) == s                                                        \* mutant
Key(s) == [f \in Query(kind) |-> s[f]]
Nothing == [key |-> <<>>, body |-> Empty]
Request == [id : 1 .. MaxRequests[kind], key : [Query(kind) -> Nat]]
Fate    == {"none", "pending", "ok", "refused", "lost", "overtaken"}

TypeOK ==
  /\ kind \in Kind
  /\ sel \in [Field -> Nat] /\ \A f \in Field : sel[f] \in Options[kind][f]
  /\ mounted \in BOOLEAN /\ err \in BOOLEAN
  /\ requests \in SUBSET Request
  /\ lastId \in 0 .. MaxRequests[kind]
  /\ newest \in Fate
  /\ shown = Nothing \/ shown \in [key : [Query(kind) -> Nat], body : Answers[kind] \cup {Empty}]

(* The effect runs: the views of the cache page first clear what they      *)
(* show, the others keep it until an answer lands.                         *)
Send(s) ==
  /\ lastId < MaxRequests[kind]
  /\ lastId' = lastId + 1
  /\ requests' = requests \cup {[id |-> lastId + 1, key |-> Key(s)]}
  /\ newest' = "pending"
  /\ IF kind \in OfCachePage THEN shown' = Nothing /\ err' = FALSE ELSE UNCHANGED <<shown, err>>

Init ==
  /\ kind \in Kind
  /\ sel = Start /\ mounted = TRUE
  /\ IF kind = "session" THEN requests = {} /\ lastId = 0 /\ newest = "none"
     ELSE requests = {[id |-> 1, key |-> Key(Start)]} /\ lastId = 1 /\ newest = "pending"
  /\ shown = Nothing /\ err = FALSE

(* React runs the effect again when a dependency changed.                  *)
Select(s) ==
  /\ sel' = s
  /\ IF mounted /\ \E f \in Deps(kind) : s[f] # sel[f]
     THEN Send(s)
     ELSE UNCHANGED <<requests, lastId, newest, shown, err>>
  /\ UNCHANGED <<kind, mounted>>

(* A click on a project, on a range, or in the panel's own model list.     *)
Choose(f, v) ==
  /\ v \in Options[kind][f] \ {sel[f]}
  /\ f = "own" => mounted /\ kind \in OwnModel
  /\ Select([sel EXCEPT ![f] = v])

(* An ingest_done event bumps dashNonce.                                   *)
IngestDone ==
  /\ sel["nonce"] + 1 \in Options[kind]["nonce"]
  /\ Select([sel EXCEPT !["nonce"] = @ + 1])

(* loadFromBackend: a click in the list of sessions, also on the one that  *)
(* is open.  Nothing is cleared, and what lands is shown.                  *)
Open(sid) ==
  /\ kind = "session"
  /\ sel' = [sel EXCEPT !["own"] = sid]
  /\ Send(sel')
  /\ UNCHANGED <<kind, mounted>>

(* Another route: the part is unmounted, its state goes, and answers that  *)
(* still come find nobody.  The App itself stays.                          *)
Leave ==
  /\ mounted /\ kind \notin OfApp
  /\ mounted' = FALSE
  /\ sel' = [sel EXCEPT !["own"] = Start["own"]]
  /\ requests' = {} /\ newest' = "none" /\ shown' = Nothing /\ err' = FALSE
  /\ UNCHANGED <<kind, lastId>>

Return ==
  /\ ~mounted /\ mounted' = TRUE
  /\ Send(sel)
  /\ UNCHANGED <<kind, sel>>

(* The newest request's fate after r has ended with outcome.               *)
After(r, outcome) ==
  CASE r.id = lastId -> outcome
    [] r.id # lastId /\ newest = "ok" /\ outcome # "lost" -> "overtaken"
    [] OTHER -> newest

Ended(r, outcome) ==
  /\ requests' = requests \ {r}
  /\ newest' = After(r, outcome)
  /\ UNCHANGED <<kind, sel, mounted, lastId>>

(* setData(...): no check that the answer is the newest request's.         *)
Land(r, body) ==
  /\ Ended(r, "ok")
  /\ shown' = [key |-> r.key, body |-> body]
  /\ UNCHANGED err

(* An error status with a JSON body: the cache page looks at r.ok, all     *)
(* others read the body as an answer without rows.                         *)
Refuse(r) ==
  IF kind \in OfCachePage
  THEN Ended(r, "lost") /\ err' = TRUE /\ UNCHANGED shown
  ELSE Ended(r, "refused") /\ shown' = [key |-> r.key, body |-> Empty] /\ UNCHANGED err

(* No answer, or not JSON.  Only the cache page has a place to say so.     *)
Lose(r) ==
  /\ Ended(r, "lost")
  /\ err' = (err \/ kind \in OfCachePage)
  /\ UNCHANGED shown

Next ==
  \/ \E f \in Field \ {"nonce"} : \E v \in Options[kind][f] : Choose(f, v)
  \/ \E sid \in Options[kind]["own"] : Open(sid)
  \/ IngestDone \/ Leave \/ Return
  \/ \E r \in requests :
       (\E body \in Answers[kind] : Land(r, body)) \/ Refuse(r) \/ Lose(r)

Spec == Init /\ [][Next]_vars

(* Once the newest request has been answered, and until an older one's     *)
(* answer overtakes it, what is shown was fetched for what is selected,    *)
(* also after any number of selections while requests were in flight.      *)
ShowsSelection == mounted /\ newest = "ok" => shown.key = Key(sel)

(* The newest request in flight asks for the current selection.            *)
NewestAsksSelection ==
  \A r \in requests : r.id <= lastId /\ (r.id = lastId => r.key = Key(sel))

(* Only a mounted part waits for or has answers; the App always does.      *)
IInv ==
  /\ NewestAsksSelection
  /\ newest = "ok" => mounted /\ shown.key = Key(sel)
  /\ ~mounted => requests = {} /\ kind \notin OfApp
=============================================================================
