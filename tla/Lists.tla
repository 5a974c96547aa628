-------------------------------- MODULE Lists --------------------------------
(***************************************************************************)
(* The project picker, which pages a list that may change under it, and    *)
(* the list of sessions.                                                   *)
(***************************************************************************)
EXTENDS Charts

CONSTANTS
  PerPage,   \* PROJECTS_PER_PAGE
  ListLimit  \* sessions listed

ASSUME ListsAssumption == PerPage \in Nat \ {0} /\ ListLimit \in Nat

(***************************************************************************)
(* The project picker; project 0 is the button "All"                       *)
(***************************************************************************)
pageCount(projects) == Max({1, (Len(projects) + PerPage - 1) \div PerPage})
storedPage(projects, page) == page                                    \* mutant
(* Clamped for what is drawn; the stored page stays as it is.              *)
safePage(projects, page) == Min({page, pageCount(projects) - 1})

(* Array.prototype.slice: a negative index counts from the end.            *)
Slice(s, from, to) ==
  LET index(i) == IF i < 0 THEN Max({0, Len(s) + i}) ELSE Min({i, Len(s)})
  IN  SubSeq(s, index(from) + 1, index(to))
chips(projects, page) ==
  LET start == safePage(projects, page) * PerPage
  IN  Slice(projects, start, start + PerPage)
activeOffPage(projects, page, active) ==
  active # 0 /\ active \notin ToSet(chips(projects, page))

(* The page of the selected project; findIndex of one that has gone is -1. *)
JumpTo(projects, active) ==
  LET at == {i \in DOMAIN projects : projects[i] = active}
  IN  (IF at = {} THEN -1 ELSE Min(at) - 1) \div PerPage
JumpShown(projects, page, active) ==
  pageCount(projects) > 1 /\ activeOffPage(projects, page, active)
(* Where the pager's buttons lead.                                         *)
Turns(projects, page, active) ==
  LET safe == safePage(projects, page)
  IN  IF pageCount(projects) = 1 THEN {}
      ELSE {p \in {safe - 1} : safe # 0} \cup {p \in {safe + 1} : safe < pageCount(projects) - 1}
             \cup {p \in {JumpTo(projects, active)} : JumpShown(projects, page, active)}

(***************************************************************************)
(* The list of sessions: the server's, each with one event, or those made  *)
(* of the events, sorted by the order chosen                               *)
(***************************************************************************)
Order == {"recent", "cost", "tokens"}
SessionRows(body, sort) ==
  LET row(s) == [start |-> s.start, dur |-> s.end - s.start,
                 cost |-> totals(s.events).cost, total |-> totals(s.events).total,
                 primary |-> Primary(s.events)]
      rank(r) == CASE sort = "recent" -> -r.start
                   [] sort = "cost"   -> -r.cost
                   [] sort = "tokens" -> -r.total
  IN  SortedBy(Apply(sessionsOf(body), row), rank)
SessionsList(body, sort) == First(SessionRows(body, sort), ListLimit)
=============================================================================
