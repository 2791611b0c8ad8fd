------------------------------ MODULE DrawPages ------------------------------
(***************************************************************************)
(* The table of draws, page by page: list_draws of api.py 183-227 and      *)
(* loadDraws with its two buttons in web/assets/app.js.                    *)
(*                                                                         *)
(* An answer is made of two queries, a count and a page of rows, and a     *)
(* synchronization may store a draw between them (at READ COMMITTED) and   *)
(* between two answers.  A click changes state.drawPage at once and asks   *)
(* for the page; nothing keeps a second click from coming before the first *)
(* answer, and answers may overtake each other.  The newest draw is on     *)
(* page 1; that it is the one with the largest issue is the order of the   *)
(* data the source publishes.                                              *)
(***************************************************************************)
EXTENDS Integers, FiniteSets, FiniteSetsExt, SequencesExt

CONSTANTS
    Issues,        \* the issues there are
    FirstIssue,    \* data_start_issue_id
    PageSize,      \* state.drawPageSize
    MaxAsked,      \* bound: how many pages are asked for
    MaxPending,    \* bound: how many answers are waited for at once
    MaxLost,       \* bound: answers lost
    NoWalk

ASSUME IssuesType == Issues \subseteq Nat /\ IsFiniteSet(Issues) /\ FirstIssue \in Nat
ASSUME SizesType == PageSize \in Nat \ {0} /\ {MaxAsked, MaxPending, MaxLost} \subseteq Nat
ASSUME NoWalkType == NoWalk \notin [page : Nat, base : SUBSET Issues, seen : SUBSET Issues]

Stages == {"sent", "counted", "served"}
(* base is history: the draws there were when the rows were read.  late is *)
(* history: a call that was sent after this one is shown or lost already.  *)
Ask == [page : Nat, stage : Stages, total : Nat, rows : SUBSET Issues,
        base : SUBSET Issues, late : BOOLEAN]

(* What the table shows: the page its rows are of, the page its label      *)
(* names, and which buttons can be pressed.                                *)
Shown == [of : Nat, label : Nat, total : Nat, rows : SUBSET Issues, moved : BOOLEAN,
          late : BOOLEAN, previous : BOOLEAN, next : BOOLEAN]

VARIABLES
    draws,       \* the issues in draw_records
    drawPage,    \* state.drawPage
    asked,       \* the calls under way, in the order they were sent
    shown,       \* the table on the screen: Shown
    count,       \* bounded: the pages asked for
    lost,        \* bounded: the answers lost
    hasty,       \* history: a button was pressed while the page it counts from was not shown
    walk         \* history: pages 1, 2, ... looked at in turn, or NoWalk

vars == <<draws, drawPage, asked, shown, count, lost, hasty, walk>>

(* The page as it is delivered: of page 0, and both buttons can be pressed.*)
Empty == [of |-> 0, label |-> 1, total |-> 0, rows |-> {}, moved |-> FALSE,
          late |-> FALSE, previous |-> TRUE, next |-> TRUE]

Init ==
    /\ draws \in SUBSET Issues
    /\ drawPage = 1
    /\ asked = <<>>
    /\ shown = Empty
    /\ count = 0 /\ lost = 0
    /\ hasty = FALSE
    /\ walk = NoWalk

-----------------------------------------------------------------------------
(* The service                                                             *)

InScope == {i \in draws : i >= FirstIssue}

(* A synchronization stores a draw, which need not be the newest one. *)
StoreDraw(i) ==
    /\ i \notin draws /\ i >= FirstIssue
    /\ draws' = draws \cup {i}
    /\ UNCHANGED <<drawPage, asked, shown, count, lost, hasty, walk>>

Answering == UNCHANGED <<draws, drawPage, shown, count, lost, hasty, walk>>

Count(k) ==
    /\ asked[k].stage = "sent"
    /\ asked' = [asked EXCEPT ![k].stage = "counted", ![k].total = Cardinality(InScope)]
    /\ Answering

OffsetFromOne(page) == page * PageSize - 1
Offset(page) == (page - 1) * PageSize

(* The newest first; so many skipped, at most a page of the rest. *)
RowsOf(page) ==
    {i \in InScope :
        Cardinality({j \in InScope : j > i}) \in Offset(page) .. Offset(page) + PageSize - 1}

Rows(k) ==
    /\ asked[k].stage = "counted"
    /\ asked' = [asked EXCEPT ![k].stage = "served",
                              ![k].rows = RowsOf(asked[k].page), ![k].base = InScope]
    /\ Answering

-----------------------------------------------------------------------------
(* The browser                                                             *)

AskBeforeTurning(page) ==
    /\ count < MaxAsked /\ Len(asked) < MaxPending
    /\ count' = count + 1
    /\ drawPage' = page
    /\ asked' = Append(asked, [page |-> drawPage, stage |-> "sent", total |-> 0, rows |-> {},
                               base |-> {}, late |-> FALSE])
    /\ UNCHANGED <<draws, shown, lost, walk>>

AskFor(page) ==
    /\ count < MaxAsked /\ Len(asked) < MaxPending
    /\ count' = count + 1
    /\ drawPage' = page
    /\ asked' = Append(asked, [page |-> page, stage |-> "sent", total |-> 0, rows |-> {},
                               base |-> {}, late |-> FALSE])
    /\ UNCHANGED <<draws, shown, lost, walk>>

(* The view is opened from the navigation, at the page it was left at; it  *)
(* is shown before its first answer is there.                              *)
OpenView == AskFor(drawPage) /\ UNCHANGED hasty

InHaste == asked # <<>> \/ shown.of # drawPage

Opened == count > 0

drawsPreviousUnguarded ==
    Opened /\ shown.previous /\ AskFor(drawPage - 1) /\ hasty' = (hasty \/ InHaste)

drawsPrevious ==
    /\ Opened /\ shown.previous
    /\ drawPage > 1
    /\ AskFor(drawPage - 1)
    /\ hasty' = (hasty \/ InHaste)

drawsNext ==
    /\ Opened /\ shown.next
    /\ AskFor(drawPage + 1)
    /\ hasty' = (hasty \/ InHaste)

PagesRoundedDown(total) == Max({1, total \div PageSize + 1})
Pages(total) == Max({1, (total + PageSize - 1) \div PageSize})

(* The rows are those of the answer, while label and buttons go by the     *)
(* page the tab is at by now.                                              *)
Display(a) ==
    [of |-> a.page, label |-> drawPage, total |-> a.total, rows |-> a.rows,
     moved |-> a.total # Cardinality(a.base), late |-> a.late,
     previous |-> drawPage > 1, next |-> drawPage < Pages(a.total)]

(* A walk is broken when something else is waited for: the next page may   *)
(* have been read before this one.                                         *)
Walked(a) ==
    IF Len(asked) > 1 THEN NoWalk
    ELSE IF a.page = 1 THEN [page |-> 1, base |-> a.base, seen |-> a.rows]
    ELSE IF walk # NoWalk /\ a.page = walk.page + 1
         THEN [walk EXCEPT !.page = a.page, !.seen = @ \cup a.rows]
         ELSE NoWalk

Without(k) ==
    RemoveAt([i \in DOMAIN asked |->
                 IF i < k THEN [asked[i] EXCEPT !.late = TRUE] ELSE asked[i]], k)

loadDraws(k) ==
    /\ asked[k].stage = "served"
    /\ asked' = Without(k)
    /\ shown' = Display(asked[k])
    /\ walk' = Walked(asked[k])
    /\ UNCHANGED <<draws, drawPage, count, lost, hasty>>

(* An error is a toast, or nothing at all after a click; the page stays    *)
(* what the click made it.                                                 *)
Lose(k) ==
    /\ lost < MaxLost
    /\ lost' = lost + 1
    /\ asked' = Without(k)
    /\ shown' = [shown EXCEPT !.late = @ \/ ~ asked[k].late]
    /\ UNCHANGED <<draws, drawPage, count, hasty, walk>>

Next ==
    \/ \E i \in Issues : StoreDraw(i)
    \/ OpenView \/ drawsPrevious \/ drawsNext
    \/ \E k \in DOMAIN asked : Count(k) \/ Rows(k) \/ loadDraws(k) \/ Lose(k)

Spec == Init /\ [][Next]_vars

-----------------------------------------------------------------------------
(* Properties                                                              *)

TypeOK ==
    /\ draws \subseteq Issues
    /\ drawPage \in 1 .. MaxAsked + 1
    /\ asked \in Seq(Ask) /\ Len(asked) <= MaxPending
    /\ shown \in Shown
    /\ count \in 0 .. MaxAsked /\ lost \in 0 .. MaxLost
    /\ hasty \in BOOLEAN
    /\ walk = NoWalk \/ walk \in [page : Nat, base : SUBSET Issues, seen : SUBSET Issues]

(* When every answer is there, the label names the page whose rows are     *)
(* shown, however fast the buttons were pressed, unless a call that was    *)
(* sent later had been answered, or lost, before (app.js 460-476, 591-592).*)
SettledPageIsLabelled ==
    asked = <<>> /\ shown.of # 0 => shown.label = shown.of \/ shown.late

(* Who waits for each answer never gets past the end: a page without rows  *)
(* is shown only when there are no draws.  The count was made before, and  *)
(* relies on the table never getting shorter (api.py 193-209).             *)
NeverPastTheEnd == shown.of # 0 /\ shown.rows = {} /\ shown.total > 0 => hasty

(* Who looks at page after page misses no draw that was there when he      *)
(* began, although draws are stored meanwhile and move the others to later *)
(* pages; where the next button ends the walk he has seen them all, unless *)
(* one was stored between the two queries of the last answer.              *)
NothingSkipped ==
    walk # NoWalk /\ shown.of = walk.page =>
        \A i \in walk.base \ walk.seen :
            /\ \A j \in shown.rows : i < j
            /\ shown.next \/ shown.moved \/ shown.label # shown.of
=============================================================================
