------------------------------- MODULE Lists -------------------------------
(***************************************************************************)
(* The console's paged lists.  Each screen keeps a filter, sometimes words *)
(* or a second row of chips, and a page; it asks the server for that page   *)
(* and shows whatever answer arrived last.  A screen differs from the next *)
(* in what a tap does to the page, in when it asks, and in what it does    *)
(* with an empty first answer: that is its record below.                    *)
(*                                                                         *)
(* A row is "todo" or "done" and has the words looked for or not; a filter *)
(* is "todo", "done" or "all".  The choice of a page size is left out.      *)
(***************************************************************************)
EXTENDS Integers, FiniteSets

CONSTANTS Limit,     \* rows on a page
          LastRow,   \* rows are 1..LastRow, newest first
          MaxLoads   \* bound: pages asked for

ASSUME ListsAssumption ==
    Limit \in Nat \ {0} /\ LastRow \in Nat \ {0} /\ MaxLoads \in Nat

VARIABLES screen,    \* the screen that is open, one of the records below
          rows,      \* the server's rows
          filter, words, page,   \* what the screen says it shows
          typing,    \* searchTimer is running
          asked,     \* pages asked for so far
          flight,    \* calls on their way: id, list and page asked for, answer
          shown,     \* the answer on screen
          picked,    \* history: the filter the user picked, or "none"
          pressed    \* history: the pager that was pressed for this page

listVars == <<screen, rows, filter, words, page, typing, asked, flight, shown,
              picked, pressed>>

RowIds == 1..LastRow
NotYet == [total |-> -1]

-----------------------------------------------------------------------------
(* The screens.
   lands:   the filter a screen opens with.
   filter:  what tapping a filter does to the page; "run" only notes it.
   again:   tapping the filter that is on asks again.
   words:   "chips" are a second filter, the others a search box, which asks
            300 ms after the last key.
   empty:   what an empty first answer does: "stay", or show everything if the
            landing filter is still on ("landing") or if any is ("any").
   acts:    the screen deals with a row and asks again. *)

RequestsScreen == [name |-> "requests", lands |-> "todo", filter |-> "reset", again |-> TRUE,
                   words |-> "chips", empty |-> "landing", acts |-> TRUE]
ManagersRequests == [RequestsScreen EXCEPT !.lands = "all"]   \* they have no queue
PurchasesScreen == [name |-> "purchases", lands |-> "todo", filter |-> "reset", again |-> FALSE,
                    words |-> "chips", empty |-> "any", acts |-> TRUE]
StockScreen == [name |-> "stock", lands |-> "all", filter |-> "keep", again |-> TRUE,
                words |-> "keep", empty |-> "stay", acts |-> FALSE]
(* Mutant: the page stays where it was. *)
MyStockScreenKeeps == [StockScreen EXCEPT !.name = "my-stock"]
MyStockScreen == [name |-> "my-stock", lands |-> "all", filter |-> "reset", again |-> FALSE,
                  words |-> "reset", empty |-> "stay", acts |-> FALSE]
DeliveriesScreen == [name |-> "deliveries", lands |-> "all", filter |-> "none", again |-> FALSE,
                     words |-> "reset", empty |-> "stay", acts |-> FALSE]
WastageScreen == [name |-> "wastage", lands |-> "all", filter |-> "keep", again |-> TRUE,
                  words |-> "none", empty |-> "stay", acts |-> TRUE]
SupplierReturnsScreen == [name |-> "supplier-returns", lands |-> "all", filter |-> "keep",
                          again |-> TRUE, words |-> "none", empty |-> "stay", acts |-> TRUE]
SectionReturnsScreen == [name |-> "returns", lands |-> "all", filter |-> "none", again |-> FALSE,
                         words |-> "none", empty |-> "stay", acts |-> FALSE]
CountsScreen == [SectionReturnsScreen EXCEPT !.name = "counts", !.acts = TRUE]
UsersScreen == [SectionReturnsScreen EXCEPT !.name = "users"]
ItemsScreen == [name |-> "setup-items", lands |-> "todo", filter |-> "reset", again |-> TRUE,
                words |-> "reset", empty |-> "stay", acts |-> TRUE]
SuppliersScreen == [ItemsScreen EXCEPT !.name = "setup-suppliers"]
ReportsScreen == [name |-> "reports", lands |-> "todo", filter |-> "run", again |-> TRUE,
                  words |-> "none", empty |-> "stay", acts |-> FALSE]

Screens == {RequestsScreen, ManagersRequests, PurchasesScreen, StockScreen,
            MyStockScreen, DeliveriesScreen, WastageScreen, SupplierReturnsScreen, SectionReturnsScreen,
            CountsScreen, UsersScreen, ItemsScreen, SuppliersScreen, ReportsScreen}

(* The screens that leave the page alone when they change what is listed. *)
PageKeepers == {"stock", "wastage", "supplier-returns"}

-----------------------------------------------------------------------------
(* The server's half: routes read the rows asked for and count them all. *)

Listed == [filter |-> filter, words |-> words]
Matching(what) == {r \in RowIds : /\ what.filter \in {"all", rows[r].status}
                                  /\ what.words => rows[r].hit}

(* A report is not paged. *)
pageSize == IF screen.filter = "run" THEN LastRow ELSE Limit
offsetOf(p) == (p - 1) * pageSize
Rank(r, R) == Cardinality({s \in R : s <= r})
pageCount(total) == IF total = 0 THEN 1 ELSE (total + pageSize - 1) \div pageSize

DealtWith == {r \in RowIds : rows[r].status = "done"}
toPage(what, p) ==
    LET R == Matching(what)
    IN  [items |-> {r \in R : Rank(r, R) \in offsetOf(p) + 1 .. offsetOf(p) + pageSize},
         total |-> Cardinality(R),
         moves |-> Cardinality(DealtWith)]

-----------------------------------------------------------------------------
(* load(), with what the screen says at that moment. *)
Ask(what, p) ==
    /\ asked < MaxLoads
    /\ asked' = asked + 1
    /\ flight' = flight \cup {[id |-> asked + 1, what |-> what, page |-> p, answer |-> NotYet]}

ListsInit ==
    /\ screen \in Screens
    /\ rows \in [RowIds -> [status : {"todo", "done"}, hit : BOOLEAN]]
    /\ screen.words = "none" => \A r \in RowIds : rows[r].hit
    /\ filter = screen.lands /\ words = FALSE /\ page = 1 /\ typing = FALSE
    /\ asked = 1
    /\ flight = {[id |-> 1, what |-> [filter |-> screen.lands, words |-> FALSE], page |-> 1,
                  answer |-> NotYet]}
    /\ shown = [id |-> 0, what |-> [filter |-> screen.lands, words |-> FALSE], page |-> 1,
                answer |-> [items |-> {}, total |-> 0, moves |-> 0]]
    /\ picked = "none"
    /\ pressed = [own |-> TRUE, moves |-> 0]

(* A tap on a filter. *)
(* Mutant: it moves the highlight only. *)
SetFilterOnly(f) ==
    /\ screen.filter # "none"
    /\ filter' = f /\ picked' = f /\ page' = 1
    /\ UNCHANGED <<screen, rows, words, typing, asked, flight, shown, pressed>>
SetFilter(f) ==
    /\ screen.filter # "none"
    /\ screen.again \/ f # filter
    /\ filter' = f /\ picked' = f
    /\ page' = IF screen.filter = "reset" THEN 1 ELSE page
    /\ IF screen.filter = "run" THEN UNCHANGED <<asked, flight>>
       ELSE Ask([filter |-> f, words |-> words], page')
    /\ UNCHANGED <<screen, rows, words, typing, shown, pressed>>

(* "Run" under a report's dates. *)
RunReport ==
    /\ screen.filter = "run"
    /\ Ask(Listed, page)
    /\ UNCHANGED <<screen, rows, filter, words, page, typing, shown, picked, pressed>>

(* setSection, setMine: chips that work like a filter. *)
TapChip ==
    /\ screen.words = "chips"
    /\ words' = ~words /\ page' = 1
    /\ Ask([filter |-> filter, words |-> ~words], 1)
    /\ UNCHANGED <<screen, rows, filter, typing, shown, picked, pressed>>

(* A key in the search box: it asks once the typing has paused. *)
TypeWords ==
    /\ screen.words \in {"reset", "keep"}
    /\ words' = ~words /\ typing' = TRUE
    /\ UNCHANGED <<screen, rows, filter, page, asked, flight, shown, picked, pressed>>
TimerFires ==
    /\ typing /\ typing' = FALSE
    /\ page' = IF screen.words = "reset" THEN 1 ELSE page
    /\ Ask(Listed, page')
    /\ UNCHANGED <<screen, rows, filter, words, shown, picked, pressed>>

(* The pager is drawn from the answer on screen, and only past one page. *)
PagerShows == shown.answer.total > pageSize
TurnPage(p) ==
    /\ PagerShows /\ p \in 1..pageCount(shown.answer.total) /\ p # shown.page
    /\ page' = p
    /\ Ask(Listed, p)
    /\ pressed' = [own |-> shown.what = Listed, moves |-> shown.answer.moves]
    /\ UNCHANGED <<screen, rows, filter, words, typing, shown, picked>>

(* The server answers a call. *)
ServePage(c) ==
    /\ c.answer = NotYet
    /\ flight' = (flight \ {c}) \cup {[c EXCEPT !.answer = toPage(c.what, c.page)]}
    /\ UNCHANGED <<screen, rows, filter, words, page, typing, asked, shown, picked, pressed>>

(* ngOnInit, once its own load has come back: an empty landing filter gives way
   to everything. *)
Settle(c) ==
    IF /\ c.id = 1 /\ shown'.answer.items = {}
       /\ \/ screen.empty = "landing" /\ filter = screen.lands
          \/ screen.empty = "any" /\ filter # "all"
    THEN /\ filter' = "all" /\ page' = 1
         /\ asked' = asked + 1
         /\ flight' = (flight \ {c}) \cup
                {[id |-> asked + 1, what |-> [filter |-> "all", words |-> words], page |-> 1,
                  answer |-> NotYet]}
    ELSE flight' = flight \ {c} /\ UNCHANGED <<filter, page, asked>>

(* An answer is put on screen, in whatever order answers come. *)
Arrive(c) ==
    /\ c.answer # NotYet
    /\ shown' = c
    /\ Settle(c)
    /\ UNCHANGED <<screen, rows, words, typing, picked, pressed>>

(* A call fails: the error is named and the rows stay. *)
PageFails(c) ==
    /\ shown' = shown
    /\ Settle(c)
    /\ UNCHANGED <<screen, rows, words, typing, picked, pressed>>

(* A row on screen is dealt with, and the list asked for again. *)
DealWith(r) ==
    /\ screen.acts /\ r \in shown.answer.items /\ rows[r].status = "todo"
    /\ rows' = [rows EXCEPT ![r].status = "done"]
    /\ Ask(Listed, page)
    /\ UNCHANGED <<screen, filter, words, page, typing, shown, picked, pressed>>

(* Somebody else deals with a row. *)
Elsewhere(r) ==
    /\ rows[r].status = "todo"
    /\ rows' = [rows EXCEPT ![r].status = "done"]
    /\ UNCHANGED <<screen, filter, words, page, typing, asked, flight, shown, picked, pressed>>

ListsNext ==
    \/ \E f \in {"todo", "done", "all"} : SetFilter(f)
    \/ RunReport
    \/ TapChip
    \/ TypeWords
    \/ TimerFires
    \/ \E p \in 1..LastRow : TurnPage(p)
    \/ \E c \in flight : ServePage(c)
    \/ \E c \in flight : Arrive(c)
    \/ \E c \in flight : PageFails(c)
    \/ \E r \in RowIds : DealWith(r)
    \/ \E r \in RowIds : Elsewhere(r)

-----------------------------------------------------------------------------
(* Properties *)

Quiet == flight = {} /\ ~typing
NewestShown == Quiet /\ shown.id = asked

(* A list that is quiet, with its newest answer on it, shows the rows of the
   filter, the words and the page its own controls name, whatever was tapped
   while it was asking (purchases: "Without this it only moved the highlight
   and left the same rows on screen").  Only a report's dates may be ahead of
   its rows, until it is run.  And the filter is the one the user picked:
   landing on something that is not empty overrules nobody who picked another
   than the first, except on the purchases screen, which gives up any. *)
ListAnswersTheFilter ==
    /\ NewestShown => /\ shown.what = Listed \/ screen.filter = "run"
                      /\ shown.page = page
    /\ picked \in {"none", screen.lands, filter} \/ screen.name = "purchases"

(* "Nothing here" is said of a list with nothing in it: an empty page with rows
   on the others is seen only where rows left the list after its pager was
   drawn, where the pager that was pressed still belonged to another list, or
   on the three screens that keep their page when they list something else
   (deliveries: "Staying on page four ... is how a search comes back empty when
   it matched"). *)
EmptyMeansNothing ==
    NewestShown /\ shown.answer.items = {} /\ shown.answer.total > 0
        => \/ shown.answer.moves > pressed.moves
           \/ ~pressed.own
           \/ screen.name \in PageKeepers

(* What a list shows is what its controls say. *)
ListSaysWhatItShows == ListAnswersTheFilter /\ EmptyMeansNothing
=============================================================================
