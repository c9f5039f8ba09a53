----------------------------- MODULE Worklists -----------------------------
(***************************************************************************)
(* Who is offered what.  Every paper waits for somebody: the lists a role  *)
(* can open (auth.store, routes of the api), the buttons a row shows there *)
(* (the pages' templates), the badges on Home, and what the server says to *)
(* whoever presses.  The pages decide from the role and from flags the list *)
(* sends; the server decides again, from the row.                           *)
(***************************************************************************)
EXTENDS Integers, FiniteSets

CONSTANTS Person, RoleOf,  \* the logins of a branch
          Paper,           \* requests, orders, asks, slips and counts there may be
          MaxReturned      \* bound: rows of section_returns

Room == {"STORE", "KITCHEN", "CLEAN", "QUARANTINE"}
Nobody == "nobody"

ASSUME WorklistsAssumption ==
    /\ RoleOf \in [Person -> {"management", "storekeeper", "kitchen", "cleaning"}]
    /\ Nobody \notin Person
    /\ MaxReturned \in Nat

VARIABLES paper,     \* the rows of the five tables
          returned,  \* rows of section_returns
          claimed    \* those of them a supplier return names

worklistVars == <<paper, returned, claimed>>

NoPaper == [kind |-> "none", status |-> "none", room |-> "STORE", by |-> Nobody,
            back |-> "none", held |-> FALSE, old |-> FALSE, bin |-> 0, send |-> 0]

-----------------------------------------------------------------------------
(* Roles and rooms. *)

Owned(role) == CASE role = "storekeeper" -> {"STORE", "QUARANTINE"}
                 [] role = "kitchen" -> {"KITCHEN"}
                 [] role = "cleaning" -> {"CLEAN"}
                 [] OTHER -> {}
Visible(role) == IF role \in {"management", "storekeeper"} THEN Room ELSE Owned(role)
homeSectionFor(role) == IF role = "management" THEN "STORE"
                        ELSE CHOOSE r \in Owned(role) : r # "QUARANTINE"

Floor == {"kitchen", "cleaning"}
StoreAndControl == {"management", "storekeeper"}

(* ROUTE_PERMISSIONS and app.routes.ts: the roles a screen lets in. *)
CanUse(role, screen) ==
    \/ screen \in {"home", "requests", "counts", "wastage"}
    \/ screen \in {"purchases", "grn", "supplierReturns"} /\ role \in StoreAndControl

-----------------------------------------------------------------------------
(* What the server accepts. *)

MayAsk(u, room) ==
    /\ room \in Visible(RoleOf[u])
    /\ room # "STORE"                        \* ask: the store cannot ask itself
MayRelease(u, p) == RoleOf[u] = "storekeeper" /\ p.status = "requested"
MayConfirm(u, p) ==
    /\ p.status = "released"
    /\ p.room \in Owned(RoleOf[u])
    /\ p.by # u
MayCancel(u, p) == p.status = "requested" /\ p.room \in Visible(RoleOf[u])
StillReturnable(p) == p.held /\ p.back # "all"
MayHandBack(u, p) ==
    /\ RoleOf[u] \in Floor \cup {"storekeeper"}
    /\ p.room \in Visible(RoleOf[u]) /\ p.room # "QUARANTINE"
    /\ p.status \in {"released", "received"}
    /\ ~p.old /\ StillReturnable(p)

MayDecideOrder(u, p) ==
    RoleOf[u] = "management" /\ p.status \in {"requested", "approved", "ordered"}
MayReceive(u, p) == RoleOf[u] \in StoreAndControl /\ p.status \in {"approved", "ordered"}

MayDecideAsk(u, p) == RoleOf[u] = "management" /\ p.status = "raised" /\ p.by # u
MayBin(u, p) == RoleOf[u] = "storekeeper" /\ p.status # "raised" /\ p.bin > 0
MaySend(u, p) == RoleOf[u] = "storekeeper" /\ p.status = "approved" /\ p.send > 0
MaySettle(u, p) == RoleOf[u] = "management" /\ p.status = "sent"

MayApprove(u, p) == RoleOf[u] = "management" /\ p.status = "logged"
MayCount(p) == p.status = "open"          \* whoever asks: no section is looked at
MayVerify(u, p) == RoleOf[u] = "management" /\ p.status = "closed" /\ p.by # u

Accepts(u, button, p) ==
    CASE button = "Release" -> MayRelease(u, p)
      [] button = "It came" -> MayConfirm(u, p)
      [] button = "Return" -> MayHandBack(u, p)
      [] button = "Cancel" -> MayCancel(u, p)
      [] button \in {"Approve", "Not now", "Mark as ordered", "Close it short"} ->
            MayDecideOrder(u, p)
      [] button = "Receive" -> MayReceive(u, p)
      [] button = "Decide" -> MayDecideAsk(u, p)
      [] button = "Bin them" -> MayBin(u, p)
      [] button = "It has gone" -> MaySend(u, p)
      [] button = "Settle" -> MaySettle(u, p)
      [] button = "Approve slip" -> MayApprove(u, p)
      [] button = "Resume" -> MayCount(p)
      [] button = "Verify" -> MayVerify(u, p)

-----------------------------------------------------------------------------
(* The lists the server sends, and the flags on their rows. *)

Papers(kind) == {i \in Paper : paper[i].kind = kind}

(* Mutant: the list is of the sections a person belongs to. *)
RequestsOfOwned(u) == {i \in Papers("request") : paper[i].room \in Owned(RoleOf[u])}
RequestsOf(u) == {i \in Papers("request") : paper[i].room \in Visible(RoleOf[u])}

(* Mutant: any section the role may look at. *)
isMineIfVisible(u, p) == p.room \in Visible(RoleOf[u])
isMine(u, p) == p.room \in Owned(RoleOf[u])

canRelease(u) == RoleOf[u] = "storekeeper"
needsMe(u, p) ==
    \/ p.status = "requested" /\ canRelease(u)
    \/ p.status = "released" /\ isMine(u, p) /\ p.back # "all"
canReturn(p) == p.status \in {"released", "received"} /\ ~p.old /\ StillReturnable(p)

(* Mutant: the queue of whoever can see the section. *)
needsMeFilterVisible(u, p) ==
    \/ p.status = "requested" /\ canRelease(u)
    \/ p.status = "released" /\ p.room \in Visible(RoleOf[u])
needsMeFilter(u, p) ==
    \/ p.status = "requested" /\ canRelease(u)
    \/ p.status = "released" /\ p.room \in Owned(RoleOf[u])

BranchWide(kind, u) == {i \in Papers(kind) : RoleOf[u] \in StoreAndControl}
ByRoom(kind, u) == {i \in Papers(kind) : paper[i].room \in Visible(RoleOf[u])}

-----------------------------------------------------------------------------
(* The buttons a row shows. *)

RequestButtons(u, p) ==
    {b \in {"Release", "It came", "Return", "Cancel"} :
        CASE b = "Release" -> p.status = "requested" /\ canRelease(u)
          [] b = "It came" -> p.status = "released" /\ isMine(u, p)
          [] b = "Return" -> canReturn(p) /\ isMine(u, p)
          [] b = "Cancel" -> p.status = "requested" /\ isMine(u, p)}

canDecide(u) == RoleOf[u] = "management"
OrderButtons(u, p) ==
    CASE canDecide(u) /\ p.status = "requested" -> {"Not now", "Approve"}
      [] canDecide(u) /\ p.status = "approved" -> {"Close it short", "Mark as ordered"}
      [] p.status = "ordered" -> (IF canDecide(u) THEN {"Close it short"} ELSE {}) \cup
                                 (IF RoleOf[u] \in StoreAndControl THEN {"Receive"} ELSE {})
      [] OTHER -> {}

canRaiseReturn(u) == RoleOf[u] = "storekeeper"
AskButtons(u, p) ==
    CASE p.status = "raised" /\ canDecide(u) -> {"Decide"}
      [] p.status = "approved" /\ canRaiseReturn(u) ->
            (IF p.bin > 0 THEN {"Bin them"} ELSE {}) \cup
            (IF p.send > 0 THEN {"It has gone"} ELSE {})
      [] p.status = "sent" /\ canDecide(u) -> {"Settle"}
      [] OTHER -> {}

SlipButtons(u, p) == IF p.status = "logged" /\ RoleOf[u] = "management" THEN {"Approve slip"} ELSE {}
CountButtons(u, p) ==
    CASE p.status = "open" -> {"Resume"}
      [] p.status = "closed" /\ RoleOf[u] = "management" -> {"Verify"}
      [] OTHER -> {}

(* What u is shown of paper i: the screen lets them in and lists it. *)
Offered(u, i) ==
    CASE CanUse(RoleOf[u], "requests") /\ i \in RequestsOf(u) -> RequestButtons(u, paper[i])
      [] CanUse(RoleOf[u], "purchases") /\ i \in BranchWide("order", u) -> OrderButtons(u, paper[i])
      [] CanUse(RoleOf[u], "supplierReturns") /\ i \in BranchWide("ask", u) -> AskButtons(u, paper[i])
      [] CanUse(RoleOf[u], "wastage") /\ i \in ByRoom("slip", u) -> SlipButtons(u, paper[i])
      [] CanUse(RoleOf[u], "counts") /\ i \in ByRoom("count", u) -> CountButtons(u, paper[i])
      [] OTHER -> {}

(* Asking is a drawer: it names no section, so the server takes the home one. *)
canAsk(u) == RoleOf[u] \in Floor \cup {"management"}

(* Home: four badges and the list "Waiting for you". *)
toRelease == Cardinality({i \in Papers("request") : paper[i].status = "requested"})
toConfirm(u) == Cardinality({i \in RequestsOf(u) : paper[i].status = "released"})
posWaiting == Cardinality({i \in Papers("order") : paper[i].status = "requested"})
WaitingOnMe(u) == {i \in Papers("request") : needsMeFilter(u, paper[i])}
(* GET /returns?awaitingSupplier counts its rows before it drops those that are
   on a supplier return. *)
ReturnedBadge == returned

-----------------------------------------------------------------------------
(* The handlers. *)

Write(i, p) == paper' = [paper EXCEPT ![i] = p]
SameReturns == UNCHANGED <<returned, claimed>>

WorklistsInit ==
    /\ paper = [i \in Paper |-> NoPaper]
    /\ returned = 0 /\ claimed = 0

Raise(u, i) ==
    /\ paper[i].kind = "none"
    /\ \/ \E room \in Room :
            /\ MayAsk(u, room)
            /\ Write(i, [NoPaper EXCEPT !.kind = "request", !.status = "requested", !.room = room])
            /\ SameReturns
       \/ /\ RoleOf[u] \in StoreAndControl
          /\ Write(i, [NoPaper EXCEPT !.kind = "order", !.status = "requested"])
          /\ SameReturns
       \/ /\ RoleOf[u] = "storekeeper"
          /\ Write(i, [NoPaper EXCEPT !.kind = "ask", !.status = "raised", !.by = u])
          /\ returned' = returned
          /\ claimed' \in {claimed, claimed + 1} /\ claimed' <= returned
       \/ \E room \in Visible(RoleOf[u]), new \in {<<"slip", "logged">>, <<"count", "open">>} :
            /\ Write(i, [NoPaper EXCEPT !.kind = new[1], !.status = new[2], !.room = room,
                                        !.by = IF new[1] = "count" THEN u ELSE Nobody])
            /\ SameReturns

RequestStep(u, i) == LET p == paper[i] IN
    /\ p.kind = "request"
    /\ \/ /\ MayRelease(u, p)
          /\ Write(i, [p EXCEPT !.status = "released", !.by = u, !.held = TRUE])
          /\ SameReturns
       \/ MayConfirm(u, p) /\ Write(i, [p EXCEPT !.status = "received"]) /\ SameReturns
       \/ MayCancel(u, p) /\ Write(i, [p EXCEPT !.status = "cancelled"]) /\ SameReturns
       \/ /\ MayHandBack(u, p) /\ returned < MaxReturned
          /\ \E much \in {"part", "all"} :
                Write(i, [p EXCEPT !.status = "received", !.back = much])
          /\ returned' = returned + 1 /\ claimed' = claimed

(* Stock of the store's own shelf goes back with no request to name. *)
ReturnOwnStock(u) ==
    /\ RoleOf[u] = "storekeeper" /\ returned < MaxReturned
    /\ returned' = returned + 1
    /\ UNCHANGED <<paper, claimed>>

OrderStep(u, i) == LET p == paper[i] IN
    /\ p.kind = "order"
    /\ \/ /\ MayDecideOrder(u, p)
          /\ \E s \in {"approved", "rejected", "ordered", "done"} : Write(i, [p EXCEPT !.status = s])
       \/ /\ MayReceive(u, p)
          /\ \E s \in {"ordered", "done"} : Write(i, [p EXCEPT !.status = s])
    /\ SameReturns

AskStep(u, i) == LET p == paper[i] IN
    /\ p.kind = "ask"
    /\ \/ /\ MayDecideAsk(u, p)
          /\ \E bin, send \in 0..1 :
                /\ bin + send > 0
                /\ Write(i, [p EXCEPT !.status = "approved", !.bin = bin, !.send = send])
       \/ /\ MayBin(u, p)         \* settleIfFinished: nothing was claimed
          /\ Write(i, [p EXCEPT !.bin = 0,
                                !.status = IF p.send = 0 /\ @ = "approved" THEN "settled" ELSE @])
       \/ MaySend(u, p) /\ Write(i, [p EXCEPT !.status = "sent"])
       \/ MaySettle(u, p) /\ Write(i, [p EXCEPT !.status = "settled"])
    /\ SameReturns

SlipOrCountStep(u, i) == LET p == paper[i] IN
    /\ p.kind \in {"slip", "count"}
    /\ \/ MayApprove(u, p) /\ Write(i, [p EXCEPT !.status = "approved"])
       \/ MayCount(p) /\ Write(i, [p EXCEPT !.status = "closed"])
       \/ MayVerify(u, p) /\ Write(i, [p EXCEPT !.status = "verified"])
    /\ SameReturns

(* The section cooks with what it was given, gets more of it, or time passes. *)
ShelfOrClock(i) == LET p == paper[i] IN
    /\ p.kind = "request" /\ p.status \in {"released", "received"}
    /\ \/ Write(i, [p EXCEPT !.held = ~p.held])
       \/ ~p.old /\ Write(i, [p EXCEPT !.old = TRUE])
    /\ SameReturns

WorklistsNext ==
    \/ \E u \in Person, i \in Paper : Raise(u, i)
    \/ \E u \in Person, i \in Paper : RequestStep(u, i)
    \/ \E u \in Person : ReturnOwnStock(u)
    \/ \E u \in Person, i \in Paper : OrderStep(u, i)
    \/ \E u \in Person, i \in Paper : AskStep(u, i)
    \/ \E u \in Person, i \in Paper : SlipOrCountStep(u, i)
    \/ \E i \in Paper : ShelfOrClock(i)

-----------------------------------------------------------------------------
(* Properties *)

(* A button on a fresh row is not refused by the server, in whatever state the
   papers and the shelves are: the page's rule and the server's agree (ask:
   "offering a button that is going to come back 403 is worse than not offering
   it").  Four are refused all the same: management's Ask, whose home section
   is the store; "It came" to the storekeeper who released into quarantine;
   Return there; Verify to the manager who counted. *)
RefusedAllTheSame(u, b, p) ==
    \/ b = "It came" /\ p.by = u
    \/ b = "Return" /\ p.room = "QUARANTINE"
    \/ b = "Verify" /\ p.by = u
OfferedIsAccepted ==
    \A u \in Person :
        /\ canAsk(u) => MayAsk(u, homeSectionFor(RoleOf[u])) \/ RoleOf[u] = "management"
        /\ \A i \in Paper : \A b \in Offered(u, i) :
            Accepts(u, b, paper[i]) \/ RefusedAllTheSame(u, b, paper[i])

(* Every paper that is not finished is on the screen of somebody who is offered
   a step there that the server takes: no request, order, ask, slip or count is
   left with nobody to press the next button.  Two are: a count only another
   manager could verify where there is none, and the lines of an ask that were
   to be binned after the rest of it was sent, whose button is gone. *)
Unfinished(p) ==
    \/ p.kind \in {"request", "order", "count"}
            /\ p.status \in {"requested", "released", "approved", "ordered", "open", "closed"}
    \/ p.kind = "ask" /\ (p.status # "settled" \/ p.bin > 0)
    \/ p.kind = "slip" /\ p.status = "logged"
OnlyManagerCounted(p) ==
    p.kind = "count" /\ p.status = "closed" /\ {u \in Person : RoleOf[u] = "management"} \subseteq {p.by}
NobodyIsLeftWaiting ==
    \A i \in Paper : LET p == paper[i] IN
        Unfinished(p) => \/ \E u \in Person : \E b \in Offered(u, i) : Accepts(u, b, p)
                         \/ OnlyManagerCounted(p)
                         \/ p.kind = "ask" /\ p.status = "settled" /\ p.bin > 0

(* A badge on Home says how many rows of its screen show the button it is about,
   and "Needs me" lists the requests with a main button for whoever asks, each
   of them flagged as theirs (routes/requests: "A pager that promises rows the
   list then greys out is worse than a short list").  The Returns badge misses
   none of what came back, although it goes on counting what a supplier return
   has named since. *)
RowsWith(u, b) == {i \in Paper : b \in Offered(u, i)}
BadgesCountWhatIsOffered ==
    /\ ReturnedBadge >= returned - claimed
    /\ (\E i \in Paper : paper[i].kind # "none") => \A u \in Person :
           /\ canRelease(u) => toRelease = Cardinality(RowsWith(u, "Release"))
           /\ RoleOf[u] \in Floor => toConfirm(u) = Cardinality(RowsWith(u, "It came"))
           /\ canDecide(u) => posWaiting = Cardinality(RowsWith(u, "Approve"))
           /\ WaitingOnMe(u) = RowsWith(u, "Release") \cup RowsWith(u, "It came")
           /\ \A i \in WaitingOnMe(u) : needsMe(u, paper[i])

(* What waits for somebody is where that somebody looks. *)
WorkFindsItsHands == NobodyIsLeftWaiting /\ BadgesCountWhatIsOffered
=============================================================================
