----------------------------- MODULE Shortfall -----------------------------
(***************************************************************************)
(* From a request the store cannot cover to the order that buys the rest:   *)
(* the release drawer (requests.component.ts), the offer it makes, and the  *)
(* drawer that raises a purchase (purchases.component.ts), filled in from   *)
(* the request.  A screen and its drawers are new whenever it is gone to.   *)
(* Quantities of the order, prices, dates and the supplier are left out, so *)
(* are answers that overtake each other on opening (Drawers).               *)
(***************************************************************************)
EXTENDS Integers, FiniteSets

CONSTANTS BuyItem,
          AskedFor,    \* requests -> item -> quantity asked for, 0: not on it
          HasPack,     \* items with a pack to buy them in
          MaxHeld,     \* bound: what the store may hold of an item
          MaxGiven,    \* bound: what is typed under Giving
          MaxRaises,   \* bound: calls sent
          MaxMoves     \* bound: times the shelf changes otherwise

Untied == "untied"
Typed == "typed"
Short == DOMAIN AskedFor   \* the requests

ASSUME ShortfallAssumption ==
    /\ \A r \in Short : AskedFor[r] \in [BuyItem -> Nat]
    /\ Untied \notin Short /\ Typed \notin Short /\ HasPack \subseteq BuyItem
    /\ {MaxHeld, MaxGiven, MaxRaises, MaxMoves} \subseteq Nat

VARIABLES shelf, given,     \* the server: the store's stock, qty_issued per released request
          detail, giving,     \* the release drawer: the request as it was read, what is typed
          releasing,        \* the release on its way
          offer,            \* the question "Buy the rest?" on screen
          onScreen,             \* the screen: "requests" or "purchases"
          raising, raiseStep, draft, fromIssue, reason,  \* the drawer that raises
          prefill,          \* the request it is being filled in from
          raises,           \* orders on their way; form: the drawer that waits is on screen
          bought,           \* the server's orders
          calls, moves,     \* calls sent, changes of the shelf
          meant,            \* history: what the drawer was last opened for
          tiedLate,         \* history: it was filled in after it was opened for another thing
          openings,         \* history: requests the drawer was opened for, and those twice
          unheard,          \* history: requests of orders whose answer was lost
          told, offered     \* history: releases answered to the storekeeper, and offers made

shortVars == <<shelf, given, detail, giving, releasing, offer, onScreen, raising, raiseStep, draft,
               fromIssue, reason, prefill, raises, bought, calls, moves, meant, tiedLate, openings,
               unheard, told, offered>>

server == <<shelf, given, bought>>
releaseDrawer == <<detail, giving, releasing, offer>>
raiseDrawer == <<raising, raiseStep, draft, fromIssue, reason, prefill, raises, meant, tiedLate>>
counters == <<calls, moves>>
history == <<openings, unheard, told, offered>>

Lesser(a, b) == IF a < b THEN a ELSE b
NotHanded == [i \in BuyItem |-> -1]
NoDetail == [request |-> Untied, store |-> [i \in BuyItem |-> 0]]
Released(r) == given[r] # NotHanded
Issued(r, i) == IF Released(r) THEN given[r][i] ELSE 0
Outstanding(r) == {i \in BuyItem : AskedFor[r][i] > Issued(r, i)}
EmptyDraft == [i \in BuyItem |-> Untied]

ShortfallInit ==
    /\ shelf \in [BuyItem -> 0..MaxHeld]
    /\ given = [r \in Short |-> NotHanded]
    /\ detail = NoDetail /\ giving = NoDetail.store /\ releasing = Untied /\ offer = Untied
    /\ onScreen = "requests"
    /\ raising = FALSE /\ raiseStep = 0 /\ draft = EmptyDraft /\ fromIssue = Untied
    /\ reason = FALSE /\ prefill = Untied /\ raises = {} /\ meant = Untied /\ tiedLate = FALSE
    /\ bought = {} /\ calls = 0 /\ moves = 0
    /\ openings = [once |-> {}, twice |-> {}] /\ unheard = {} /\ told = {} /\ offered = {}

-----------------------------------------------------------------------------
(* Releasing *)

(* GET /requests/:id: the lines with what the store has of each. *)
Detail(r) == [request |-> r, store |-> shelf]

(* startRelease: what was asked for, as far as the store has it. *)
startRelease(r) ==
    /\ onScreen = "requests" /\ detail = NoDetail /\ offer = Untied /\ releasing = Untied
    /\ detail' = Detail(r)
    /\ giving' = [i \in BuyItem |-> Lesser(AskedFor[r][i], shelf[i])]
    /\ UNCHANGED <<server, releasing, offer, onScreen, raiseDrawer, counters, history>>

setGiving(i, q) ==
    /\ detail # NoDetail /\ releasing = Untied /\ AskedFor[detail.request][i] > 0 /\ giving[i] # q
    /\ giving' = [giving EXCEPT ![i] = q]
    /\ UNCHANGED <<server, detail, releasing, offer, onScreen, raiseDrawer, counters, history>>

(* Every line is sent, with what is typed; the storekeeper waits for the answer.
   A release sent again after a lost answer is a matter of its key (Requests). *)
doRelease ==
    /\ detail # NoDetail /\ releasing = Untied /\ calls < MaxRaises
    /\ \E i \in BuyItem : giving[i] > 0
    /\ releasing' = detail.request /\ calls' = calls + 1
    /\ UNCHANGED <<server, detail, giving, offer, onScreen, raiseDrawer, moves, history>>

(* release: what is typed as far as the shelf has it; a line is short when it
   is less than what was typed.  The drawer closes, and those who may buy are
   asked whether to. *)
ReleaseAnswered ==
    LET r == releasing
        out == [i \in BuyItem |-> IF AskedFor[r][i] > 0 THEN Lesser(giving[i], shelf[i]) ELSE 0]
        shortfalls == {i \in BuyItem : AskedFor[r][i] > 0 /\ out[i] < giving[i]}
    IN
    /\ r # Untied /\ ~Released(r) /\ \E i \in BuyItem : out[i] > 0
    /\ given' = [given EXCEPT ![r] = out]
    /\ shelf' = [i \in BuyItem |-> shelf[i] - out[i]]
    /\ detail' = NoDetail /\ giving' = NoDetail.store /\ releasing' = Untied
    /\ offer' = IF shortfalls # {} THEN r ELSE Untied
    /\ told' = told \cup {r}
    /\ offered' = IF shortfalls # {} THEN offered \cup {r} ELSE offered
    /\ UNCHANGED <<onScreen, raiseDrawer, bought, counters, openings, unheard>>

(* Refused (released already, or nothing to hand over), or it never gets there. *)
ReleaseFails ==
    /\ releasing # Untied
    /\ releasing' = Untied
    /\ UNCHANGED <<server, detail, giving, offer, onScreen, raiseDrawer, counters, history>>

CloseRelease ==
    /\ detail # NoDetail /\ releasing = Untied
    /\ detail' = NoDetail /\ giving' = NoDetail.store
    /\ UNCHANGED <<server, releasing, offer, onScreen, raiseDrawer, counters, history>>

(* Goods come and go otherwise. *)
ShelfMoves(i, q) ==
    /\ moves < MaxMoves /\ q # shelf[i]
    /\ shelf' = [shelf EXCEPT ![i] = q] /\ moves' = moves + 1
    /\ UNCHANGED <<given, bought, releaseDrawer, onScreen, raiseDrawer, calls, history>>

-----------------------------------------------------------------------------
(* To the other screen *)

(* The screen of purchases is new, open for a request or not at all; what it was
   sending before goes on. *)
Fresh(to, r) ==
    /\ onScreen' = to
    /\ raising' = (r # Untied) /\ prefill' = r /\ meant' = r
    /\ raiseStep' = 0 /\ draft' = EmptyDraft /\ fromIssue' = Untied /\ reason' = FALSE
    /\ tiedLate' = FALSE
    /\ raises' = {[o EXCEPT !.form = FALSE] : o \in raises}
    /\ detail' = NoDetail /\ giving' = NoDetail.store /\ releasing' = Untied /\ offer' = Untied
    /\ openings' = IF r = Untied THEN openings
                   ELSE [once |-> openings.once \cup {r},
                         twice |-> openings.twice \cup ({r} \cap openings.once)]
    /\ UNCHANGED <<server, counters, unheard, told, offered>>

orderShortfall ==
    /\ detail # NoDetail /\ releasing = Untied
    /\ \E i \in BuyItem : AskedFor[detail.request][i] > detail.store[i]
    /\ Fresh("purchases", detail.request)
AnswerOffer(yes) ==
    /\ offer # Untied
    /\ IF yes THEN Fresh("purchases", offer)
       ELSE /\ offer' = Untied
            /\ UNCHANGED <<server, detail, giving, releasing, onScreen, raiseDrawer, counters, history>>
GoTo(to) ==
    /\ onScreen # to /\ offer = Untied /\ releasing = Untied /\ detail = NoDetail
    /\ Fresh(to, Untied)

-----------------------------------------------------------------------------
(* Raising *)

OnlyRaise == UNCHANGED <<server, releaseDrawer, onScreen, counters, history>>

(* Mutant: the request of the last time stays. *)
openRaiseKeeping ==
    /\ onScreen = "purchases" /\ ~raising
    /\ raising' = TRUE /\ fromIssue' = fromIssue /\ meant' = Untied /\ tiedLate' = FALSE
    /\ UNCHANGED <<raiseStep, draft, reason, prefill, raises>> /\ OnlyRaise
(* openRaise, openSuggested: what is on the draft stays on it. *)
openRaise ==
    /\ onScreen = "purchases" /\ ~raising
    /\ raising' = TRUE /\ fromIssue' = Untied /\ meant' = Untied /\ tiedLate' = FALSE
    /\ UNCHANGED <<raiseStep, draft, reason, prefill, raises>> /\ OnlyRaise

(* The request has been read: what is outstanding and can be bought is put on
   the draft, after what is there already, and the order is tied to it.  It makes
   no difference whether the drawer is still open, or what for. *)
Prefilled ==
    LET r == prefill
        fill == {i \in Outstanding(r) \cap HasPack : draft[i] = Untied}
    IN
    /\ r # Untied /\ prefill' = Untied
    /\ IF Outstanding(r) = {} THEN UNCHANGED <<draft, fromIssue, reason, tiedLate>>
       ELSE /\ draft' = [i \in BuyItem |-> IF i \in fill THEN r ELSE draft[i]]
            /\ fromIssue' = r /\ reason' = TRUE /\ tiedLate' = (meant # r)
    /\ UNCHANGED <<raising, raiseStep, raises, meant>> /\ OnlyRaise
PrefillFails ==
    /\ prefill # Untied /\ prefill' = Untied
    /\ UNCHANGED <<raising, raiseStep, draft, fromIssue, reason, raises, meant, tiedLate>>
    /\ OnlyRaise

(* addById, addDraft, addSuggested, addAllSuggested, removeDraft. *)
EditDraft(i) ==
    /\ raising /\ raiseStep = 0
    /\ \/ draft[i] = Untied /\ i \in HasPack /\ draft' = [draft EXCEPT ![i] = Typed]
       \/ draft[i] # Untied /\ draft' = [draft EXCEPT ![i] = Untied]
    /\ UNCHANGED <<raising, raiseStep, fromIssue, reason, prefill, raises, meant, tiedLate>>
    /\ OnlyRaise
TypeReason ==
    /\ raising /\ raiseStep = 2 /\ reason' = ~reason
    /\ UNCHANGED <<raising, raiseStep, draft, fromIssue, prefill, raises, meant, tiedLate>>
    /\ OnlyRaise

raiseBlocked == draft = EmptyDraft \/ (raiseStep = 2 /\ ~reason)
raiseNext ==
    /\ raising /\ ~raiseBlocked /\ raiseStep < 2 /\ raiseStep' = raiseStep + 1
    /\ UNCHANGED <<raising, draft, fromIssue, reason, prefill, raises, meant, tiedLate>> /\ OnlyRaise
raiseBack ==
    /\ raising
    /\ IF raiseStep = 0 THEN raising' = FALSE /\ raiseStep' = 0
       ELSE raising' = TRUE /\ raiseStep' = raiseStep - 1
    /\ UNCHANGED <<draft, fromIssue, reason, prefill, raises, meant, tiedLate>> /\ OnlyRaise
(* The draft, and what it is tied to, outlive the drawer. *)
onRaiseVisible ==
    /\ raising /\ raising' = FALSE /\ raiseStep' = 0
    /\ UNCHANGED <<draft, fromIssue, reason, prefill, raises, meant, tiedLate>> /\ OnlyRaise

SendOrder ==
    /\ calls < MaxRaises /\ calls' = calls + 1
    /\ raises' = raises \cup {[no |-> calls + 1, issue |-> fromIssue, lines |-> draft,
                               meant |-> meant, late |-> tiedLate, form |-> TRUE]}
    /\ UNCHANGED <<server, releaseDrawer, onScreen, raising, raiseStep, draft, fromIssue, reason, prefill,
                   meant, tiedLate, moves, history>>
(* Mutant: the button can be pressed while it is sending. *)
submitRaiseAgain == raising /\ raiseStep = 2 /\ ~raiseBlocked /\ SendOrder
submitRaise ==
    /\ raising /\ raiseStep = 2 /\ ~raiseBlocked /\ ~\E o \in raises : o.form
    /\ SendOrder

(* POST /purchase-orders, which knows no keys.  The drawer closes, and there is
   nothing on it the next time; the step it opens on depends on whether the
   drawer component reports that it was closed. *)
RaiseAnswered(o) ==
    /\ o \in raises /\ raises' = raises \ {o}
    /\ bought' = bought \cup {o}
    /\ IF o.form
       THEN /\ raising' = FALSE /\ draft' = EmptyDraft /\ fromIssue' = Untied /\ reason' = FALSE
            /\ raiseStep' \in {0, raiseStep}
       ELSE UNCHANGED <<raising, draft, fromIssue, reason, raiseStep>>
    /\ UNCHANGED <<shelf, given, releaseDrawer, onScreen, prefill, meant, tiedLate, counters, history>>

(* It is refused, or its answer is lost: everything stays as it was. *)
RaiseFails(o, done) ==
    /\ o \in raises /\ raises' = raises \ {o}
    /\ bought' = IF done THEN bought \cup {o} ELSE bought
    /\ unheard' = IF done THEN unheard \cup {o.issue} ELSE unheard
    /\ UNCHANGED <<shelf, given, releaseDrawer, onScreen, raising, raiseStep, draft, fromIssue, reason,
                   prefill, meant, tiedLate, counters, openings, told, offered>>

ShortfallNext ==
    \/ \E r \in Short : startRelease(r)
    \/ \E i \in BuyItem, q \in 0..MaxGiven : setGiving(i, q)
    \/ doRelease
    \/ ReleaseAnswered
    \/ ReleaseFails
    \/ CloseRelease
    \/ \E i \in BuyItem, q \in 0..MaxHeld : ShelfMoves(i, q)
    \/ orderShortfall
    \/ \E yes \in BOOLEAN : AnswerOffer(yes)
    \/ \E to \in {"requests", "purchases"} : GoTo(to)
    \/ openRaise
    \/ Prefilled
    \/ PrefillFails
    \/ \E i \in BuyItem : EditDraft(i)
    \/ TypeReason
    \/ raiseNext
    \/ raiseBack
    \/ onRaiseVisible
    \/ submitRaise
    \/ \E o \in raises : RaiseAnswered(o)
    \/ \E o \in raises, done \in BOOLEAN : RaiseFails(o, done)

-----------------------------------------------------------------------------
(* Properties *)

(* An order names the request it was opened for, when it was filled in from it,
   and no other, unless what filled it in came after the drawer had been opened
   for something else, which the screen allows (openRaise: "must not quietly tie
   the next, unrelated order to that request"). *)
TiedToWhatItIsFor ==
    \A o \in bought :
        /\ o.issue # Untied => o.meant = o.issue \/ o.late
        /\ o.meant \in Short /\ (\E i \in BuyItem : o.lines[i] = o.meant) => o.issue = o.meant

(* What one request was short of is ordered once, unless somebody went to order
   it again or the answer to an order was lost; the server does not look whether
   the request has an order. *)
BoughtOnce ==
    \A o, p \in bought :
        o # p /\ o.issue = p.issue /\ o.issue # Untied
            => o.issue \in openings.twice \cup unheard

(* What a request is short of is bought for it, and once. *)
ShortfallBought == TiedToWhatItIsFor /\ BoughtOnce

(* The release drawer says "Release what is there first - you will be offered
   the rest to order straight after".  It is not: what is typed under Giving
   starts as no more than the store has, the server measures what is short
   against that, and so there is nothing short. *)
ShortIsOffered ==
    \A r \in told : Outstanding(r) # {} => r \in offered
=============================================================================
