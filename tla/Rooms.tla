-------------------------------- MODULE Rooms --------------------------------
(***************************************************************************)
(* What happens to a room apart from requests, counts and returns: its      *)
(* opening balance (api/src/services/opening.ts), wastage and transfers     *)
(* (wastage.ts), the reversal of any of them (ledger.ts), and an admin who  *)
(* closes, reopens or renames it (routes/setup.ts).  Within a branch both   *)
(* legs of a transfer are posted together; between branches the stock is in *)
(* a van, off both books, until somebody receives it.                       *)
(*                                                                          *)
(* Every handler is an Agent: it checks outside its transaction, or at the  *)
(* start of it under READ COMMITTED, and writes in one last step.  What the *)
(* writes do to item_cost_state, and the locks they wait for, is in Ledger; *)
(* a key sent twice is in Requests, so an opening here has a key of its own.*)
(* Nothing below depends on who calls: users and their roles are left out.  *)
(***************************************************************************)
EXTENDS Integers, Sequences, SequencesExt, FiniteSetsExt

CONSTANTS
    Section, Ware, Agent,
    LocationOf,  \* the branch of each section
    Store,       \* the sections with is_store, one per branch
    Qty,         \* quantities a form may carry
    OtherRows,   \* what documents of other kinds may post: [section, item, qty]
    MaxOthers,    \* bound: documents of other kinds
    MaxErrands     \* bound: handlers started

ASSUME RoomsAssumption ==
    /\ Section \subseteq DOMAIN LocationOf
    /\ Store \subseteq Section
    /\ IsFiniteSet(Ware)
    /\ Qty \subseteq Nat \ {0}
    /\ OtherRows \subseteq [section : Section, item : Ware, qty : Int \ {0}]
    /\ {MaxOthers, MaxErrands} \subseteq Nat

VARIABLES
    rows,       \* stock_ledger in the order of its commits; a document is named by
                \* the number of its first row, and reverses is 0 in an original
    transfers,  \* the table, with received_at as a boolean
    active,     \* sections.is_active
    others,      \* documents of other kinds so far
    errand, errands, \* what each agent is doing, and how many were started
    closedAt,   \* history: how many rows there were when a section was closed
    disturbed    \* history: what one handler checked while another changed it

roomsVars == <<rows, transfers, active, others, errand, errands, closedAt, disturbed>>

NoErrand == [pc |-> "idle"]
Doc == {"opening", "wastage", "transfer", "other"}

Row(doc, id, s, i, q) ==
    [doc |-> doc, id |-> id, section |-> s, item |-> i, qty |-> q, reverses |-> 0]

NextId == Len(rows) + 1
Of(id) == {n \in DOMAIN rows : rows[n].id = id}
Originals(id) == {n \in Of(id) : rows[n].reverses = 0}
IsReversed(n) == \E m \in DOMAIN rows : rows[m].reverses = n
In(s) == {n \in DOMAIN rows : rows[n].section = s}

QtyOf(numbers) == SumFunction([n \in numbers |-> rows[n].qty])

\* current_stock.
Held(s, i) == QtyOf({n \in In(s) : rows[n].item = i})

\* Mutant: only what is on the shelf counts as held, not what is missing from it.
HoldsMore(s) == \E i \in Ware : Held(s, i) > 0

\* sectionStockLines.
Holds(s) == \E i \in Ware : Held(s, i) # 0

\* Mutant: a section that has come back to nothing counts as fresh.
ForeignAndHeld(s) == Holds(s) /\ \E n \in In(s) : rows[n].doc # "opening"

\* The two looks of openingEligibility.
Foreign(s) == \E n \in In(s) : rows[n].doc # "opening"

AllUndone(s) == \A n \in In(s) : rows[n].reverses = 0 => IsReversed(n)

\* Mutant: the correcting row repeats the row it corrects.
MirrorAgain(n) == [rows[n] EXCEPT !.reverses = n]

\* The row that undoes row n.
Mirror(n) == [rows[n] EXCEPT !.qty = -@, !.reverses = n]

-----------------------------------------------------------------------------
\* What handlers check and change: the document, whether the section is switched
\* on, what it holds now, and what has ever happened in it.
Paper(id) == <<"document", id>>
Door(s) == <<"is_active", s>>
Shelf(s) == <<"stock", s>>
Past(s) == <<"history", s>>
Stock(places) == {Shelf(s) : s \in places} \cup {Past(s) : s \in places}

RoomsInit ==
    /\ rows = << >>
    /\ transfers = {}
    /\ active = [s \in Section |-> TRUE]
    /\ others = 0
    /\ errand = [w \in Agent |-> NoErrand]
    /\ errands = 0
    /\ closedAt = [s \in Section |-> 0]
    /\ disturbed = {}

SetOut(w, c) ==
    /\ errand[w] = NoErrand
    /\ errands < MaxErrands
    /\ errands' = errands + 1
    /\ errand' = [errand EXCEPT ![w] = c]
    /\ disturbed' = disturbed
         \cup UNION {(c.checks \cap errand[v].changes) \cup (c.changes \cap errand[v].checks)
                        : v \in {u \in Agent : errand[u] # NoErrand}}
    /\ UNCHANGED <<rows, transfers, active, others, closedAt>>

Conclude(w) ==
    /\ errand' = [errand EXCEPT ![w] = NoErrand]
    /\ UNCHANGED <<errands, disturbed>>

Writes(w, op) == errand[w].pc = "write" /\ errand[w].op = op

\* POST /wastage: the section must be switched on; whether it holds that much is
\* not asked.
StartWaste(w, s, i, q) ==
    /\ active[s]
    /\ SetOut(w, [pc |-> "write", op |-> "waste", section |-> s, item |-> i, qty |-> q,
                 checks |-> {Door(s)}, changes |-> Stock({s})])

WriteWaste(w) ==
    LET c == errand[w] IN
    /\ Writes(w, "waste")
    /\ rows' = Append(rows, Row("wastage", NextId, c.section, c.item, -c.qty))
    /\ Conclude(w)
    /\ UNCHANGED <<transfers, active, others, closedAt>>

\* POST /transfers.
StartTransfer(w, from, to, i, q) ==
    /\ from # to
    /\ active[from] /\ active[to]
    /\ SetOut(w, [pc |-> "write", op |-> "transfer", from |-> from, to |-> to, item |-> i,
                 qty |-> q, checks |-> {Door(from), Door(to)}, changes |-> Stock({from, to})])

WriteTransfer(w) ==
    LET c == errand[w]
        sameLocation == LocationOf[c.from] = LocationOf[c.to]
        leg == Row("transfer", NextId, c.from, c.item, -c.qty)
        arrival == Row("transfer", NextId, c.to, c.item, c.qty)
    IN
    /\ Writes(w, "transfer")
    /\ rows' = rows \o (IF sameLocation THEN <<leg, arrival>> ELSE <<leg>>)
    /\ transfers' = transfers \cup {[id |-> NextId, from |-> c.from, to |-> c.to,
                                     item |-> c.item, qty |-> c.qty, received |-> sameLocation]}
    /\ Conclude(w)
    /\ UNCHANGED <<active, others, closedAt>>

\* POST /transfers/:id/receive: that it is not received yet is looked at before the
\* transaction, and that its section is switched on or its leg stands not at all.
StartReceive(w, t) ==
    /\ t \in transfers
    /\ ~t.received
    /\ SetOut(w, [pc |-> "write", op |-> "receive", transfer |-> t,
                 checks |-> {Paper(t.id)}, changes |-> {Paper(t.id)} \cup Stock({t.to})])

\* Mutant: received_at is not set.
WriteReceiveUnmarked(w) ==
    LET t == errand[w].transfer IN
    /\ Writes(w, "receive")
    /\ rows' = Append(rows, Row("transfer", t.id, t.to, t.item, t.qty))
    /\ Conclude(w)
    /\ UNCHANGED <<transfers, active, others, closedAt>>

WriteReceive(w) ==
    LET t == errand[w].transfer IN
    /\ Writes(w, "receive")
    /\ rows' = Append(rows, Row("transfer", t.id, t.to, t.item, t.qty))
    /\ transfers' = {u \in transfers : u.id # t.id} \cup {[t EXCEPT !.received = TRUE]}
    /\ Conclude(w)
    /\ UNCHANGED <<active, others, closedAt>>

\* POST /opening-stock: openingEligibility asks for other documents first and for
\* the openings afterwards.
StartOpening(w, s, items, q) ==
    /\ active[s]
    /\ ~Foreign(s)
    /\ SetOut(w, [pc |-> "look", op |-> "opening", section |-> s, items |-> items, qty |-> q,
                 checks |-> {Door(s), Past(s)}, changes |-> Stock({s})])

LookOpening(w) ==
    LET s == errand[w].section IN
    /\ errand[w].pc = "look"
    /\ AllUndone(s)
    /\ errand' = [errand EXCEPT ![w].pc = "write"]
    /\ UNCHANGED <<rows, transfers, active, others, errands, closedAt, disturbed>>

\* One line for each item on the list.
WriteOpening(w) ==
    LET c == errand[w] IN
    /\ Writes(w, "opening")
    /\ rows' = rows \o [n \in 1 .. Cardinality(c.items) |->
                          Row("opening", NextId, c.section, SetToSeq(c.items)[n], c.qty)]
    /\ Conclude(w)
    /\ UNCHANGED <<transfers, active, others, closedAt>>

\* POST /documents/:doc/:id/reverse: the originals, and that none is undone yet, in
\* one look (Ledger takes the two selects apart).
StartReverse(w, id) ==
    /\ Originals(id) # {}
    /\ \A n \in Originals(id) : ~IsReversed(n)
    /\ SetOut(w, [pc |-> "write", op |-> "reverse", originals |-> Originals(id),
                 checks |-> {Paper(id)},
                 changes |-> {Paper(id)} \cup Stock({rows[n].section : n \in Originals(id)})])

WriteReverse(w) ==
    /\ Writes(w, "reverse")
    /\ rows' = rows \o [n \in 1 .. Cardinality(errand[w].originals) |->
                          Mirror(SetToSeq(errand[w].originals)[n])]
    /\ Conclude(w)
    /\ UNCHANGED <<transfers, active, others, closedAt>>

\* PATCH /setup/sections/:id.  A change of name writes back the is_active it read.
StartPatch(w, s, wanted) ==
    /\ wanted = "close" => s \notin Store /\ ~Holds(s)
    /\ SetOut(w, [pc |-> "write", op |-> "patch", section |-> s,
                 active |-> CASE wanted = "close" -> FALSE
                              [] wanted = "reopen" -> TRUE
                              [] wanted = "rename" -> active[s],
                 checks |-> {Door(s), Shelf(s)}, changes |-> {Door(s)}])

WritePatch(w) ==
    LET c == errand[w] IN
    /\ Writes(w, "patch")
    /\ active' = [active EXCEPT ![c.section] = c.active]
    /\ closedAt' = [closedAt EXCEPT ![c.section] =
                      IF active[c.section] /\ ~c.active THEN Len(rows) ELSE @]
    /\ Conclude(w)
    /\ UNCHANGED <<rows, transfers, others>>

\* A refusal, an error, or a client or process that is gone.
Abandon(w) ==
    /\ errand[w] # NoErrand
    /\ Conclude(w)
    /\ UNCHANGED <<rows, transfers, active, others, closedAt>>

\* A delivery, an issue or a count at a section that is switched on.
Moved(r) ==
    /\ others < MaxOthers
    /\ active[r.section]
    /\ rows' = Append(rows, Row("other", NextId, r.section, r.item, r.qty))
    /\ others' = others + 1
    /\ disturbed' = disturbed
         \cup UNION {(Stock({r.section}) \cap errand[w].checks) \cup ({Door(r.section)} \cap errand[w].changes)
                        : w \in {u \in Agent : errand[u] # NoErrand}}
    /\ UNCHANGED <<transfers, active, errand, errands, closedAt>>

RoomsNext ==
    \/ \E w \in Agent :
        \/ \E s \in Section, i \in Ware, q \in Qty :
            \/ StartWaste(w, s, i, q)
            \/ \E to \in Section : StartTransfer(w, s, to, i, q)
        \/ \E s \in Section, items \in SUBSET Ware \ {{}}, q \in Qty : StartOpening(w, s, items, q)
        \/ \E t \in transfers : StartReceive(w, t)
        \/ \E n \in DOMAIN rows : StartReverse(w, rows[n].id)
        \/ \E s \in Section, wanted \in {"close", "reopen", "rename"} : StartPatch(w, s, wanted)
        \/ WriteWaste(w) \/ WriteTransfer(w) \/ WriteReceive(w)
        \/ LookOpening(w) \/ WriteOpening(w)
        \/ WriteReverse(w) \/ WritePatch(w)
        \/ Abandon(w)
    \/ \E r \in OtherRows : Moved(r)

RoomsSpec == RoomsInit /\ [][RoomsNext]_roomsVars

-----------------------------------------------------------------------------
\* The leg that put a transfer down at its destination.
Arrivals(t) == {n \in Originals(t.id) : rows[n].section = t.to}

\* Reversed while it was in the van, and received all the same: the receipt does
\* not look whether the sending leg still stands.
RecalledThenReceived(t) ==
    \E a \in Arrivals(t), m \in Of(t.id) : rows[m].reverses # 0 /\ m < a

\* "Until then the stock is off both books" (wastage.ts): a transfer arrives when it
\* is received and at most once, and it neither makes nor loses stock -- all its rows
\* come to nothing once it has arrived or been reversed, and until then to what is in
\* the van.  Two handlers on one transfer can break it, and so can a reversal of a
\* transfer that is still in the van and is received afterwards.
WhatLeftArrives ==
    \A t \in transfers :
        Paper(t.id) \notin disturbed =>
            /\ Cardinality(Arrivals(t)) = IF t.received THEN 1 ELSE 0
            /\ \/ RecalledThenReceived(t)
               \/ QtyOf(Of(t.id)) =
                    IF t.received \/ \E n \in Originals(t.id) : IsReversed(n) THEN 0 ELSE -t.qty

\* FR-OPN-02, as opening.ts narrows it: when a section is given an opening balance,
\* nothing has happened in it but openings that were undone before, whole; so it never
\* has two that stand.
OpensWithoutPast ==
    \A n \in DOMAIN rows :
        LET s == rows[n].section IN
        rows[n].doc = "opening" /\ rows[n].reverses = 0 /\ Past(s) \notin disturbed =>
            \A m \in In(s) :
                \/ m > n
                \/ rows[m].id = rows[n].id
                \/ /\ rows[m].doc = "opening"
                   /\ rows[m].reverses # 0 \/ \E k \in In(s) : k < n /\ rows[k].reverses = m

\* "A retired section keeps its history but takes no new work" (auth.ts:209), and it
\* strands no stock (setup.ts:19): a section that is switched off held nothing of any
\* item when it was closed and has seen nothing since but a van that was under way and
\* the correction of older documents.
ClosedTakesNoNewWork ==
    \A s \in Section :
        ~active[s] /\ {Door(s), Shelf(s)} \cap disturbed = {} =>
            /\ s \notin Store
            /\ \A i \in Ware :
                QtyOf({n \in In(s) : n <= closedAt[s] /\ rows[n].item = i}) = 0
            /\ \A n \in In(s) :
                n > closedAt[s] => rows[n].reverses # 0 \/ rows[n].id <= closedAt[s]

\* A room begins once and ends empty.  Another document of the room between the look
\* and the writing of an opening, or a handler that overlaps with the change of
\* is_active, can break it.
BeginsFreshEndsEmpty == OpensWithoutPast /\ ClosedTakesNoNewWork
=============================================================================
