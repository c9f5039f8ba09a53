---------------------------- MODULE StockReports ----------------------------
(***************************************************************************)
(* The reports about the stock (services/reports.ts A, B, D, E and         *)
(* services/reports-ops.ts I to L) and the stock list (routes/stock.ts),   *)
(* read off one item's ledger, wastage table and counts, while the rooms   *)
(* deliver, issue, hand back, spoil, log, steal, count and reverse.        *)
(*                                                                         *)
(* A tick is half a calendar day.  The odd one is the working day; the     *)
(* even one is the night before day_start, whose postings carry the        *)
(* business date of the day before.  The item costs 1, so a quantity is    *)
(* its value.                                                              *)
(***************************************************************************)
EXTENDS Integers, Sequences, FiniteSetsExt, Functions

CONSTANTS MinValue, MinPct,   \* the two floors of the shrinkage report
          Reorder, Par,       \* the item's reorder point and par level
          Planned,            \* what the recipes say the kitchen needs, a day
          Opening,            \* deliveries the ledger may begin with
          MaxDocs, LastTick   \* bounds: documents posted, ticks

ASSUME StockReportsAssumption ==
    /\ MinValue \in Nat /\ MinPct \in Nat /\ Reorder \in Nat /\ Par \in Nat /\ Planned \in Nat
    /\ Opening \subseteq Nat /\ MaxDocs \in Nat /\ LastTick \in Nat \ {0}

VARIABLES now,       \* the tick
          ledger,    \* stock_ledger, in order
          wastes,    \* wastage
          counts,    \* stock_counts with their line
          shelf,     \* what is really in each room
          stolen,    \* of what is missing, taken since the room was counted
          fresh,     \* of what is missing, spoiled and not logged since then
          late,      \* spoiled, unlogged, and already written off by a count
          disturbed  \* rooms whose books a count or a late slip has bent

stockVars == <<now, ledger, wastes, counts, shelf, stolen, fresh, late, disturbed>>

Places == {"store", "kitchen", "quarantine"}
Rooms  == {"store", "kitchen"}
IsStore(s) == s = "store"
NotCounted == -1

Calendar(t)    == t \div 2
BusinessDay(t) == (t - 1) \div 2
Today == BusinessDay(now)
Days  == 0..Calendar(LastTick)

Total(I) == SumFunction([i \in I |-> ledger[i].qty])
Lines(s, doc, from, to) ==
    {i \in DOMAIN ledger : /\ ledger[i].section = s
                           /\ ledger[i].doc \in doc
                           /\ ledger[i].day \in from..to}
AnyDoc == {"grn", "issue", "return", "wastage", "count"}

(* current_stock: the ledger, summed every time. *)
Book(s) == Total({i \in DOMAIN ledger : ledger[i].section = s})
Moved(s) == \E i \in DOMAIN ledger : ledger[i].section = s

-----------------------------------------------------------------------------
(* The reports. *)

(* A, usage_variance: what the recipes planned against what the room drew,
   day by day. *)
Theoretical(s, d) == IF s = "kitchen" THEN Planned ELSE 0
(* Mutant: what a room handed back is forgotten. *)
DrawsFromIssues(s, from, to) ==
    IF s = "quarantine" THEN {} ELSE {i \in Lines(s, {"issue"}, from, to) : ledger[i].qty > 0}
Draws(s, from, to) ==
    IF s = "quarantine" THEN {}
    ELSE {i \in Lines(s, {"issue"}, from, to) : ledger[i].qty > 0}
         \cup {i \in Lines(s, {"return"}, from, to) : ledger[i].qty < 0}
UsageTrend(s, d) == [theoretical |-> Theoretical(s, d), actual |-> Total(Draws(s, d, d))]
UsageVariance(s, from, to) ==
    SumFunction([d \in from..to |-> UsageTrend(s, d).actual - UsageTrend(s, d).theoretical])

(* B, shrinkage: a room's count adjustments of a day that come out short, past
   both floors; with the flag that says a wastage slip carries that date. *)
(* Mutant: waste counts as loss. *)
AdjustedOrWasted(s, d) == Total(Lines(s, {"count", "wastage"}, d, d))
Adjusted(s, d) == Total(Lines(s, {"count"}, d, d))
Expected(s, d) ==
    LET E == {counts[c].expected : c \in {k \in DOMAIN counts :
                  /\ counts[k].section = s /\ counts[k].day = d
                  /\ \E i \in DOMAIN ledger : ledger[i].doc = "count" /\ ledger[i].id = counts[k].id}}
    IN  IF E = {} THEN 0 ELSE Max(E)
Material(s, d) ==
    LET gap == 0 - Adjusted(s, d)
    IN  /\ gap > 0
        /\ gap >= MinValue
        /\ \/ Expected(s, d) = 0
           \/ 100 * gap >= MinPct * Expected(s, d)
           \/ gap >= 20 * MinValue
HasWastageDoc(s, d) == \E w \in DOMAIN wastes : wastes[w].section = s /\ wastes[w].at = d
(* GET /reports/shrinkage with what its screen sends: the unexplained only. *)
Shrinkage(d) == {s \in Places : Material(s, d) /\ ~HasWastageDoc(s, d)}

(* D, wastageByReason and wastageTrend: the wastage table by calendar date. *)
Wastage(s, from, to) ==
    Cardinality({w \in DOMAIN wastes : wastes[w].section = s /\ wastes[w].at \in from..to})

(* E, stockOuts: days with a movement whose running balance ends at or under
   zero, of the store alone; belowReorder: the store's, moved or never. *)
(* Mutant: the balance of the day's own movements. *)
RunningBalanceOfDay(s, d) == Total(Lines(s, AnyDoc, d, d))
RunningBalance(s, d) == Total(Lines(s, AnyDoc, 0, d))
StockOuts(s, from, to) ==
    {d \in from..to : /\ IsStore(s)
                      /\ Lines(s, AnyDoc, d, d) # {}
                      /\ RunningBalance(s, d) <= 0}
BelowReorder == {s \in Places : IsStore(s) /\ Book(s) < Reorder}

(* What the order form suggests: at or under the reorder point, back up to par. *)
SuggestedOrder ==
    IF Reorder > 0 /\ Book("store") <= Reorder THEN Max({0, Par - Book("store")}) ELSE 0

(* I, stockValuation: balances up to the end date, zeroes dropped. *)
Valuation(to) ==
    LET Held(s) == Total(Lines(s, AnyDoc, 0, to))
    IN  {[section |-> s, qty |-> Held(s)] : s \in {r \in Places : Held(r) # 0}}

(* J, deadStock: held now, and no issue out of it in the range. *)
DeadStock(from, to) ==
    {s \in Places : /\ Book(s) > 0
                    /\ ~\E i \in Lines(s, {"issue"}, from, to) : ledger[i].qty < 0}

(* K, consumptionBySection: issued in less handed back, what is left of it. *)
Consumption(s, from, to) == Max({0, Total(Draws(s, from, to))})

(* L, countAccuracy: the counted lines that were off. *)
LinesOff(s, from, to) ==
    {c \in DOMAIN counts : /\ counts[c].section = s
                           /\ counts[c].day \in from..to
                           /\ counts[c].counted # NotCounted
                           /\ counts[c].counted # counts[c].expected}

(* GET /stock: a row for every room with a movement; its flag and the filter
   compare the same figure with the reorder point. *)
StockList(lowOnly) ==
    {s \in Places : Moved(s) /\ (lowOnly => Book(s) < Reorder)}

(* What release reads before it hands over: a room with no row has nothing. *)
OnHand(s) == IF Moved(s) THEN Book(s) ELSE 0

-----------------------------------------------------------------------------
(* What the rooms do. *)

Docs == {ledger[i].id : i \in DOMAIN ledger}
NewDoc == 1 + Cardinality(Docs \cup {counts[c].id : c \in DOMAIN counts})

(* postDocument: one line per leg, under today's business date unless the
   document brings its own. *)
Leg(day, s, qty, doc, id) ==
    [day |-> day, section |-> s, qty |-> qty, doc |-> doc, id |-> id, reversal |-> FALSE]
OpenCounts(s) == {c \in DOMAIN counts : counts[c].section = s /\ ~counts[c].closed}
PostDocument(lines) ==
    /\ ledger' = ledger \o lines
    /\ disturbed' = disturbed \cup
           {s \in Places : OpenCounts(s) # {} /\ \E i \in DOMAIN lines : lines[i].section = s}
HasRoom == NewDoc <= MaxDocs

Deliver ==
    /\ HasRoom
    /\ PostDocument(<<Leg(Today, "store", 1, "grn", NewDoc)>>)
    /\ shelf' = [shelf EXCEPT !["store"] = @ + 1]
    /\ UNCHANGED <<now, wastes, counts, stolen, fresh, late>>

Issue ==
    /\ HasRoom
    /\ Book("store") >= 1 /\ shelf["store"] >= 1
    /\ PostDocument(<<Leg(Today, "store", -1, "issue", NewDoc),
                      Leg(Today, "kitchen", 1, "issue", NewDoc)>>)
    /\ shelf' = [shelf EXCEPT !["store"] = @ - 1, !["kitchen"] = @ + 1]
    /\ UNCHANGED <<now, wastes, counts, stolen, fresh, late>>

ReturnToStore ==
    /\ HasRoom
    /\ Book("kitchen") >= 1 /\ shelf["kitchen"] >= 1
    /\ PostDocument(<<Leg(Today, "kitchen", -1, "return", NewDoc),
                      Leg(Today, "quarantine", 1, "return", NewDoc)>>)
    /\ shelf' = [shelf EXCEPT !["kitchen"] = @ - 1, !["quarantine"] = @ + 1]
    /\ UNCHANGED <<now, wastes, counts, stolen, fresh, late>>

(* Something spoils and is thrown out; the slip comes later, if it comes. *)
Spoil(s) ==
    /\ shelf[s] >= 1 /\ fresh[s] + late[s] = 0
    /\ shelf' = [shelf EXCEPT ![s] = @ - 1]
    /\ fresh' = [fresh EXCEPT ![s] = @ + 1]
    /\ UNCHANGED <<now, ledger, wastes, counts, stolen, late, disturbed>>

LogWastage(s) ==
    /\ HasRoom
    /\ fresh[s] + late[s] > 0
    /\ wastes' = Append(wastes, [section |-> s, at |-> Calendar(now), id |-> NewDoc])
    /\ ledger' = Append(ledger, Leg(Today, s, -1, "wastage", NewDoc))
    /\ IF fresh[s] > 0 THEN /\ fresh' = [fresh EXCEPT ![s] = @ - 1]
                            /\ UNCHANGED late
                       ELSE /\ late' = [late EXCEPT ![s] = @ - 1]
                            /\ UNCHANGED fresh
    /\ disturbed' = IF fresh[s] = 0 \/ OpenCounts(s) # {} THEN disturbed \cup {s} ELSE disturbed
    /\ UNCHANGED <<now, counts, shelf, stolen>>

Steal(s) ==
    /\ shelf[s] >= 1 /\ \A r \in Rooms : stolen[r] = 0
    /\ shelf' = [shelf EXCEPT ![s] = @ - 1]
    /\ stolen' = [stolen EXCEPT ![s] = @ + 1]
    /\ UNCHANGED <<now, ledger, wastes, counts, fresh, late, disturbed>>

(* startCount freezes what the book says; a figure is entered from the shelf;
   closeCount posts the difference of the two under the count's own date. *)
StartCount(s) ==
    /\ HasRoom /\ \A c \in DOMAIN counts : counts[c].closed
    /\ Moved(s)
    /\ counts' = Append(counts,
           [id |-> NewDoc, section |-> s, day |-> Today, expected |-> Book(s),
            counted |-> NotCounted, stolen |-> 0, fresh |-> 0, closed |-> FALSE])
    /\ UNCHANGED <<now, ledger, wastes, shelf, stolen, fresh, late, disturbed>>

EnterCount(c) ==
    /\ ~counts[c].closed /\ counts[c].counted = NotCounted
    /\ counts' = [counts EXCEPT ![c].counted = shelf[counts[c].section],
                                ![c].stolen  = stolen[counts[c].section],
                                ![c].fresh   = fresh[counts[c].section]]
    /\ UNCHANGED <<now, ledger, wastes, shelf, stolen, fresh, late, disturbed>>

CloseCount(c) ==
    LET count == counts[c]
        s     == count.section
        gap   == count.counted - count.expected
    IN  /\ ~count.closed /\ count.counted # NotCounted
        /\ counts' = [counts EXCEPT ![c].closed = TRUE]
        /\ ledger' = IF gap = 0 THEN ledger
                     ELSE Append(ledger, Leg(count.day, s, gap, "count", count.id))
        /\ stolen' = [stolen EXCEPT ![s] = @ - count.stolen]
        /\ LET logged == Max({0, count.fresh - fresh[s]})
           IN  /\ fresh' = [fresh EXCEPT ![s] = Max({0, @ - count.fresh})]
               /\ late'  = [late EXCEPT ![s] = @ + count.fresh - logged]
        /\ UNCHANGED <<now, wastes, shelf, disturbed>>

(* reverseDocument: every line mirrored, under the document's own name and its
   own business date; a return has no reversal.  The goods of a delivery or an
   issue go back where they came from; wasted goods are still gone. *)
Reverse(id) ==
    LET mine   == {i \in DOMAIN ledger : ledger[i].id = id}
        doc    == ledger[CHOOSE i \in mine : TRUE].doc
        Mirror(i) == [ledger[i] EXCEPT !.qty = 0 - @, !.reversal = TRUE]
        first  == Min(mine)
        lines  == IF Cardinality(mine) = 2 THEN <<Mirror(first), Mirror(first + 1)>>
                                           ELSE <<Mirror(first)>>
        Back(s) == SumFunction([i \in mine |-> IF ledger[i].section = s THEN ledger[i].qty ELSE 0])
    IN  /\ \A i \in mine : ~ledger[i].reversal
        /\ doc # "return"
        /\ \A s \in Places : doc \in {"grn", "issue"} => shelf[s] - Back(s) >= 0
        /\ ledger' = ledger \o lines
        /\ shelf' = IF doc \in {"grn", "issue"}
                    THEN [s \in Places |-> shelf[s] - Back(s)] ELSE shelf
        /\ disturbed' = disturbed
               \cup {s \in Places : Back(s) # 0 /\ (doc = "count" \/ OpenCounts(s) # {})}
        /\ fresh' = IF doc = "wastage" THEN [s \in Rooms |-> fresh[s] - Back(s)] ELSE fresh
        /\ UNCHANGED <<now, wastes, counts, stolen, late>>

Tick == /\ now < LastTick /\ now' = now + 1
        /\ UNCHANGED <<ledger, wastes, counts, shelf, stolen, fresh, late, disturbed>>

StockInit ==
    /\ now = 1
    /\ \E q \in Opening :
          /\ ledger = IF q = 0 THEN <<>> ELSE <<Leg(0, "store", q, "grn", 1)>>
          /\ shelf = [s \in Places |-> IF s = "store" THEN q ELSE 0]
    /\ wastes = <<>> /\ counts = <<>>
    /\ stolen = [s \in Rooms |-> 0] /\ fresh = stolen /\ late = stolen
    /\ disturbed = {}

StockNext ==
    \/ Deliver \/ Issue \/ ReturnToStore \/ Tick
    \/ \E s \in Rooms : Spoil(s) \/ LogWastage(s) \/ Steal(s) \/ StartCount(s)
    \/ \E c \in DOMAIN counts : EnterCount(c) \/ CloseCount(c)
    \/ \E id \in Docs : Reverse(id)

-----------------------------------------------------------------------------
(* Properties. *)

Standing(s, d) ==
    {c \in DOMAIN counts : /\ counts[c].section = s /\ counts[c].day = d /\ counts[c].closed
                           /\ ~\E i \in DOMAIN ledger : ledger[i].reversal /\ ledger[i].id = counts[c].id}
Found(s, d)   == SumFunction([c \in Standing(s, d) |-> counts[c].stolen])
Written(s, d) == SumFunction([c \in Standing(s, d) |-> counts[c].fresh])

(* The shrinkage report accuses nobody wrongly and misses no theft: a room it
   lists for a day is one where a count of that day found stock stolen, or
   spoiled and not yet logged; and a theft a count found, past the floors, is
   listed.  Outside it stay the rooms whose books a posting during a count or a
   slip logged after the count has bent, and the thefts of a day on which a
   slip for the same room hides the row. *)
LossesAreTold ==
    \A s \in Rooms \ disturbed, d \in Days :
        /\ s \in Shrinkage(d) => Found(s, d) + Written(s, d) > 0
        /\ /\ Found(s, d) > 0 /\ Found(s, d) >= MinValue
           /\ \A c \in Standing(s, d) : 100 * Found(s, d) >= MinPct * counts[c].expected
           => \/ s \in Shrinkage(d)
              \/ \E w \in DOMAIN wastes : wastes[w].section = s /\ wastes[w].at = d

Of(doc, reversal) == {i \in DOMAIN ledger : ledger[i].doc = doc /\ ledger[i].reversal = reversal}
In(s, I) == {i \in I : ledger[i].section = s}

(* The books of the rooms add up over the reports: a room's balance is what it
   consumed less what it threw away and what its counts took off, its usage
   summed by day is its consumption, and the wastage report is the ledger's
   waste: all of it exactly as far as no issue and no slip was reversed, since
   a reversed issue stays consumed and a reversed slip stays wasted. *)
BooksAgree ==
    LET last == Calendar(LastTick)
    IN  /\ Total(Draws("kitchen", 0, last)) >= 0
           => Consumption("kitchen", 0, last)
                = Book("kitchen") - Total(Lines("kitchen", {"wastage", "count"}, 0, last))
                  - Total(In("kitchen", Of("issue", TRUE)))
        /\ \A d \in Days :
              UsageVariance("kitchen", 0, d) + (d + 1) * Planned = Total(Draws("kitchen", 0, d))
        /\ \A s \in Rooms :
              Wastage(s, 0, last) = 0 - Total(In(s, Of("wastage", FALSE)))

(* Two screens that show one fact agree on it: today's valuation is the stock
   list, what is low in the report is low in the list unless it never moved and,
   if it has a reorder point, is suggested for order, the day the store last
   moved is a stock-out exactly when it is out now, a store called dead sent
   nothing out in the range, and a room that lost stock has a count that was off. *)
ListsAgree ==
    /\ Valuation(Calendar(now)) =
           {[section |-> s, qty |-> OnHand(s)] : s \in {r \in StockList(FALSE) : OnHand(r) # 0}}
    /\ \A s \in BelowReorder : s \in StockList(TRUE) \/ ~Moved(s)
    /\ BelowReorder # {} /\ Reorder > 0 /\ Par >= Reorder => SuggestedOrder > 0
    /\ Moved("store") =>
          LET last == Max({ledger[i].day : i \in {j \in DOMAIN ledger : ledger[j].section = "store"}})
          IN  (Book("store") <= 0) = (last \in StockOuts("store", 0, last))
    /\ \A from, to \in Days :
          "store" \in DeadStock(from, to) =>
              ~\E i \in Lines("kitchen", {"issue"}, from, to) : ~ledger[i].reversal
    /\ \A d \in Days : \A s \in Shrinkage(d) : LinesOff(s, d, d) # {}

(* What the stock reports say of one fact they say alike, in books and in lists. *)
StockReportsAgree == BooksAgree /\ ListsAgree

(* consumptionBySection says it is what each section drew from the store, the
   positive half of every issue: so the store itself draws nothing. *)
StoreDrawsNothing == \A d \in Days : Consumption("store", 0, d) = 0
=============================================================================
