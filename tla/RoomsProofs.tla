----------------------------- MODULE RoomsProofs -----------------------------
(***************************************************************************)
(* Proofs about the two things that happen to a section's stock on the      *)
(* spot.  Rooms, for any branches, sections, wares and agents; then Counts, *)
(* for any counts, items, people and handlers: what a handler found before  *)
(* its transaction is still true in it as far as the two promises below     *)
(* need, although it never looks again.                                     *)
(***************************************************************************)
EXTENDS Rooms, Counts, SumsProofs, SequenceTheorems


(* The shapes of the tables and of the errands under way. *)

RowType == [doc : Doc, id : Nat \ {0}, section : Section, item : Ware, qty : Int, reverses : Nat]
TransferType == [id : Nat \ {0}, from : Section, to : Section, item : Ware, qty : Nat \ {0},
                 received : BOOLEAN]

Wasting(c) ==
    \E s \in Section, i \in Ware, q \in Qty :
        c = [pc |-> "write", op |-> "waste", section |-> s, item |-> i, qty |-> q,
             checks |-> {Door(s)}, changes |-> Stock({s})]
Transferring(c) ==
    \E from, to \in Section, i \in Ware, q \in Qty :
        /\ from # to
        /\ c = [pc |-> "write", op |-> "transfer", from |-> from, to |-> to, item |-> i, qty |-> q,
                checks |-> {Door(from), Door(to)}, changes |-> Stock({from, to})]
Receiving(c) ==
    \E t \in TransferType :
        /\ ~t.received
        /\ \E b \in BOOLEAN : [t EXCEPT !.received = b] \in transfers
        /\ c = [pc |-> "write", op |-> "receive", transfer |-> t,
                checks |-> {Paper(t.id)}, changes |-> {Paper(t.id)} \cup Stock({t.to})]
Opening(c) ==
    \E pc \in {"look", "write"}, s \in Section, items \in SUBSET Ware, q \in Qty :
        c = [pc |-> pc, op |-> "opening", section |-> s, items |-> items, qty |-> q,
             checks |-> {Door(s), Past(s)}, changes |-> Stock({s})]
Reversing(c) ==
    \E id \in DOMAIN rows, S \in SUBSET DOMAIN rows :
        /\ S \subseteq Originals(id)
        /\ c = [pc |-> "write", op |-> "reverse", originals |-> S, checks |-> {Paper(id)},
                changes |-> {Paper(id)} \cup Stock({rows[n].section : n \in S})]
Patching(c) ==
    \E s \in Section, on \in BOOLEAN :
        c = [pc |-> "write", op |-> "patch", section |-> s, active |-> on,
             checks |-> {Door(s), Shelf(s)}, changes |-> {Door(s)}]

Shape(c) ==
    \/ Wasting(c) \/ Transferring(c) \/ Receiving(c)
    \/ Opening(c) \/ Reversing(c) \/ Patching(c)

Out(w) == errand[w] # NoErrand

\* A document is named by one of the rows before, and what undoes a row is of its
\* document and its section.
RowsOK ==
    /\ rows \in Seq(RowType)
    /\ \A n \in DOMAIN rows :
        /\ rows[n].id <= n
        /\ rows[n].reverses # 0 =>
              /\ rows[n].reverses \in DOMAIN rows
              /\ rows[rows[n].reverses].id = rows[n].id
              /\ rows[rows[n].reverses].section = rows[n].section

TransfersOK ==
    /\ transfers \subseteq TransferType
    /\ \A t \in transfers : t.from # t.to /\ t.id \in DOMAIN rows
    /\ \A t, u \in transfers : t.id = u.id => t = u

ErrandsOK ==
    /\ DOMAIN errand = Agent
    /\ \A w \in Agent : Out(w) => Shape(errand[w])

\* What one agent checks while another changes it is disturbed.
Undisturbed ==
    \A v, w \in Agent : Out(v) /\ Out(w) /\ v # w =>
        errand[v].checks \cap errand[w].changes \subseteq disturbed

RoomTypes ==
    /\ RowsOK /\ TransfersOK /\ ErrandsOK /\ Undisturbed
    /\ active \in [Section -> BOOLEAN]
    /\ closedAt \in [Section -> Nat]
    /\ \A s \in Section : closedAt[s] <= Len(rows)

-----------------------------------------------------------------------------
(* What an errand found is still so, unless it was disturbed. *)

OpeningKnows(c) ==
    c.op = "opening" /\ Past(c.section) \notin disturbed =>
        ~Foreign(c.section) /\ (c.pc = "write" => AllUndone(c.section))

DoorsKnown(c) ==
    /\ c.op \in {"waste", "opening"} /\ Door(c.section) \notin disturbed => active[c.section]
    /\ c.op = "transfer" =>
         /\ Door(c.from) \notin disturbed => active[c.from]
         /\ Door(c.to) \notin disturbed => active[c.to]

PatchKnows(c) ==
    c.op = "patch" /\ ~c.active /\ {Door(c.section), Shelf(c.section)} \cap disturbed = {} =>
        c.section \notin Store /\ (~active[c.section] \/ ~Holds(c.section))

PaperKnown(c) ==
    /\ c.op = "receive" /\ Paper(c.transfer.id) \notin disturbed => c.transfer \in transfers
    /\ c.op = "reverse" =>
         \A id \in Nat : Paper(id) \in c.checks \ disturbed =>
             /\ c.originals = Originals(id)
             /\ \A n \in c.originals : ~IsReversed(n)

\* A van that is under way to a section that was closed left before.
VansLeftBefore ==
    \A t \in transfers :
        ~active[t.to] /\ Door(t.to) \notin disturbed => t.id <= closedAt[t.to]

\* The rows of a transfer: the leg it left by and, received, the one it came by, and
\* both undone; or undone on its way, and possibly received all the same.
Leg(t) == Row("transfer", t.id, t.from, t.item, -t.qty)
Arrival(t) == Row("transfer", t.id, t.to, t.item, t.qty)
Undoes(m, n) == rows[m] = Mirror(n)

OnItsWay(t) ==
    \/ Of(t.id) = {t.id}
    \/ \E m \in DOMAIN rows : m # t.id /\ Of(t.id) = {t.id, m} /\ Undoes(m, t.id)

Arrived(t) ==
    \E a \in DOMAIN rows :
        /\ a # t.id /\ rows[a] = Arrival(t)
        /\ \/ Of(t.id) = {t.id, a}
           \/ \E m, k \in DOMAIN rows :
                /\ m \notin {t.id, a} /\ k \notin {t.id, a, m}
                /\ Of(t.id) = {t.id, a, m, k} /\ Undoes(m, t.id) /\ Undoes(k, a)
           \/ \E m \in DOMAIN rows :
                /\ m # t.id /\ m < a
                /\ Of(t.id) = {t.id, a, m} /\ Undoes(m, t.id)

Journey(t) ==
    /\ rows[t.id] = Leg(t)
    /\ ~t.received => OnItsWay(t)
    /\ t.received => Arrived(t)

Journeys == \A t \in transfers : Paper(t.id) \notin disturbed => Journey(t)

Knows(c) == OpeningKnows(c) /\ DoorsKnown(c) /\ PatchKnows(c) /\ PaperKnown(c)

ErrandsKnow == \A w \in Agent : Out(w) => Knows(errand[w])

RoomsInvariant ==
    /\ RoomTypes /\ ErrandsKnow
    /\ Journeys /\ OpensWithoutPast /\ ClosedTakesNoNewWork /\ VansLeftBefore

-----------------------------------------------------------------------------
(* Rows are only ever added. *)

LEMMA InAnyOrder ==
    ASSUME NEW S, IsFiniteSet(S)
    PROVE  /\ Cardinality(S) \in Nat
           /\ SetToSeq(S) \in [1 .. Cardinality(S) -> S]
           /\ \A x \in S : \E k \in 1 .. Cardinality(S) : SetToSeq(S)[k] = x
           /\ \A j, k \in 1 .. Cardinality(S) : SetToSeq(S)[j] = SetToSeq(S)[k] => j = k
<1> DEFINE N == Cardinality(S)
           q == SetToSeq(S)
<1>1. N \in Nat /\ ExistsBijection(1 .. N, S)
  BY FS_CardinalityType
<1>2. PICK f \in [1 .. N -> S] : IsInjective(f)
  BY <1>1 DEF ExistsBijection, Bijection, Injection, IsInjective
<1>3. q \in [1 .. N -> S] /\ IsInjective(q)
  BY <1>2 DEF SetToSeq
<1>4. IsFiniteSet(1 .. N) /\ Cardinality(1 .. N) = N
  BY <1>1, FS_Interval
<1>5. q \in Injection(1 .. N, S)
  BY <1>3 DEF IsInjective, Injection
<1> HIDE DEF q
<1>6. q \in Surjection(1 .. N, S)
  BY <1>1, <1>4, <1>5, FS_Injection
<1>7. /\ \A x \in S : \E k \in 1 .. N : q[k] = x
      /\ \A j, k \in 1 .. N : q[j] = q[k] => j = k
  <2> HIDE DEF N
  <2> QED BY <1>3, <1>6 DEF IsInjective, Surjection
<1> QED BY <1>1, <1>3, <1>7 DEF q

Grown(N) ==
    /\ RowsOK' /\ N \in Nat /\ Len(rows) \in Nat
    /\ DOMAIN rows = 1 .. Len(rows) /\ DOMAIN rows' = 1 .. (Len(rows) + N)
    /\ Len(rows') = Len(rows) + N
    /\ \A n \in DOMAIN rows : rows'[n] = rows[n]

LEMMA RowsGrow ==
    ASSUME RowsOK, NEW N \in Nat, NEW new \in [1 .. N -> RowType], rows' = rows \o new,
           \A k \in 1 .. N :
               /\ new[k].id <= Len(rows) + 1
               /\ new[k].reverses # 0 =>
                     /\ new[k].reverses \in DOMAIN rows
                     /\ rows[new[k].reverses].id = new[k].id
                     /\ rows[new[k].reverses].section = new[k].section
    PROVE  Grown(N) /\ \A k \in 1 .. N : rows'[Len(rows) + k] = new[k]
<1>1. rows \in Seq(RowType) /\ Len(rows) \in Nat /\ DOMAIN rows = 1 .. Len(rows)
  BY DEF RowsOK
<1>2. new \in Seq(RowType) /\ Len(new) = N
  OBVIOUS
<1>3. /\ rows' \in Seq(RowType) /\ Len(rows') = Len(rows) + N
      /\ DOMAIN rows' = 1 .. (Len(rows) + N)
      /\ \A n \in 1 .. (Len(rows) + N) :
            rows'[n] = IF n <= Len(rows) THEN rows[n] ELSE new[n - Len(rows)]
  <2>1. /\ rows \o new \in Seq(RowType) /\ Len(rows \o new) = Len(rows) + Len(new)
        /\ \A n \in 1 .. Len(rows) + Len(new) :
              (rows \o new)[n] = IF n <= Len(rows) THEN rows[n] ELSE new[n - Len(rows)]
    BY <1>1, <1>2, ConcatProperties
  <2>2. DOMAIN rows' = 1 .. Len(rows')
    BY <2>1, LenProperties
  <2> QED BY <1>2, <2>1, <2>2
<1>4. \A n \in DOMAIN rows : rows'[n] = rows[n]
  BY <1>1, <1>3
<1>5. \A k \in 1 .. N : rows'[Len(rows) + k] = new[k]
  BY <1>1, <1>3
<1>6. ASSUME NEW n \in DOMAIN rows'
      PROVE  /\ rows'[n].id <= n
             /\ rows'[n].reverses # 0 =>
                   /\ rows'[n].reverses \in DOMAIN rows'
                   /\ rows'[rows'[n].reverses].id = rows'[n].id
                   /\ rows'[rows'[n].reverses].section = rows'[n].section
  <2>1. CASE n \in DOMAIN rows
    BY <1>1, <1>3, <1>4, <2>1 DEF RowsOK
  <2>2. CASE n \notin DOMAIN rows
    <3>1. PICK k \in 1 .. N : n = Len(rows) + k
      <4>1. n \in Nat /\ n > Len(rows) /\ n <= Len(rows) + N
        BY <1>1, <1>3, <2>2
      <4>2. n - Len(rows) \in 1 .. N /\ n = Len(rows) + (n - Len(rows))
        BY <1>1, <4>1
      <4> QED BY <4>2
    <3>2. rows'[n] = new[k] /\ new[k] \in RowType
      BY <1>5, <3>1
    <3>3. new[k].id \in Nat
      BY <3>2 DEF RowType
    <3> QED BY <1>1, <1>3, <1>4, <3>1, <3>2, <3>3
  <2> QED BY <2>1, <2>2
<1> QED BY <1>1, <1>3, <1>4, <1>5, <1>6 DEF Grown, RowsOK

\* What is added is what was put at the end.
LEMMA AddedAre ==
    ASSUME NEW N, Grown(N)
    PROVE  \A n \in DOMAIN rows' \ DOMAIN rows : \E k \in 1 .. N : n = Len(rows) + k
<1> SUFFICES ASSUME NEW n \in DOMAIN rows' \ DOMAIN rows
             PROVE  \E k \in 1 .. N : n = Len(rows) + k
  OBVIOUS
<1>1. n \in Nat /\ n > Len(rows) /\ n <= Len(rows) + N /\ N \in Nat /\ Len(rows) \in Nat
  BY DEF Grown
<1>2. n - Len(rows) \in 1 .. N /\ n = Len(rows) + (n - Len(rows))
  BY <1>1
<1> QED BY <1>2

LEMMA RowAppended ==
    ASSUME RowsOK, NEW r \in RowType, rows' = Append(rows, r), r.id <= Len(rows) + 1, r.reverses = 0
    PROVE  Grown(1) /\ rows'[Len(rows) + 1] = r
<1>1. <<r>> \in [1 .. 1 -> RowType] /\ <<r>>[1] = r
  OBVIOUS
<1>2. rows' = rows \o <<r>>
  BY DEF RowsOK
<1>3. PICK new \in [1 .. 1 -> RowType] : new = <<r>> /\ new[1] = r
  BY <1>1
<1>4. Grown(1) /\ \A k \in 1 .. 1 : rows'[Len(rows) + k] = new[k]
  <2>1. \A k \in 1 .. 1 : new[k] = r
    BY <1>3
  <2>2. \A k \in 1 .. 1 :
           /\ new[k].id <= Len(rows) + 1
           /\ new[k].reverses # 0 =>
                 /\ new[k].reverses \in DOMAIN rows
                 /\ rows[new[k].reverses].id = new[k].id
                 /\ rows[new[k].reverses].section = new[k].section
    BY <2>1
  <2>3. rows' = rows \o new /\ 1 \in Nat
    BY <1>2, <1>3
  <2> QED BY <2>2, <2>3, RowsGrow
<1> QED BY <1>3, <1>4

\* Nothing added: the same rows.
LEMMA RowsStay ==
    ASSUME RowsOK, rows' = rows
    PROVE  Grown(0)
BY DEF RowsOK, Grown

Added == DOMAIN rows' \ DOMAIN rows

\* A section to which nothing was added is as it was, its corrections included.
LEMMA Elsewhere ==
    ASSUME RowsOK, NEW N, Grown(N), NEW s, \A n \in Added : rows'[n].section # s
    PROVE  /\ In(s)' = In(s)
           /\ Foreign(s)' <=> Foreign(s)
           /\ AllUndone(s)' <=> AllUndone(s)
           /\ Holds(s)' <=> Holds(s)
<1>1. /\ \A n \in DOMAIN rows : n \in DOMAIN rows' /\ rows'[n] = rows[n]
      /\ \A n \in DOMAIN rows' : n \in DOMAIN rows \/ n \in Added
  BY DEF Grown, Added
<1>2. In(s)' = In(s) /\ In(s) \subseteq DOMAIN rows
  BY <1>1 DEF In
<1>3. Foreign(s)' <=> Foreign(s)
  BY <1>1, <1>2 DEF Foreign
<1>4. ASSUME NEW n \in In(s), n # 0 PROVE IsReversed(n)' <=> IsReversed(n)
  <2>1. IsReversed(n) => IsReversed(n)'
    BY <1>1 DEF IsReversed
  <2>2. ASSUME NEW m \in DOMAIN rows', rows'[m].reverses = n PROVE m \in DOMAIN rows
    <3>1. rows'[m].section = rows'[n].section
      BY <1>4, <2>2 DEF Grown, RowsOK
    <3>2. rows'[n].section = s
      BY <1>1, <1>2 DEF In
    <3> QED BY <1>1, <3>1, <3>2
  <2>3. IsReversed(n)' => IsReversed(n)
    BY <1>1, <2>2 DEF IsReversed
  <2> QED BY <2>1, <2>3
<1>5. AllUndone(s)' <=> AllUndone(s)
  <2>1. \A n \in In(s) : n # 0 /\ rows'[n].reverses = rows[n].reverses
    BY <1>1, <1>2 DEF Grown
  <2> QED BY <1>2, <1>4, <2>1 DEF AllUndone
<1>6. ASSUME NEW i PROVE Held(s, i)' = Held(s, i)
  <2>1. {n \in In(s) : rows[n].item = i}' = {n \in In(s) : rows[n].item = i}
    BY <1>1, <1>2
  <2>2. [n \in {m \in In(s) : rows[m].item = i} |-> rows[n].qty]'
          = [n \in {m \in In(s) : rows[m].item = i} |-> rows[n].qty]
    BY <1>1, <1>2, <2>1
  <2> QED BY <2>2 DEF Held, QtyOf
<1>7. Holds(s)' <=> Holds(s)
  BY <1>6 DEF Holds
<1> QED BY <1>2, <1>3, <1>5, <1>7

\* A document to which nothing was added is as it was.
LEMMA OtherPaper ==
    ASSUME RowsOK, NEW N, Grown(N), NEW x, \A n \in Added : rows'[n].id # x
    PROVE  /\ Of(x)' = Of(x) /\ Originals(x)' = Originals(x)
           /\ \A n \in Of(x) : IsReversed(n)' <=> IsReversed(n)
<1>1. /\ \A n \in DOMAIN rows : n \in DOMAIN rows' /\ rows'[n] = rows[n] /\ n # 0
      /\ \A n \in DOMAIN rows' : n \in DOMAIN rows \/ n \in Added
  BY DEF Grown, Added
<1>2. Of(x)' = Of(x) /\ Of(x) \subseteq DOMAIN rows
  BY <1>1 DEF Of
<1>3. Originals(x)' = Originals(x)
  BY <1>1, <1>2 DEF Originals
<1>4. ASSUME NEW n \in Of(x) PROVE IsReversed(n)' <=> IsReversed(n)
  <2>1. IsReversed(n) => IsReversed(n)'
    BY <1>1 DEF IsReversed
  <2>2. ASSUME NEW m \in DOMAIN rows', rows'[m].reverses = n PROVE m \in DOMAIN rows
    <3>1. rows'[m].id = rows'[n].id
      BY <1>1, <1>2, <2>2 DEF Grown, RowsOK
    <3>2. rows'[n].id = x
      BY <1>1, <1>2 DEF Of
    <3> QED BY <1>1, <3>1, <3>2
  <2>3. IsReversed(n)' => IsReversed(n)
    BY <1>1, <2>2 DEF IsReversed
  <2> QED BY <2>1, <2>3
<1> QED BY <1>2, <1>3, <1>4

\* A step leaves alone what an errand has checked, or says that it was disturbed.
Spares(c) ==
    /\ disturbed \subseteq disturbed'
    /\ \A n \in Added :
        /\ {Past(rows'[n].section), Shelf(rows'[n].section)} \cap c.checks \subseteq disturbed'
        /\ rows'[n].id > Len(rows) \/ {Paper(rows'[n].id)} \cap c.checks \subseteq disturbed'
    /\ \A s \in Section : active'[s] # active[s] => {Door(s)} \cap c.checks \subseteq disturbed'
    /\ \A t \in transfers : t \notin transfers' => {Paper(t.id)} \cap c.checks \subseteq disturbed'
    /\ \A t \in transfers : \E b \in BOOLEAN : [t EXCEPT !.received = b] \in transfers'

LEMMA ShapeStays ==
    ASSUME RowsOK, NEW N, Grown(N), NEW c, Shape(c), Spares(c)
    PROVE  Shape(c)'
<1>1. CASE Wasting(c)
  BY <1>1 DEF Shape, Wasting
<1>2. CASE Transferring(c)
  BY <1>2 DEF Shape, Transferring
<1>3. CASE Receiving(c)
  <2>1. PICK t \in TransferType :
            /\ ~t.received
            /\ \E b \in BOOLEAN : [t EXCEPT !.received = b] \in transfers
            /\ c = [pc |-> "write", op |-> "receive", transfer |-> t,
                    checks |-> {Paper(t.id)}, changes |-> {Paper(t.id)} \cup Stock({t.to})]
    BY <1>3 DEF Receiving
  <2>2. PICK b \in BOOLEAN : [t EXCEPT !.received = b] \in transfers
    BY <2>1
  <2>3. PICK d \in BOOLEAN : [[t EXCEPT !.received = b] EXCEPT !.received = d] \in transfers'
    BY <2>2 DEF Spares
  <2>4. [[t EXCEPT !.received = b] EXCEPT !.received = d] = [t EXCEPT !.received = d]
    BY DEF TransferType
  <2> QED BY <2>1, <2>3, <2>4 DEF Receiving, Shape
<1>4. CASE Opening(c)
  BY <1>4 DEF Shape, Opening
<1>5. CASE Reversing(c)
  <2>1. PICK id \in DOMAIN rows, S \in SUBSET DOMAIN rows :
            /\ S \subseteq Originals(id)
            /\ c = [pc |-> "write", op |-> "reverse", originals |-> S, checks |-> {Paper(id)},
                    changes |-> {Paper(id)} \cup Stock({rows[n].section : n \in S})]
    BY <1>5 DEF Reversing
  <2>2. /\ \A n \in DOMAIN rows : n \in DOMAIN rows' /\ rows'[n] = rows[n]
    BY DEF Grown
  <2>3. /\ id \in DOMAIN rows' /\ S \in SUBSET DOMAIN rows' /\ S \subseteq Originals(id)'
        /\ {rows[n].section : n \in S}' = {rows[n].section : n \in S}
    BY <2>1, <2>2 DEF Originals, Of
  <2>4. c = [pc |-> "write", op |-> "reverse", originals |-> S, checks |-> {Paper(id)},
             changes |-> {Paper(id)} \cup Stock({rows[n].section : n \in S})]'
    BY <2>1, <2>3
  <2> QED BY <2>3, <2>4 DEF Reversing, Shape
<1>6. CASE Patching(c)
  BY <1>6 DEF Shape, Patching
<1> QED BY <1>1, <1>2, <1>3, <1>4, <1>5, <1>6 DEF Shape

LEMMA KnowsStill ==
    ASSUME RowsOK, TransfersOK, NEW N, Grown(N), NEW c, Shape(c), Knows(c), Spares(c)
    PROVE  Knows(c)'
<1>1. CASE Wasting(c)
  <2>1. PICK s \in Section : c.section = s /\ c.checks = {Door(s)} /\ c.op = "waste"
    BY <1>1 DEF Wasting
  <2>2. DoorsKnown(c)'
    BY <2>1 DEF DoorsKnown, Knows, Spares
  <2> QED BY <2>1, <2>2 DEF Knows, OpeningKnows, PatchKnows, PaperKnown
<1>2. CASE Transferring(c)
  <2>1. PICK from \in Section, to \in Section :
            /\ c.from = from /\ c.to = to
            /\ c.checks = {Door(from), Door(to)} /\ c.op = "transfer"
    BY <1>2 DEF Transferring
  <2>2. DoorsKnown(c)'
    BY <2>1 DEF DoorsKnown, Knows, Spares
  <2> QED BY <2>1, <2>2 DEF Knows, OpeningKnows, PatchKnows, PaperKnown
<1>3. CASE Receiving(c)
  <2>1. c.op = "receive" /\ c.checks = {Paper(c.transfer.id)}
    BY <1>3 DEF Receiving
  <2>2. PaperKnown(c)'
    BY <2>1 DEF PaperKnown, Knows, Spares
  <2> QED BY <2>1, <2>2 DEF Knows, OpeningKnows, PatchKnows, DoorsKnown
<1>4. CASE Opening(c)
  <2>1. PICK s \in Section : /\ c.section = s /\ c.checks = {Door(s), Past(s)}
                             /\ c.op = "opening"
    BY <1>4 DEF Opening
  <2>2. DoorsKnown(c)'
    BY <2>1 DEF DoorsKnown, Knows, Spares
  <2>3. ASSUME Past(s) \notin disturbed' PROVE ~Foreign(s)' /\ (c.pc = "write" => AllUndone(s)')
    <3>1. \A n \in Added : rows'[n].section # s
      BY <2>1, <2>3 DEF Spares
    <3>2. ~Foreign(s) /\ (c.pc = "write" => AllUndone(s))
      BY <2>1, <2>3 DEF Knows, OpeningKnows, Spares
    <3>3. (Foreign(s)' <=> Foreign(s)) /\ (AllUndone(s)' <=> AllUndone(s))
      BY <3>1, Elsewhere
    <3> QED BY <3>2, <3>3
  <2>4. OpeningKnows(c)'
    BY <2>1, <2>3 DEF OpeningKnows
  <2> QED BY <2>1, <2>2, <2>4 DEF Knows, PatchKnows, PaperKnown
<1>5. CASE Reversing(c)
  <2>1. PICK id \in DOMAIN rows : /\ c.checks = {Paper(id)} /\ c.op = "reverse"
                                  /\ c.originals \subseteq Originals(id)
    BY <1>5 DEF Reversing
  <2>2. \A x : Paper(x) \in c.checks => x = id
    BY <2>1 DEF Paper
  <2>3. ASSUME Paper(id) \notin disturbed'
        PROVE  c.originals = Originals(id)' /\ \A n \in c.originals : ~IsReversed(n)'
    <3>1. \A n \in Added : rows'[n].id # id
      <4> SUFFICES ASSUME NEW n \in Added, rows'[n].id = id PROVE FALSE
        OBVIOUS
      <4>1. ~(id > Len(rows))
        BY DEF Grown
      <4>2. {Paper(id)} \cap c.checks \subseteq disturbed'
        BY <4>1 DEF Spares
      <4> QED BY <2>1, <2>3, <4>2
    <3>2. /\ Originals(id)' = Originals(id)
          /\ \A n \in Of(id) : IsReversed(n)' <=> IsReversed(n)
      BY <3>1, OtherPaper
    <3>3. id \in Nat /\ Paper(id) \in c.checks \ disturbed
      BY <2>1, <2>3 DEF Spares, Grown
    <3>4. c.originals = Originals(id) /\ \A n \in c.originals : ~IsReversed(n)
      BY <2>1, <3>3 DEF Knows, PaperKnown
    <3> QED BY <3>2, <3>4 DEF Originals
  <2>4. PaperKnown(c)'
    BY <2>1, <2>2, <2>3 DEF PaperKnown
  <2> QED BY <2>1, <2>4 DEF Knows, OpeningKnows, PatchKnows, DoorsKnown
<1>6. CASE Patching(c)
  <2>1. PICK s \in Section : c.section = s /\ c.checks = {Door(s), Shelf(s)} /\ c.op = "patch"
    BY <1>6 DEF Patching
  <2>2. ASSUME ~c.active, {Door(s), Shelf(s)} \cap disturbed' = {}
        PROVE  s \notin Store /\ (~active'[s] \/ ~Holds(s)')
    <3>1. \A n \in Added : rows'[n].section # s
      BY <2>1, <2>2 DEF Spares
    <3>2. Holds(s)' <=> Holds(s)
      BY <3>1, Elsewhere
    <3>3. active'[s] = active[s] /\ {Door(s), Shelf(s)} \cap disturbed = {}
      BY <2>1, <2>2 DEF Spares
    <3>4. s \notin Store /\ (~active[s] \/ ~Holds(s))
      BY <2>1, <2>2, <3>3 DEF Knows, PatchKnows
    <3> QED BY <3>2, <3>3, <3>4
  <2>3. PatchKnows(c)'
    BY <2>1, <2>2 DEF PatchKnows
  <2> QED BY <2>1, <2>3 DEF Knows, OpeningKnows, PaperKnown, DoorsKnown
<1> QED BY <1>1, <1>2, <1>3, <1>4, <1>5, <1>6 DEF Shape

-----------------------------------------------------------------------------
(* What the rows say stays said when rows are added. *)

LEMMA PastStays ==
    ASSUME RowsOK, OpensWithoutPast, NEW N, Grown(N), disturbed \subseteq disturbed',
           \A n \in Added :
               LET s == rows'[n].section IN
               rows'[n].doc = "opening" /\ rows'[n].reverses = 0 /\ Past(s) \notin disturbed' =>
                   /\ ~Foreign(s) /\ AllUndone(s)
                   /\ \A m \in Added : rows'[m].id = rows'[n].id
    PROVE  OpensWithoutPast'
<1> SUFFICES ASSUME NEW n \in DOMAIN rows', NEW s, s = rows'[n].section,
                    rows'[n].doc = "opening", rows'[n].reverses = 0, Past(s) \notin disturbed',
                    NEW m \in In(s)'
             PROVE  \/ m > n
                    \/ rows'[m].id = rows'[n].id
                    \/ /\ rows'[m].doc = "opening"
                       /\ rows'[m].reverses # 0 \/ \E k \in In(s)' : k < n /\ rows'[k].reverses = m
  BY DEF OpensWithoutPast
<1>1. /\ \A o \in DOMAIN rows : o \in DOMAIN rows' /\ rows'[o] = rows[o] /\ o # 0 /\ o \in Nat
      /\ \A o \in DOMAIN rows' : o \in DOMAIN rows \/ o \in Added
      /\ \A o \in Added, q \in DOMAIN rows : q < o
  BY DEF Grown, Added
<1>2. In(s) \subseteq In(s)' /\ m \in DOMAIN rows'
  BY <1>1 DEF In
<1>3. CASE n \in DOMAIN rows /\ m \in DOMAIN rows
  <2>1. m \in In(s) /\ s = rows[n].section /\ Past(s) \notin disturbed
    BY <1>1, <1>3 DEF In
  <2>2. \/ m > n
        \/ rows[m].id = rows[n].id
        \/ /\ rows[m].doc = "opening"
           /\ rows[m].reverses # 0 \/ \E k \in In(s) : k < n /\ rows[k].reverses = m
    BY <1>1, <1>3, <2>1 DEF OpensWithoutPast
  <2>3. \A k \in In(s) : rows'[k] = rows[k] /\ k \in In(s)'
    BY <1>1, <1>2 DEF In
  <2> QED BY <1>1, <1>3, <2>2, <2>3
<1>4. CASE n \in DOMAIN rows /\ m \in Added
  BY <1>1, <1>4
<1>5. CASE n \in Added /\ m \in Added
  BY <1>5
<1>6. CASE n \in Added /\ m \in DOMAIN rows
  <2>1. ~Foreign(s) /\ AllUndone(s) /\ m \in In(s)
    BY <1>1, <1>6 DEF In
  <2>2. rows[m].doc = "opening" /\ (rows[m].reverses = 0 => IsReversed(m))
    BY <2>1 DEF Foreign, AllUndone
  <2>3. ASSUME NEW k \in DOMAIN rows, rows[k].reverses = m
        PROVE  k \in In(s)' /\ k < n /\ rows'[k].reverses = m
    <3>1. rows[k].section = rows[m].section
      BY <1>1, <1>6, <2>3 DEF RowsOK
    <3>2. k \in In(s)
      BY <2>1, <3>1 DEF In
    <3> QED BY <1>1, <1>2, <1>6, <2>3, <3>2
  <2> QED BY <1>1, <1>6, <2>2, <2>3 DEF IsReversed
<1> QED BY <1>1, <1>2, <1>3, <1>4, <1>5, <1>6

LEMMA ClosedStays ==
    ASSUME RowsOK, ClosedTakesNoNewWork, NEW N, Grown(N), disturbed \subseteq disturbed',
           closedAt \in [Section -> Nat], \A s \in Section : closedAt[s] <= Len(rows),
           UNCHANGED <<active, closedAt>>,
           \A n \in Added :
               LET s == rows'[n].section IN
               \/ active[s] \/ Door(s) \in disturbed'
               \/ rows'[n].reverses # 0 \/ rows'[n].id <= closedAt[s]
    PROVE  ClosedTakesNoNewWork'
<1> SUFFICES ASSUME NEW s \in Section, ~active[s], {Door(s), Shelf(s)} \cap disturbed' = {}
             PROVE  /\ s \notin Store
                    /\ \A i \in Ware :
                         QtyOf({n \in In(s) : n <= closedAt[s] /\ rows[n].item = i})' = 0
                    /\ \A n \in In(s)' :
                         n > closedAt[s] => rows'[n].reverses # 0 \/ rows'[n].id <= closedAt[s]
  BY DEF ClosedTakesNoNewWork
<1>1. /\ \A o \in DOMAIN rows : o \in DOMAIN rows' /\ rows'[o] = rows[o]
      /\ \A o \in DOMAIN rows' : o \in DOMAIN rows \/ o \in Added
      /\ \A o \in Added : o > Len(rows) /\ o \in Nat
  BY DEF Grown, Added
<1>2. /\ s \notin Store
      /\ \A i \in Ware : QtyOf({n \in In(s) : n <= closedAt[s] /\ rows[n].item = i}) = 0
      /\ \A n \in In(s) : n > closedAt[s] => rows[n].reverses # 0 \/ rows[n].id <= closedAt[s]
  BY DEF ClosedTakesNoNewWork
<1>3. closedAt[s] \in Nat /\ closedAt[s] <= Len(rows) /\ Len(rows) \in Nat
  BY DEF Grown
<1>4. ASSUME NEW i \in Ware
      PROVE  QtyOf({n \in In(s) : n <= closedAt[s] /\ rows[n].item = i})' = 0
  <2>1. \A n \in In(s)' : n <= closedAt[s] => n \in In(s) /\ rows'[n] = rows[n]
    BY <1>1, <1>3 DEF In
  <2>2. In(s) \subseteq In(s)' /\ \A n \in In(s) : rows'[n] = rows[n]
    BY <1>1 DEF In
  <2>3. {n \in In(s) : n <= closedAt[s] /\ rows[n].item = i}'
          = {n \in In(s) : n <= closedAt[s] /\ rows[n].item = i}
    BY <2>1, <2>2
  <2>4. [n \in {m \in In(s) : m <= closedAt[s] /\ rows[m].item = i} |-> rows[n].qty]'
          = [n \in {m \in In(s) : m <= closedAt[s] /\ rows[m].item = i} |-> rows[n].qty]
    BY <2>2, <2>3
  <2> QED BY <1>2, <2>4 DEF QtyOf
<1>5. ASSUME NEW n \in In(s)', n > closedAt[s]
      PROVE  rows'[n].reverses # 0 \/ rows'[n].id <= closedAt[s]
  <2>1. CASE n \in DOMAIN rows
    BY <1>1, <1>2, <1>5, <2>1 DEF In
  <2>2. CASE n \in Added
    BY <1>1, <2>2 DEF In
  <2> QED BY <1>1, <2>1, <2>2 DEF In
<1> QED BY <1>2, <1>4, <1>5

LEMMA VansStay ==
    ASSUME VansLeftBefore, disturbed \subseteq disturbed', UNCHANGED <<active, closedAt>>,
           \A t \in transfers' :
               \/ \E u \in transfers : u.id = t.id /\ u.to = t.to
               \/ active[t.to] \/ Door(t.to) \in disturbed'
    PROVE  VansLeftBefore'
BY DEF VansLeftBefore

LEMMA OtherJourney ==
    ASSUME RowsOK, NEW N, Grown(N), NEW t, t.id \in DOMAIN rows, Journey(t),
           \A n \in Added : rows'[n].id # t.id
    PROVE  Journey(t)'
<1>1. Of(t.id)' = Of(t.id)
  BY OtherPaper
<1>2. \A n \in DOMAIN rows : n \in DOMAIN rows' /\ rows'[n] = rows[n]
  BY DEF Grown
<1>3. \A m, n \in DOMAIN rows : Undoes(m, n) => Undoes(m, n)'
  BY <1>2 DEF Undoes, Mirror
<1>4. OnItsWay(t) => OnItsWay(t)'
  BY <1>1, <1>2, <1>3 DEF OnItsWay
<1>5. Arrived(t) => Arrived(t)'
  <2> SUFFICES ASSUME Arrived(t) PROVE Arrived(t)'
    OBVIOUS
  <2>1. PICK a \in DOMAIN rows :
          /\ a # t.id /\ rows[a] = Arrival(t)
          /\ \/ Of(t.id) = {t.id, a}
             \/ \E m, k \in DOMAIN rows :
                  /\ m \notin {t.id, a} /\ k \notin {t.id, a, m}
                  /\ Of(t.id) = {t.id, a, m, k} /\ Undoes(m, t.id) /\ Undoes(k, a)
             \/ \E m \in DOMAIN rows :
                  /\ m # t.id /\ m < a
                  /\ Of(t.id) = {t.id, a, m} /\ Undoes(m, t.id)
    BY DEF Arrived
  <2>2. a \in DOMAIN rows' /\ rows'[a] = Arrival(t)
    BY <1>2, <2>1
  <2>3. CASE Of(t.id) = {t.id, a}
    BY <1>1, <2>1, <2>2, <2>3 DEF Arrived, Arrival, Row
  <2>4. CASE \E m, k \in DOMAIN rows :
               /\ m \notin {t.id, a} /\ k \notin {t.id, a, m}
               /\ Of(t.id) = {t.id, a, m, k} /\ Undoes(m, t.id) /\ Undoes(k, a)
    <3>1. PICK m \in DOMAIN rows, k \in DOMAIN rows :
               /\ m \notin {t.id, a} /\ k \notin {t.id, a, m}
               /\ Of(t.id) = {t.id, a, m, k} /\ Undoes(m, t.id) /\ Undoes(k, a)
      BY <2>4
    <3>2. m \in DOMAIN rows' /\ k \in DOMAIN rows' /\ Undoes(m, t.id)' /\ Undoes(k, a)'
      BY <1>2, <1>3, <3>1
    <3> QED BY <1>1, <2>1, <2>2, <3>1, <3>2 DEF Arrived, Arrival, Row
  <2>5. CASE \E m \in DOMAIN rows : /\ m # t.id /\ m < a
                                    /\ Of(t.id) = {t.id, a, m} /\ Undoes(m, t.id)
    <3>1. PICK m \in DOMAIN rows : /\ m # t.id /\ m < a
                                   /\ Of(t.id) = {t.id, a, m} /\ Undoes(m, t.id)
      BY <2>5
    <3>2. m \in DOMAIN rows' /\ Undoes(m, t.id)'
      BY <1>2, <1>3, <3>1
    <3> QED BY <1>1, <2>1, <2>2, <3>1, <3>2 DEF Arrived, Arrival, Row
  <2> QED BY <2>1, <2>3, <2>4, <2>5
<1> QED BY <1>2, <1>4, <1>5 DEF Journey, Leg, Row

-----------------------------------------------------------------------------
(* The two kinds of steps: an errand begins, or one writes and ends. *)

LEMMA ErrandBegins ==
    ASSUME RoomsInvariant, NEW w \in Agent, NEW c, SetOut(w, c), c # NoErrand, Shape(c), Knows(c)
    PROVE  RoomsInvariant'
<1>1. /\ errand[w] = NoErrand /\ errand' = [errand EXCEPT ![w] = c]
      /\ disturbed \subseteq disturbed'
      /\ \A v \in Agent : Out(v) =>
            (c.checks \cap errand[v].changes) \cup (c.changes \cap errand[v].checks) \subseteq disturbed'
      /\ UNCHANGED <<rows, transfers, active, others, closedAt>>
  BY DEF SetOut, Out
<1>2. RowsOK /\ TransfersOK /\ ErrandsOK /\ Undisturbed /\ ErrandsKnow /\ DOMAIN errand = Agent
  BY DEF RoomsInvariant, RoomTypes, ErrandsOK
<1>3. Grown(0) /\ Added = {}
  BY <1>1, <1>2, RowsStay DEF Added
<1>4. \A v \in Agent : errand'[v] = IF v = w THEN c ELSE errand[v]
  BY <1>1, <1>2
<1>5. ASSUME NEW d PROVE Spares(d)
  <2>1. \A t \in transfers : \E b \in BOOLEAN : [t EXCEPT !.received = b] \in transfers
    BY <1>2 DEF TransfersOK, TransferType
  <2> QED BY <1>1, <1>3, <2>1 DEF Spares
<1>6. ASSUME NEW v \in Agent, Out(v)' PROVE Shape(errand[v])' /\ Knows(errand[v])'
  <2>1. PICK d : d = errand'[v] /\ Shape(d) /\ Knows(d)
    BY <1>2, <1>4, <1>6 DEF ErrandsOK, ErrandsKnow, Out
  <2>2. Shape(d)' /\ Knows(d)'
    BY <1>2, <1>3, <1>5, <2>1, ShapeStays, KnowsStill
  <2> QED BY <2>1, <2>2
<1>7. ErrandsOK' /\ ErrandsKnow'
  <2>1. DOMAIN errand' = Agent
    BY <1>1, <1>2
  <2> QED BY <1>6, <2>1 DEF ErrandsOK, ErrandsKnow
<1>8. Undisturbed'
  <2> SUFFICES ASSUME NEW u \in Agent, NEW v \in Agent, Out(u)', Out(v)', u # v
               PROVE  errand'[u].checks \cap errand'[v].changes \subseteq disturbed'
    BY DEF Undisturbed
  <2>1. CASE u = w
    BY <1>1, <1>4, <2>1 DEF Out
  <2>2. CASE v = w
    BY <1>1, <1>4, <2>2 DEF Out
  <2>3. CASE u # w /\ v # w
    BY <1>1, <1>2, <1>4, <2>3 DEF Out, Undisturbed
  <2> QED BY <2>1, <2>2, <2>3
<1>9. RoomTypes'
  BY <1>1, <1>2, <1>7, <1>8 DEF RoomsInvariant, RoomTypes, RowsOK, TransfersOK
<1>10. OpensWithoutPast' /\ ClosedTakesNoNewWork' /\ VansLeftBefore'
  <2>1. OpensWithoutPast'
    BY <1>1, <1>2, <1>3, PastStays DEF RoomsInvariant
  <2>2. ClosedTakesNoNewWork'
    BY <1>1, <1>2, <1>3, ClosedStays DEF RoomsInvariant, RoomTypes
  <2>3. VansLeftBefore'
    BY <1>1, VansStay DEF RoomsInvariant
  <2> QED BY <2>1, <2>2, <2>3
<1>11. Journeys'
  <2> SUFFICES ASSUME NEW t \in transfers, Paper(t.id) \notin disturbed' PROVE Journey(t)'
    BY <1>1 DEF Journeys
  <2>1. Journey(t) /\ t.id \in DOMAIN rows
    BY <1>1, <1>2 DEF RoomsInvariant, Journeys, TransfersOK
  <2> QED BY <1>2, <1>3, <2>1, OtherJourney
<1> QED BY <1>7, <1>9, <1>10, <1>11 DEF RoomsInvariant

LEMMA ErrandEnds ==
    ASSUME RoomsInvariant, NEW w \in Agent, Out(w), errand' = [errand EXCEPT ![w] = NoErrand],
           disturbed' = disturbed, NEW N, Grown(N),
           \A n \in Added :
               /\ {Past(rows'[n].section), Shelf(rows'[n].section)} \subseteq errand[w].changes
               /\ rows'[n].id > Len(rows) \/ Paper(rows'[n].id) \in errand[w].changes,
           \A s \in Section : active'[s] # active[s] => Door(s) \in errand[w].changes,
           \A t \in transfers : t \notin transfers' => Paper(t.id) \in errand[w].changes,
           \A t \in transfers : \E b \in BOOLEAN : [t EXCEPT !.received = b] \in transfers'
    PROVE  ErrandsOK' /\ ErrandsKnow' /\ Undisturbed'
<1>1. RowsOK /\ TransfersOK /\ ErrandsOK /\ Undisturbed /\ ErrandsKnow /\ DOMAIN errand = Agent
  BY DEF RoomsInvariant, RoomTypes, ErrandsOK
<1>2. /\ DOMAIN errand' = Agent
      /\ \A v \in Agent : Out(v)' => v # w /\ Out(v) /\ errand'[v] = errand[v]
  BY <1>1 DEF Out
<1>3. ASSUME NEW v \in Agent, v # w, Out(v) PROVE Spares(errand[v])
  <2>1. errand[v].checks \cap errand[w].changes \subseteq disturbed
    BY <1>1, <1>3 DEF Undisturbed
  <2> QED BY <2>1 DEF Spares
<1>4. ASSUME NEW v \in Agent, Out(v)' PROVE Shape(errand[v])' /\ Knows(errand[v])'
  <2>1. PICK d : d = errand[v] /\ errand'[v] = d /\ Shape(d) /\ Knows(d) /\ Spares(d)
    BY <1>1, <1>2, <1>3, <1>4 DEF ErrandsOK, ErrandsKnow
  <2>2. Shape(d)' /\ Knows(d)'
    BY <1>1, <2>1, ShapeStays, KnowsStill
  <2> QED BY <2>1, <2>2
<1>5. Undisturbed'
  BY <1>1, <1>2 DEF Undisturbed
<1> QED BY <1>2, <1>4, <1>5 DEF ErrandsOK, ErrandsKnow

-----------------------------------------------------------------------------
(* The errands begin. *)

LEMMA WasteBegins ==
    ASSUME RoomsInvariant, NEW w \in Agent, NEW s \in Section, NEW i \in Ware, NEW q \in Qty,
           StartWaste(w, s, i, q)
    PROVE  RoomsInvariant'
<1>1. PICK c : /\ c = [pc |-> "write", op |-> "waste", section |-> s, item |-> i, qty |-> q,
                       checks |-> {Door(s)}, changes |-> Stock({s})]
               /\ SetOut(w, c) /\ active[s]
  BY DEF StartWaste
<1>2. c # NoErrand
  BY <1>1 DEF NoErrand
<1>3. Shape(c)
  BY <1>1 DEF Shape, Wasting
<1>4. Knows(c)
  BY <1>1 DEF Knows, OpeningKnows, DoorsKnown, PatchKnows, PaperKnown
<1> QED BY <1>1, <1>2, <1>3, <1>4, ErrandBegins

LEMMA TransferBegins ==
    ASSUME RoomsInvariant, NEW w \in Agent, NEW from \in Section, NEW to \in Section,
           NEW i \in Ware, NEW q \in Qty, StartTransfer(w, from, to, i, q)
    PROVE  RoomsInvariant'
<1>1. PICK c : /\ c = [pc |-> "write", op |-> "transfer", from |-> from, to |-> to, item |-> i,
                       qty |-> q, checks |-> {Door(from), Door(to)}, changes |-> Stock({from, to})]
               /\ SetOut(w, c) /\ from # to /\ active[from] /\ active[to]
  BY DEF StartTransfer
<1>2. c # NoErrand
  BY <1>1 DEF NoErrand
<1>3. Shape(c)
  BY <1>1 DEF Shape, Transferring
<1>4. Knows(c)
  BY <1>1 DEF Knows, OpeningKnows, DoorsKnown, PatchKnows, PaperKnown
<1> QED BY <1>1, <1>2, <1>3, <1>4, ErrandBegins

LEMMA ReceiptBegins ==
    ASSUME RoomsInvariant, NEW w \in Agent, NEW t \in transfers, StartReceive(w, t)
    PROVE  RoomsInvariant'
<1>1. PICK c : /\ c = [pc |-> "write", op |-> "receive", transfer |-> t,
                       checks |-> {Paper(t.id)}, changes |-> {Paper(t.id)} \cup Stock({t.to})]
               /\ SetOut(w, c) /\ ~t.received
  BY DEF StartReceive
<1>2. c # NoErrand
  BY <1>1 DEF NoErrand
<1>3. t \in TransferType
  BY DEF RoomsInvariant, RoomTypes, TransfersOK
<1>4. [t EXCEPT !.received = FALSE] \in transfers
  <2>1. t.received = FALSE
    BY <1>1, <1>3 DEF TransferType
  <2>2. [t EXCEPT !.received = FALSE] = t
    BY <1>3, <2>1 DEF TransferType
  <2> QED BY <2>2
<1>5. Shape(c)
  BY <1>1, <1>3, <1>4 DEF Shape, Receiving
<1>6. Knows(c)
  BY <1>1 DEF Knows, OpeningKnows, DoorsKnown, PatchKnows, PaperKnown
<1> QED BY <1>1, <1>2, <1>5, <1>6, ErrandBegins

LEMMA OpeningBegins ==
    ASSUME RoomsInvariant, NEW w \in Agent, NEW s \in Section, NEW items \in SUBSET Ware \ {{}},
           NEW q \in Qty, StartOpening(w, s, items, q)
    PROVE  RoomsInvariant'
<1>1. PICK c : /\ c = [pc |-> "look", op |-> "opening", section |-> s, items |-> items, qty |-> q,
                       checks |-> {Door(s), Past(s)}, changes |-> Stock({s})]
               /\ SetOut(w, c) /\ active[s] /\ ~Foreign(s)
  BY DEF StartOpening
<1>2. c # NoErrand
  BY <1>1 DEF NoErrand
<1>3. Shape(c)
  <2>1. items \in SUBSET Ware
    OBVIOUS
  <2> QED BY <1>1, <2>1 DEF Shape, Opening
<1>4. Knows(c)
  BY <1>1 DEF Knows, OpeningKnows, DoorsKnown, PatchKnows, PaperKnown
<1> QED BY <1>1, <1>2, <1>3, <1>4, ErrandBegins

LEMMA ReversalBegins ==
    ASSUME RoomsInvariant, NEW w \in Agent, NEW n \in DOMAIN rows, StartReverse(w, rows[n].id)
    PROVE  RoomsInvariant'
<1>1. PICK id : id = rows[n].id
  OBVIOUS
<1>2. id \in DOMAIN rows /\ Len(rows) \in Nat
  <2>1. /\ rows \in Seq(RowType) /\ rows[n] \in RowType /\ rows[n].id <= n
        /\ DOMAIN rows = 1 .. Len(rows) /\ Len(rows) \in Nat
    BY DEF RoomsInvariant, RoomTypes, RowsOK
  <2>2. id \in Nat \ {0}
    BY <1>1, <2>1 DEF RowType
  <2> QED BY <1>1, <2>1, <2>2
<1>3. PICK S : S = Originals(id)
  OBVIOUS
<1>4. PICK c : /\ c = [pc |-> "write", op |-> "reverse", originals |-> S, checks |-> {Paper(id)},
                       changes |-> {Paper(id)} \cup Stock({rows[k].section : k \in S})]
               /\ SetOut(w, c) /\ \A k \in S : ~IsReversed(k)
  BY <1>1, <1>3 DEF StartReverse
<1>5. c # NoErrand
  BY <1>4 DEF NoErrand
<1>6. Shape(c)
  <2>1. S \in SUBSET DOMAIN rows
    BY <1>3 DEF Originals, Of
  <2> QED BY <1>2, <1>3, <1>4, <2>1 DEF Shape, Reversing
<1>7. PaperKnown(c)
  <2>1. \A x : Paper(x) \in c.checks => x = id
    BY <1>4 DEF Paper
  <2> QED BY <1>3, <1>4, <2>1 DEF PaperKnown
<1>8. Knows(c)
  BY <1>4, <1>7 DEF Knows, OpeningKnows, DoorsKnown, PatchKnows
<1> QED BY <1>4, <1>5, <1>6, <1>8, ErrandBegins

LEMMA PatchBegins ==
    ASSUME RoomsInvariant, NEW w \in Agent, NEW s \in Section,
           NEW wanted \in {"close", "reopen", "rename"}, StartPatch(w, s, wanted)
    PROVE  RoomsInvariant'
<1> DEFINE on == CASE wanted = "close" -> FALSE
                   [] wanted = "reopen" -> TRUE
                   [] wanted = "rename" -> active[s]
<1>1. PICK c : /\ c = [pc |-> "write", op |-> "patch", section |-> s, active |-> on,
                       checks |-> {Door(s), Shelf(s)}, changes |-> {Door(s)}]
               /\ SetOut(w, c) /\ (wanted = "close" => s \notin Store /\ ~Holds(s))
  BY DEF StartPatch
<1>2. c # NoErrand
  BY <1>1 DEF NoErrand
<1>3. on \in BOOLEAN
  <2>1. active[s] \in BOOLEAN
    BY DEF RoomsInvariant, RoomTypes
  <2>2. CASE wanted = "close"
    BY <2>2
  <2>3. CASE wanted = "reopen"
    BY <2>3
  <2>4. CASE wanted = "rename"
    BY <2>1, <2>4
  <2> QED BY <2>2, <2>3, <2>4
<1>4. wanted = "reopen" => on
  OBVIOUS
<1>5. wanted = "rename" => (on <=> active[s])
  OBVIOUS
<1> HIDE DEF on
<1>6. Shape(c)
  BY <1>1, <1>3 DEF Shape, Patching
<1>7. ASSUME ~on, {Door(s), Shelf(s)} \cap disturbed = {}
      PROVE  s \notin Store /\ (~active[s] \/ ~Holds(s))
  <2>1. CASE wanted = "close"
    BY <1>1, <2>1
  <2>2. CASE wanted = "rename"
    BY <1>5, <1>7, <2>2 DEF RoomsInvariant, ClosedTakesNoNewWork
  <2> QED BY <1>4, <1>7, <2>1, <2>2
<1>8. PatchKnows(c)
  BY <1>1, <1>7 DEF PatchKnows
<1>9. Knows(c)
  BY <1>1, <1>8 DEF Knows, OpeningKnows, DoorsKnown, PaperKnown
<1> QED BY <1>1, <1>2, <1>6, <1>9, ErrandBegins

\* An errand is of one shape, told by its op.
LEMMA OneShape ==
    ASSUME NEW c, Shape(c)
    PROVE  /\ c.op = "waste" => Wasting(c)
           /\ c.op = "transfer" => Transferring(c)
           /\ c.op = "receive" => Receiving(c)
           /\ c.op = "opening" \/ c.pc = "look" => Opening(c)
           /\ c.op = "reverse" => Reversing(c)
           /\ c.op = "patch" => Patching(c)
<1>1. ASSUME Wasting(c) PROVE c.op = "waste" /\ c.pc = "write"
  <2>1. PICK s \in Section, i \in Ware, q \in Qty :
          c = [pc |-> "write", op |-> "waste", section |-> s, item |-> i, qty |-> q,
               checks |-> {Door(s)}, changes |-> Stock({s})]
    BY <1>1 DEF Wasting
  <2> QED BY <2>1
<1>2. ASSUME Transferring(c) PROVE c.op = "transfer" /\ c.pc = "write"
  <2>1. PICK from \in Section, to \in Section, i \in Ware, q \in Qty :
          c = [pc |-> "write", op |-> "transfer", from |-> from, to |-> to, item |-> i,
               qty |-> q, checks |-> {Door(from), Door(to)}, changes |-> Stock({from, to})]
    BY <1>2 DEF Transferring
  <2> QED BY <2>1
<1>3. ASSUME Receiving(c) PROVE c.op = "receive" /\ c.pc = "write"
  <2>1. PICK t \in TransferType :
          c = [pc |-> "write", op |-> "receive", transfer |-> t,
               checks |-> {Paper(t.id)}, changes |-> {Paper(t.id)} \cup Stock({t.to})]
    BY <1>3 DEF Receiving
  <2> QED BY <2>1
<1>4. ASSUME Opening(c) PROVE c.op = "opening"
  <2>1. PICK pc \in {"look", "write"}, s \in Section, items \in SUBSET Ware, q \in Qty :
          c = [pc |-> pc, op |-> "opening", section |-> s, items |-> items, qty |-> q,
               checks |-> {Door(s), Past(s)}, changes |-> Stock({s})]
    BY <1>4 DEF Opening
  <2> QED BY <2>1
<1>5. ASSUME Reversing(c) PROVE c.op = "reverse" /\ c.pc = "write"
  <2>1. PICK id \in DOMAIN rows, S \in SUBSET DOMAIN rows :
          c = [pc |-> "write", op |-> "reverse", originals |-> S, checks |-> {Paper(id)},
               changes |-> {Paper(id)} \cup Stock({rows[n].section : n \in S})]
    BY <1>5 DEF Reversing
  <2> QED BY <2>1
<1>6. ASSUME Patching(c) PROVE c.op = "patch" /\ c.pc = "write"
  <2>1. PICK s \in Section, on \in BOOLEAN :
          c = [pc |-> "write", op |-> "patch", section |-> s, active |-> on,
               checks |-> {Door(s), Shelf(s)}, changes |-> {Door(s)}]
    BY <1>6 DEF Patching
  <2> QED BY <2>1
<1> QED BY <1>1, <1>2, <1>3, <1>4, <1>5, <1>6 DEF Shape

LEMMA OpeningLooks ==
    ASSUME RoomsInvariant, NEW w \in Agent, LookOpening(w)
    PROVE  RoomsInvariant'
<1>1. /\ errand' = [errand EXCEPT ![w].pc = "write"] /\ errand[w].pc = "look"
      /\ AllUndone(errand[w].section)
      /\ UNCHANGED <<rows, transfers, active, closedAt, disturbed>>
  BY DEF LookOpening
<1>2. RowsOK /\ TransfersOK /\ ErrandsOK /\ Undisturbed /\ ErrandsKnow /\ DOMAIN errand = Agent
  BY DEF RoomsInvariant, RoomTypes, ErrandsOK
<1>3. PICK c, d : c = errand[w] /\ d = [c EXCEPT !.pc = "write"]
  OBVIOUS
<1>4. Out(w) /\ Shape(c) /\ Knows(c)
  <2>1. Out(w)
    BY <1>1 DEF Out, NoErrand
  <2> QED BY <1>2, <1>3, <2>1 DEF ErrandsOK, ErrandsKnow
<1>5. Opening(c)
  <2>1. c.pc = "look"
    BY <1>1, <1>3
  <2> QED BY <1>4, <2>1, OneShape
<1>6. PICK s \in Section, items \in SUBSET Ware, q \in Qty :
        c = [pc |-> "look", op |-> "opening", section |-> s, items |-> items, qty |-> q,
             checks |-> {Door(s), Past(s)}, changes |-> Stock({s})]
  <2>1. PICK pc \in {"look", "write"}, s \in Section, items \in SUBSET Ware, q \in Qty :
          c = [pc |-> pc, op |-> "opening", section |-> s, items |-> items, qty |-> q,
               checks |-> {Door(s), Past(s)}, changes |-> Stock({s})]
    BY <1>5 DEF Opening
  <2>2. pc = "look"
    BY <1>1, <1>3, <2>1
  <2> QED BY <2>1, <2>2
<1>7. d = [pc |-> "write", op |-> "opening", section |-> s, items |-> items, qty |-> q,
           checks |-> {Door(s), Past(s)}, changes |-> Stock({s})]
  BY <1>3, <1>6
<1>8. d # NoErrand /\ d.checks = c.checks /\ d.changes = c.changes
  BY <1>6, <1>7 DEF NoErrand
<1>9. Shape(d)
  BY <1>7 DEF Shape, Opening
<1>10. Knows(d)
  BY <1>1, <1>3, <1>4, <1>6, <1>7
     DEF Knows, OpeningKnows, DoorsKnown, PatchKnows, PaperKnown
<1>11. \A v \in Agent : errand'[v] = IF v = w THEN d ELSE errand[v]
  BY <1>1, <1>2, <1>3
<1>12. Grown(0) /\ Added = {}
  BY <1>1, <1>2, RowsStay DEF Added
<1>13. ASSUME NEW e PROVE Spares(e)
  <2>1. \A t \in transfers : \E b \in BOOLEAN : [t EXCEPT !.received = b] \in transfers
    BY <1>2 DEF TransfersOK, TransferType
  <2> QED BY <1>1, <1>12, <2>1 DEF Spares
<1>14. ASSUME NEW v \in Agent, Out(v)' PROVE Shape(errand[v])' /\ Knows(errand[v])'
  <2>1. PICK e : e = errand'[v] /\ Shape(e) /\ Knows(e)
    BY <1>2, <1>9, <1>10, <1>11, <1>14 DEF ErrandsOK, ErrandsKnow, Out
  <2>2. Shape(e)' /\ Knows(e)'
    BY <1>2, <1>12, <1>13, <2>1, ShapeStays, KnowsStill
  <2> QED BY <2>1, <2>2
<1>15. ErrandsOK' /\ ErrandsKnow'
  <2>1. DOMAIN errand' = Agent
    BY <1>1, <1>2
  <2> QED BY <1>14, <2>1 DEF ErrandsOK, ErrandsKnow
<1>16. Undisturbed'
  <2>1. \A v \in Agent : Out(v)' => /\ Out(v) /\ errand'[v].checks = errand[v].checks
                                    /\ errand'[v].changes = errand[v].changes
    BY <1>3, <1>4, <1>8, <1>11 DEF Out
  <2> QED BY <1>1, <1>2, <2>1 DEF Undisturbed
<1>17. RoomTypes'
  BY <1>1, <1>2, <1>15, <1>16 DEF RoomsInvariant, RoomTypes, RowsOK, TransfersOK
<1>18. OpensWithoutPast' /\ ClosedTakesNoNewWork' /\ VansLeftBefore'
  BY <1>1 DEF RoomsInvariant, OpensWithoutPast, ClosedTakesNoNewWork, VansLeftBefore, In, QtyOf
<1>19. Journeys'
  <2> SUFFICES ASSUME NEW t \in transfers, Paper(t.id) \notin disturbed' PROVE Journey(t)'
    BY <1>1 DEF Journeys
  <2>1. Journey(t) /\ t.id \in DOMAIN rows
    BY <1>1, <1>2 DEF RoomsInvariant, Journeys, TransfersOK
  <2> QED BY <1>2, <1>12, <2>1, OtherJourney
<1> QED BY <1>15, <1>17, <1>18, <1>19 DEF RoomsInvariant

-----------------------------------------------------------------------------
(* The errands write, or are given up. *)

\* A step adds rows only where w has said it changes something.
Announced(w) ==
    /\ \A n \in Added :
        /\ {Past(rows'[n].section), Shelf(rows'[n].section)} \subseteq errand[w].changes
        /\ rows'[n].id > Len(rows) \/ Paper(rows'[n].id) \in errand[w].changes
    /\ \A t \in transfers : t \notin transfers' => Paper(t.id) \in errand[w].changes
    /\ \A t \in transfers : \E b \in BOOLEAN : [t EXCEPT !.received = b] \in transfers'

FreshOpenings ==
    \A n \in Added :
        LET s == rows'[n].section IN
        rows'[n].doc = "opening" /\ rows'[n].reverses = 0 /\ Past(s) \notin disturbed' =>
            /\ ~Foreign(s) /\ AllUndone(s)
            /\ \A m \in Added : rows'[m].id = rows'[n].id

NoNewWork ==
    \A n \in Added :
        LET s == rows'[n].section IN
        \/ active[s] \/ Door(s) \in disturbed'
        \/ rows'[n].reverses # 0 \/ rows'[n].id <= closedAt[s]

KnownVans ==
    \A t \in transfers' :
        \/ \E u \in transfers : u.id = t.id /\ u.to = t.to
        \/ active[t.to] \/ Door(t.to) \in disturbed'

LEMMA RowsWritten ==
    ASSUME RoomsInvariant, NEW w \in Agent, Out(w), Conclude(w), NEW N, Grown(N),
           UNCHANGED <<active, closedAt>>, TransfersOK',
           Announced(w), FreshOpenings, NoNewWork, KnownVans,
           \A t \in transfers' : Paper(t.id) \notin disturbed =>
               \/ Journey(t)'
               \/ t \in transfers /\ \A n \in Added : rows'[n].id # t.id
    PROVE  RoomsInvariant'
<1>1. /\ errand' = [errand EXCEPT ![w] = NoErrand]
      /\ disturbed' = disturbed /\ disturbed \subseteq disturbed'
  BY DEF Conclude
<1>2. RowsOK /\ TransfersOK /\ RowsOK'
  BY DEF RoomsInvariant, RoomTypes, Grown
<1>3. ErrandsOK' /\ ErrandsKnow' /\ Undisturbed'
  <2>1. \A n \in Added :
          /\ {Past(rows'[n].section), Shelf(rows'[n].section)} \subseteq errand[w].changes
          /\ rows'[n].id > Len(rows) \/ Paper(rows'[n].id) \in errand[w].changes
    BY DEF Announced
  <2>2. \A s \in Section : active'[s] # active[s] => Door(s) \in errand[w].changes
    OBVIOUS
  <2>3. /\ \A t \in transfers : t \notin transfers' => Paper(t.id) \in errand[w].changes
        /\ \A t \in transfers : \E b \in BOOLEAN : [t EXCEPT !.received = b] \in transfers'
    BY DEF Announced
  <2> QED BY <1>1, <2>1, <2>2, <2>3, ErrandEnds
<1>4. RoomTypes'
  <2>1. \A s \in Section : closedAt'[s] <= Len(rows')
    BY DEF RoomsInvariant, RoomTypes, Grown
  <2> QED BY <1>2, <1>3, <2>1 DEF RoomsInvariant, RoomTypes
<1>5. OpensWithoutPast'
  <2>1. OpensWithoutPast
    BY DEF RoomsInvariant
  <2> QED BY <1>1, <1>2, <2>1, PastStays DEF FreshOpenings
<1>6. ClosedTakesNoNewWork'
  <2>1. /\ ClosedTakesNoNewWork /\ closedAt \in [Section -> Nat]
        /\ \A s \in Section : closedAt[s] <= Len(rows)
    BY DEF RoomsInvariant, RoomTypes
  <2> QED BY <1>1, <1>2, <2>1, ClosedStays DEF NoNewWork
<1>7. VansLeftBefore'
  <2>1. VansLeftBefore
    BY DEF RoomsInvariant
  <2> QED BY <1>1, <2>1, VansStay DEF KnownVans
<1>8. Journeys'
  <2> SUFFICES ASSUME NEW t \in transfers', Paper(t.id) \notin disturbed' PROVE Journey(t)'
    BY DEF Journeys
  <2>1. CASE t \in transfers /\ \A n \in Added : rows'[n].id # t.id
    <3>1. Journey(t) /\ t.id \in DOMAIN rows
      BY <1>1, <1>2, <2>1 DEF RoomsInvariant, Journeys, TransfersOK
    <3> QED BY <1>2, <2>1, <3>1, OtherJourney
  <2> QED BY <1>1, <2>1
<1> QED BY <1>3, <1>4, <1>5, <1>6, <1>7, <1>8 DEF RoomsInvariant

LEMMA Writing ==
    ASSUME RoomsInvariant, NEW w \in Agent, NEW op, Writes(w, op)
    PROVE  /\ Out(w) /\ Shape(errand[w]) /\ Knows(errand[w])
           /\ errand[w].op = op /\ errand[w].pc = "write"
           /\ RowsOK /\ TransfersOK /\ Len(rows) \in Nat /\ DOMAIN rows = 1 .. Len(rows)
<1>1. Out(w)
  BY DEF Writes, Out, NoErrand
<1> QED BY <1>1 DEF Writes, RoomsInvariant, RoomTypes, ErrandsOK, ErrandsKnow, RowsOK

\* One row added, at the end.
LEMMA OneAdded ==
    ASSUME RowsOK, NEW r \in RowType, rows' = Append(rows, r), r.id <= Len(rows) + 1, r.reverses = 0
    PROVE  Grown(1) /\ Added = {Len(rows) + 1} /\ rows'[Len(rows) + 1] = r
<1>1. Grown(1) /\ rows'[Len(rows) + 1] = r
  BY RowAppended
<1> QED BY <1>1 DEF Grown, Added

\* The table of transfers stays as it is.
LEMMA TransfersStay ==
    ASSUME TransfersOK, UNCHANGED transfers, NEW N, Grown(N)
    PROVE  /\ TransfersOK' /\ KnownVans
           /\ \A t \in transfers : t \in transfers' /\ \E b \in BOOLEAN : [t EXCEPT !.received = b] \in transfers'
<1>1. TransfersOK'
  BY DEF TransfersOK, Grown
<1>2. KnownVans
  BY DEF KnownVans
<1>3. \A t \in transfers : \E b \in BOOLEAN : [t EXCEPT !.received = b] \in transfers'
  <2> SUFFICES ASSUME NEW t \in transfers
               PROVE  \E b \in BOOLEAN : [t EXCEPT !.received = b] \in transfers'
    OBVIOUS
  <2>1. t \in TransferType
    BY DEF TransfersOK
  <2>2. t.received \in BOOLEAN /\ [t EXCEPT !.received = t.received] = t
    BY <2>1 DEF TransferType
  <2> QED BY <2>2
<1> QED BY <1>1, <1>2, <1>3

LEMMA WasteWritten ==
    ASSUME RoomsInvariant, NEW w \in Agent, WriteWaste(w)
    PROVE  RoomsInvariant'
<1>1. Writes(w, "waste")
  BY DEF WriteWaste
<1>2. /\ Out(w) /\ Shape(errand[w]) /\ Knows(errand[w]) /\ errand[w].op = "waste"
      /\ RowsOK /\ TransfersOK /\ Len(rows) \in Nat /\ DOMAIN rows = 1 .. Len(rows)
  BY <1>1, Writing
<1>3. PICK c : c = errand[w]
  OBVIOUS
<1>4. Wasting(c)
  BY <1>2, <1>3, OneShape
<1>5. PICK s \in Section, i \in Ware, q \in Qty :
        c = [pc |-> "write", op |-> "waste", section |-> s, item |-> i, qty |-> q,
             checks |-> {Door(s)}, changes |-> Stock({s})]
  BY <1>4 DEF Wasting
<1>6. PICK r : r = Row("wastage", NextId, s, i, -q)
  OBVIOUS
<1>7. /\ rows' = Append(rows, r) /\ Conclude(w)
      /\ UNCHANGED <<transfers, active, others, closedAt>>
  BY <1>3, <1>5, <1>6 DEF WriteWaste
<1>8. /\ r \in RowType /\ r.id = Len(rows) + 1 /\ r.reverses = 0 /\ r.section = s
      /\ r.doc = "wastage"
  <2>1. q \in Nat
    BY RoomsAssumption
  <2> QED BY <1>2, <1>6, <2>1 DEF Row, RowType, NextId, Doc
<1>9. Grown(1) /\ Added = {Len(rows) + 1} /\ rows'[Len(rows) + 1] = r
  <2>1. r.id <= Len(rows) + 1
    BY <1>2, <1>8
  <2> QED BY <1>2, <1>7, <1>8, <2>1, OneAdded
<1>10. /\ TransfersOK' /\ KnownVans
       /\ \A t \in transfers : t \in transfers' /\ \E b \in BOOLEAN : [t EXCEPT !.received = b] \in transfers'
  BY <1>2, <1>7, <1>9, TransfersStay
<1>11. Announced(w)
  <2>1. {Past(s), Shelf(s)} \subseteq errand[w].changes
    BY <1>3, <1>5 DEF Stock
  <2>2. rows'[Len(rows) + 1].id > Len(rows)
    BY <1>2, <1>8, <1>9
  <2> QED BY <1>8, <1>9, <1>10, <2>1, <2>2 DEF Announced
<1>12. FreshOpenings
  BY <1>8, <1>9 DEF FreshOpenings
<1>13. NoNewWork
  <2>1. active[s] \/ Door(s) \in disturbed
    BY <1>2, <1>3, <1>5 DEF Knows, DoorsKnown
  <2> QED BY <1>7, <1>8, <1>9, <2>1 DEF NoNewWork, Conclude
<1>14. \A t \in transfers' : t \in transfers /\ \A n \in Added : rows'[n].id # t.id
  BY <1>2, <1>7, <1>8, <1>9 DEF TransfersOK
<1>15. UNCHANGED <<active, closedAt>>
  BY <1>7
<1> QED BY <1>2, <1>7, <1>9, <1>10, <1>11, <1>12, <1>13, <1>14, <1>15, RowsWritten

LEMMA ReceiptWritten ==
    ASSUME RoomsInvariant, NEW w \in Agent, WriteReceive(w)
    PROVE  RoomsInvariant'
<1>1. Writes(w, "receive")
  BY DEF WriteReceive
<1>2. /\ Out(w) /\ Shape(errand[w]) /\ Knows(errand[w]) /\ errand[w].op = "receive"
      /\ RowsOK /\ TransfersOK /\ Len(rows) \in Nat /\ DOMAIN rows = 1 .. Len(rows)
  BY <1>1, Writing
<1>3. PICK c : c = errand[w]
  OBVIOUS
<1>4. Receiving(c)
  BY <1>2, <1>3, OneShape
<1>5. PICK t \in TransferType :
        /\ ~t.received
        /\ \E b \in BOOLEAN : [t EXCEPT !.received = b] \in transfers
        /\ c = [pc |-> "write", op |-> "receive", transfer |-> t,
                checks |-> {Paper(t.id)}, changes |-> {Paper(t.id)} \cup Stock({t.to})]
  BY <1>4 DEF Receiving
<1>6. PICK v : v \in transfers /\ \E b \in BOOLEAN : v = [t EXCEPT !.received = b]
  BY <1>5
<1>7. PICK r, u : r = Arrival(t) /\ u = [t EXCEPT !.received = TRUE]
  OBVIOUS
<1>8. /\ rows' = Append(rows, r) /\ Conclude(w)
      /\ transfers' = {x \in transfers : x.id # t.id} \cup {u}
      /\ UNCHANGED <<active, others, closedAt>>
  BY <1>3, <1>5, <1>7 DEF WriteReceive, Arrival
<1>9. /\ v.id = t.id /\ v.to = t.to /\ v.from = t.from /\ u \in TransferType
      /\ u.id = t.id /\ u.to = t.to /\ u.from = t.from /\ u.item = t.item /\ u.qty = t.qty
      /\ u.received = TRUE
      /\ t.id \in DOMAIN rows /\ t.from # t.to
  <2>1. /\ v.id = t.id /\ v.to = t.to /\ v.from = t.from /\ u \in TransferType
        /\ u.id = t.id /\ u.to = t.to /\ u.from = t.from /\ u.item = t.item /\ u.qty = t.qty
        /\ u.received = TRUE
    BY <1>6, <1>7 DEF TransferType
  <2> QED BY <1>2, <1>6, <2>1 DEF TransfersOK
<1>10. /\ r \in RowType /\ r.id = t.id /\ r.reverses = 0 /\ r.section = t.to
       /\ r.doc = "transfer"
  BY <1>7 DEF Arrival, Row, RowType, TransferType, Doc
<1>11. Grown(1) /\ Added = {Len(rows) + 1} /\ rows'[Len(rows) + 1] = r
  <2>1. r.id <= Len(rows) + 1
    BY <1>2, <1>9, <1>10
  <2> QED BY <1>2, <1>8, <1>10, <2>1, OneAdded
<1>12. TransfersOK'
  <2>1. transfers' \subseteq TransferType
    BY <1>2, <1>8, <1>9 DEF TransfersOK
  <2>2. \A x \in transfers' : x.from # x.to /\ x.id \in DOMAIN rows'
    BY <1>2, <1>8, <1>9, <1>11 DEF TransfersOK, Grown
  <2>3. \A x, y \in transfers' : x.id = y.id => x = y
    BY <1>2, <1>8, <1>9 DEF TransfersOK
  <2> QED BY <2>1, <2>2, <2>3 DEF TransfersOK
<1>13. Announced(w)
  <2>1. {Past(t.to), Shelf(t.to)} \subseteq errand[w].changes /\ Paper(t.id) \in errand[w].changes
    BY <1>3, <1>5 DEF Stock
  <2>2. \A x \in transfers : x \notin transfers' => x.id = t.id
    BY <1>8
  <2>3. ASSUME NEW x \in transfers PROVE \E d \in BOOLEAN : [x EXCEPT !.received = d] \in transfers'
    <3>1. x \in TransferType
      BY <1>2 DEF TransfersOK
    <3>2. CASE x.id = t.id
      <4>1. x = v
        BY <1>2, <1>6, <1>9, <3>2 DEF TransfersOK
      <4>2. [x EXCEPT !.received = TRUE] = u
        BY <1>6, <1>7, <4>1 DEF TransferType
      <4> QED BY <1>8, <4>2
    <3>3. CASE x.id # t.id
      <4>1. x.received \in BOOLEAN /\ [x EXCEPT !.received = x.received] = x
        BY <3>1 DEF TransferType
      <4>2. x \in transfers'
        BY <1>8, <3>3
      <4> QED BY <4>1, <4>2
    <3> QED BY <3>2, <3>3
  <2> QED BY <1>10, <1>11, <2>1, <2>2, <2>3 DEF Announced
<1>14. FreshOpenings
  BY <1>10, <1>11 DEF FreshOpenings
<1>15. NoNewWork
  <2>1. ~active[t.to] /\ Door(t.to) \notin disturbed => t.id <= closedAt[t.to]
    BY <1>6, <1>9 DEF RoomsInvariant, VansLeftBefore
  <2> QED BY <1>8, <1>10, <1>11, <2>1 DEF NoNewWork, Conclude
<1>16. KnownVans
  BY <1>6, <1>8, <1>9 DEF KnownVans
<1>17. ASSUME NEW x \in transfers', Paper(x.id) \notin disturbed, x.id = t.id PROVE Journey(x)'
  <2>1. x = u
    BY <1>8, <1>17
  <2>2. t \in transfers
    BY <1>2, <1>3, <1>5, <1>17 DEF Knows, PaperKnown
  <2>3. Journey(t)
    BY <1>17, <2>2 DEF RoomsInvariant, Journeys
  <2>4. rows[t.id] = Leg(t) /\ OnItsWay(t)
    BY <1>5, <2>3 DEF Journey
  <2>5. PICK a : a = Len(rows) + 1
    OBVIOUS
  <2>6. /\ a \in DOMAIN rows' /\ rows'[a] = r /\ a \notin DOMAIN rows
        /\ \A n \in DOMAIN rows : n \in DOMAIN rows' /\ rows'[n] = rows[n] /\ n < a
        /\ DOMAIN rows' = DOMAIN rows \cup {a}
    BY <1>2, <1>11, <2>5 DEF Grown
  <2>7. rows'[u.id] = Leg(u) /\ rows'[a] = Arrival(u) /\ a # u.id
    BY <1>7, <1>9, <2>4, <2>6 DEF Leg, Arrival, Row
  <2>8. Of(u.id)' = Of(t.id) \cup {a}
    BY <1>9, <1>10, <2>6 DEF Of
  <2>9. \A m, n \in DOMAIN rows : Undoes(m, n) => Undoes(m, n)'
    BY <2>6 DEF Undoes, Mirror
  <2>10. Arrived(u)'
    <3>1. CASE Of(t.id) = {t.id}
      <4>1. Of(u.id)' = {u.id, a}
        BY <1>9, <2>8, <3>1
      <4> QED BY <2>6, <2>7, <4>1 DEF Arrived, Arrival, Row
    <3>2. CASE \E m \in DOMAIN rows : m # t.id /\ Of(t.id) = {t.id, m} /\ Undoes(m, t.id)
      <4>1. PICK m \in DOMAIN rows : m # t.id /\ Of(t.id) = {t.id, m} /\ Undoes(m, t.id)
        BY <3>2
      <4>2. /\ m \in DOMAIN rows' /\ m # u.id /\ m < a
            /\ Of(u.id)' = {u.id, a, m} /\ Undoes(m, u.id)'
        BY <1>9, <2>6, <2>8, <2>9, <4>1
      <4> QED BY <2>6, <2>7, <4>2 DEF Arrived, Arrival, Row
    <3> QED BY <2>4, <3>1, <3>2 DEF OnItsWay
  <2> QED BY <1>9, <2>1, <2>7, <2>10 DEF Journey, Leg, Row
<1>18. \A x \in transfers' : Paper(x.id) \notin disturbed =>
           \/ Journey(x)'
           \/ x \in transfers /\ \A n \in Added : rows'[n].id # x.id
  BY <1>8, <1>9, <1>10, <1>11, <1>17
<1>19. UNCHANGED <<active, closedAt>>
  BY <1>8
<1> QED BY <1>2, <1>8, <1>11, <1>12, <1>13, <1>14, <1>15, <1>16, <1>18, <1>19, RowsWritten

LEMMA OpeningWritten ==
    ASSUME RoomsInvariant, NEW w \in Agent, WriteOpening(w)
    PROVE  RoomsInvariant'
<1>1. Writes(w, "opening")
  BY DEF WriteOpening
<1>2. /\ Out(w) /\ Shape(errand[w]) /\ Knows(errand[w]) /\ errand[w].op = "opening"
      /\ errand[w].pc = "write"
      /\ RowsOK /\ TransfersOK /\ Len(rows) \in Nat /\ DOMAIN rows = 1 .. Len(rows)
  BY <1>1, Writing
<1>3. PICK c : c = errand[w]
  OBVIOUS
<1>4. Opening(c)
  BY <1>2, <1>3, OneShape
<1>5. PICK s \in Section, items \in SUBSET Ware, q \in Qty :
        c = [pc |-> "write", op |-> "opening", section |-> s, items |-> items, qty |-> q,
             checks |-> {Door(s), Past(s)}, changes |-> Stock({s})]
  <2>1. PICK pc \in {"look", "write"}, s \in Section, items \in SUBSET Ware, q \in Qty :
          c = [pc |-> pc, op |-> "opening", section |-> s, items |-> items, qty |-> q,
               checks |-> {Door(s), Past(s)}, changes |-> Stock({s})]
    BY <1>4 DEF Opening
  <2>2. pc = "write"
    BY <1>2, <1>3, <2>1
  <2> QED BY <2>1, <2>2
<1>6. PICK N : N = Cardinality(items)
  OBVIOUS
<1>7. PICK list : list = SetToSeq(items)
  OBVIOUS
<1>8. N \in Nat /\ list \in [1 .. N -> Ware]
  <2>1. IsFiniteSet(items)
    BY RoomsAssumption, FS_Subset
  <2>2. Cardinality(items) \in Nat /\ SetToSeq(items) \in [1 .. Cardinality(items) -> items]
    BY <2>1, InAnyOrder
  <2> QED BY <1>6, <1>7, <2>2
<1>9. PICK new : new = [n \in 1 .. N |-> Row("opening", NextId, s, list[n], q)]
  OBVIOUS
<1>10. rows' = rows \o new /\ Conclude(w) /\ UNCHANGED <<transfers, active, others, closedAt>>
  <2>1. c.section = s /\ c.items = items /\ c.qty = q
    BY <1>5
  <2>2. /\ rows' = rows \o [n \in 1 .. Cardinality(c.items) |->
                              Row("opening", NextId, c.section, SetToSeq(c.items)[n], c.qty)]
        /\ Conclude(w) /\ UNCHANGED <<transfers, active, others, closedAt>>
    BY <1>3 DEF WriteOpening
  <2> QED BY <1>6, <1>7, <1>9, <2>1, <2>2
<1>11. \A k \in 1 .. N : /\ new[k] \in RowType /\ new[k].id = Len(rows) + 1
                         /\ new[k].reverses = 0 /\ new[k].section = s
  <2>1. q \in Nat
    BY RoomsAssumption
  <2> SUFFICES ASSUME NEW k \in 1 .. N
               PROVE  /\ new[k] \in RowType /\ new[k].id = Len(rows) + 1
                      /\ new[k].reverses = 0 /\ new[k].section = s
    OBVIOUS
  <2>2. list[k] \in Ware /\ new[k] = Row("opening", NextId, s, list[k], q)
    BY <1>8, <1>9
  <2> QED BY <1>2, <2>1, <2>2 DEF Row, RowType, NextId, Doc
<1>12. new \in [1 .. N -> RowType]
  BY <1>9, <1>11
<1>13. Grown(N) /\ \A k \in 1 .. N : rows'[Len(rows) + k] = new[k]
  <2>1. \A k \in 1 .. N :
          /\ new[k].id <= Len(rows) + 1
          /\ new[k].reverses # 0 =>
                /\ new[k].reverses \in DOMAIN rows
                /\ rows[new[k].reverses].id = new[k].id
                /\ rows[new[k].reverses].section = new[k].section
    BY <1>2, <1>11
  <2> QED BY <1>2, <1>8, <1>10, <1>12, <2>1, RowsGrow
<1>14. \A n \in Added : /\ rows'[n].id = Len(rows) + 1 /\ rows'[n].reverses = 0
                        /\ rows'[n].section = s
  BY <1>11, <1>13, AddedAre DEF Added
<1>15. /\ TransfersOK' /\ KnownVans
       /\ \A t \in transfers : t \in transfers' /\ \E b \in BOOLEAN : [t EXCEPT !.received = b] \in transfers'
  BY <1>2, <1>10, <1>13, TransfersStay
<1>16. Announced(w)
  <2>1. {Past(s), Shelf(s)} \subseteq errand[w].changes
    BY <1>3, <1>5 DEF Stock
  <2>2. \A n \in Added : rows'[n].id > Len(rows)
    BY <1>2, <1>14
  <2> QED BY <1>14, <1>15, <2>1, <2>2 DEF Announced
<1>17. FreshOpenings
  <2>1. Past(s) \notin disturbed => ~Foreign(s) /\ AllUndone(s)
    BY <1>2, <1>3, <1>5 DEF Knows, OpeningKnows
  <2>2. disturbed' = disturbed
    BY <1>10 DEF Conclude
  <2> QED BY <1>14, <2>1, <2>2 DEF FreshOpenings
<1>18. NoNewWork
  <2>1. active[s] \/ Door(s) \in disturbed
    BY <1>2, <1>3, <1>5 DEF Knows, DoorsKnown
  <2> QED BY <1>10, <1>14, <2>1 DEF NoNewWork, Conclude
<1>19. \A t \in transfers' : t \in transfers /\ \A n \in Added : rows'[n].id # t.id
  <2>1. \A t \in transfers : t.id # Len(rows) + 1
    BY <1>2 DEF TransfersOK
  <2> QED BY <1>10, <1>14, <2>1
<1>20. UNCHANGED <<active, closedAt>>
  BY <1>10
<1> QED BY <1>2, <1>10, <1>13, <1>15, <1>16, <1>17, <1>18, <1>19, <1>20, RowsWritten

LEMMA TransferWritten ==
    ASSUME RoomsInvariant, NEW w \in Agent, WriteTransfer(w)
    PROVE  RoomsInvariant'
<1>1. Writes(w, "transfer")
  BY DEF WriteTransfer
<1>2. /\ Out(w) /\ Shape(errand[w]) /\ Knows(errand[w]) /\ errand[w].op = "transfer"
      /\ RowsOK /\ TransfersOK /\ Len(rows) \in Nat /\ DOMAIN rows = 1 .. Len(rows)
  BY <1>1, Writing
<1>3. PICK c : c = errand[w]
  OBVIOUS
<1>4. Transferring(c)
  BY <1>2, <1>3, OneShape
<1>5. PICK from \in Section, to \in Section, i \in Ware, q \in Qty :
        /\ from # to
        /\ c = [pc |-> "write", op |-> "transfer", from |-> from, to |-> to, item |-> i, qty |-> q,
                checks |-> {Door(from), Door(to)}, changes |-> Stock({from, to})]
  BY <1>4 DEF Transferring
<1>6. PICK here : here = (LocationOf[from] = LocationOf[to])
  OBVIOUS
<1>7. PICK u : u = [id |-> NextId, from |-> from, to |-> to, item |-> i, qty |-> q, received |-> here]
  OBVIOUS
<1>8. here \in BOOLEAN /\ q \in Nat \ {0}
  BY <1>6, RoomsAssumption
<1>9. /\ u \in TransferType /\ u.id = Len(rows) + 1 /\ u.from = from /\ u.to = to
      /\ u.item = i /\ u.qty = q
  BY <1>2, <1>7, <1>8 DEF TransferType, NextId
<1>10. u.received <=> here
  BY <1>7
<1>11. PICK N : N = IF here THEN 2 ELSE 1
  OBVIOUS
<1>12. PICK new : new = [k \in 1 .. N |-> IF k = 1 THEN Leg(u) ELSE Arrival(u)]
  OBVIOUS
<1>13. N \in Nat /\ \A k \in 1 .. N : k = 1 \/ (k = 2 /\ here)
  BY <1>8, <1>11
<1>14. /\ rows' = rows \o new /\ Conclude(w) /\ UNCHANGED <<active, others, closedAt>>
       /\ transfers' = transfers \cup {u}
  <2>1. /\ Leg(u) = Row("transfer", NextId, c.from, c.item, -c.qty)
        /\ Arrival(u) = Row("transfer", NextId, c.to, c.item, c.qty)
        /\ c.from = from /\ c.to = to
        /\ u = [id |-> NextId, from |-> c.from, to |-> c.to, item |-> c.item, qty |-> c.qty,
                received |-> here]
    BY <1>5, <1>7 DEF Leg, Arrival
  <2>4. /\ rows' = rows \o (IF LocationOf[c.from] = LocationOf[c.to]
                               THEN <<Row("transfer", NextId, c.from, c.item, -c.qty),
                                      Row("transfer", NextId, c.to, c.item, c.qty)>>
                               ELSE <<Row("transfer", NextId, c.from, c.item, -c.qty)>>)
        /\ transfers' = transfers \cup
             {[id |-> NextId, from |-> c.from, to |-> c.to, item |-> c.item, qty |-> c.qty,
               received |-> LocationOf[c.from] = LocationOf[c.to]]}
        /\ Conclude(w) /\ UNCHANGED <<active, others, closedAt>>
    BY <1>3 DEF WriteTransfer
  <2>2. CASE here
    <3>1. new = <<Leg(u), Arrival(u)>>
      <4>1. N = 2
        BY <1>11, <2>2
      <4> QED BY <1>12, <4>1
    <3> QED BY <1>6, <2>1, <2>2, <2>4, <3>1
  <2>3. CASE ~here
    <3>1. new = <<Leg(u)>>
      <4>1. N = 1
        BY <1>11, <2>3
      <4> QED BY <1>12, <4>1
    <3> QED BY <1>6, <2>1, <2>3, <2>4, <3>1
  <2> QED BY <2>2, <2>3
<1>15. \A r \in {Leg(u), Arrival(u)} :
          /\ r \in RowType /\ r.id = Len(rows) + 1 /\ r.reverses = 0
          /\ r.section \in {from, to} /\ r.doc = "transfer"
  <2>1. q \in Int /\ -q \in Int
    BY <1>8
  <2>2. Leg(u) = Row("transfer", Len(rows) + 1, from, i, -q)
    BY <1>9 DEF Leg
  <2>3. Arrival(u) = Row("transfer", Len(rows) + 1, to, i, q)
    BY <1>9 DEF Arrival
  <2> QED BY <1>2, <2>1, <2>2, <2>3 DEF Row, RowType, Doc
<1>16. \A k \in 1 .. N : new[k] \in {Leg(u), Arrival(u)}
  BY <1>12
<1>17. new \in [1 .. N -> RowType]
  BY <1>12, <1>15
<1>18. Grown(N) /\ \A k \in 1 .. N : rows'[Len(rows) + k] = new[k]
  <2>1. \A k \in 1 .. N :
          /\ new[k].id <= Len(rows) + 1
          /\ new[k].reverses # 0 =>
                /\ new[k].reverses \in DOMAIN rows
                /\ rows[new[k].reverses].id = new[k].id
                /\ rows[new[k].reverses].section = new[k].section
    BY <1>2, <1>15, <1>16
  <2> QED BY <1>2, <1>13, <1>14, <1>17, <2>1, RowsGrow
<1>19. \A n \in Added : rows'[n] \in {Leg(u), Arrival(u)}
  BY <1>16, <1>18, AddedAre DEF Added
<1>20. \A n \in Added : /\ rows'[n].id = Len(rows) + 1 /\ rows'[n].reverses = 0
                        /\ rows'[n].section \in {from, to} /\ rows'[n].doc = "transfer"
  BY <1>15, <1>19
<1>21. \A t \in transfers : t.id # u.id
  BY <1>2, <1>9 DEF TransfersOK
<1>22. TransfersOK'
  <2>1. transfers' \subseteq TransferType
    BY <1>2, <1>9, <1>14 DEF TransfersOK
  <2>2. u.id \in DOMAIN rows' /\ DOMAIN rows \subseteq DOMAIN rows'
    BY <1>2, <1>9, <1>11, <1>18 DEF Grown
  <2>3. \A x \in transfers' : x.from # x.to /\ x.id \in DOMAIN rows'
    BY <1>2, <1>5, <1>9, <1>14, <2>2 DEF TransfersOK
  <2>4. \A x, y \in transfers' : x.id = y.id => x = y
    BY <1>2, <1>14, <1>21 DEF TransfersOK
  <2> QED BY <2>1, <2>3, <2>4 DEF TransfersOK
<1>23. Announced(w)
  <2>1. {Past(from), Shelf(from), Past(to), Shelf(to)} \subseteq errand[w].changes
    BY <1>3, <1>5 DEF Stock
  <2>2. \A n \in Added : {Past(rows'[n].section), Shelf(rows'[n].section)} \subseteq errand[w].changes
    BY <1>20, <2>1
  <2>3. \A n \in Added : rows'[n].id > Len(rows)
    BY <1>2, <1>20
  <2>4. \A t \in transfers : t \in transfers' /\ \E b \in BOOLEAN : [t EXCEPT !.received = b] \in transfers'
    <3> SUFFICES ASSUME NEW t \in transfers
                 PROVE  t \in transfers' /\ \E b \in BOOLEAN : [t EXCEPT !.received = b] \in transfers'
      OBVIOUS
    <3>1. t \in TransferType
      BY <1>2 DEF TransfersOK
    <3>2. t.received \in BOOLEAN /\ [t EXCEPT !.received = t.received] = t
      BY <3>1 DEF TransferType
    <3> QED BY <1>14, <3>2
  <2> QED BY <2>2, <2>3, <2>4 DEF Announced
<1>24. FreshOpenings
  BY <1>20 DEF FreshOpenings
<1>25. NoNewWork
  <2>1. (active[from] \/ Door(from) \in disturbed) /\ (active[to] \/ Door(to) \in disturbed)
    BY <1>2, <1>3, <1>5 DEF Knows, DoorsKnown
  <2>2. disturbed' = disturbed
    BY <1>14 DEF Conclude
  <2> QED BY <1>20, <2>1, <2>2 DEF NoNewWork
<1>26. KnownVans
  <2>1. active[to] \/ Door(to) \in disturbed
    BY <1>2, <1>3, <1>5 DEF Knows, DoorsKnown
  <2>2. disturbed' = disturbed
    BY <1>14 DEF Conclude
  <2> QED BY <1>9, <1>14, <2>1, <2>2 DEF KnownVans
<1>27. Journey(u)'
  <2>1. PICK x : x = Len(rows) + 1
    OBVIOUS
  <2>2. /\ x \in DOMAIN rows' /\ rows'[x] = Leg(u) /\ x = u.id
        /\ \A n \in DOMAIN rows : rows'[n] = rows[n] /\ rows[n].id # x
    <3>1. 1 \in 1 .. N /\ new[1] = Leg(u)
      BY <1>11, <1>12
    <3>2. x \in DOMAIN rows' /\ rows'[x] = Leg(u)
      BY <1>2, <1>13, <1>18, <2>1, <3>1 DEF Grown
    <3>3. \A n \in DOMAIN rows : rows'[n] = rows[n] /\ rows[n].id <= n
      BY <1>2, <1>18 DEF Grown, RowsOK
    <3>4. \A n \in DOMAIN rows : rows[n].id \in Nat
      <4>1. \A n \in DOMAIN rows : rows[n] \in RowType
        BY <1>2 DEF RowsOK
      <4> QED BY <4>1 DEF RowType
    <3> QED BY <1>2, <1>9, <2>1, <3>2, <3>3, <3>4
  <2>3. CASE ~here
    <3>1. DOMAIN rows' = DOMAIN rows \cup {x}
      BY <1>2, <1>11, <1>18, <2>1, <2>3 DEF Grown
    <3>2. Of(x)' = {x}
      BY <1>9, <2>2, <3>1 DEF Of, Leg, Row
    <3> QED BY <1>10, <2>2, <2>3, <3>2 DEF Journey, OnItsWay, Leg, Row
  <2>4. CASE here
    <3>1. PICK a : a = Len(rows) + 2
      OBVIOUS
    <3>2. DOMAIN rows' = DOMAIN rows \cup {x, a} /\ a # x /\ rows'[a] = Arrival(u)
      <4>1. N = 2
        BY <1>11, <2>4
      <4>2. DOMAIN rows' = DOMAIN rows \cup {x, a} /\ a # x
        BY <1>2, <1>18, <2>1, <3>1, <4>1 DEF Grown
      <4>3. 2 \in 1 .. N /\ new[2] = Arrival(u)
        BY <1>12, <4>1
      <4>4. rows'[a] = Arrival(u)
        BY <1>18, <3>1, <4>3
      <4> QED BY <4>2, <4>4
    <3>3. Of(x)' = {x, a}
      BY <1>9, <2>2, <3>2 DEF Of, Leg, Arrival, Row
    <3>4. Arrived(u)'
      BY <2>2, <3>2, <3>3 DEF Arrived, Arrival, Row
    <3> QED BY <1>10, <2>2, <2>4, <3>4 DEF Journey, Leg, Row
  <2> QED BY <2>3, <2>4
<1>28. \A t \in transfers' : Paper(t.id) \notin disturbed =>
           \/ Journey(t)'
           \/ t \in transfers /\ \A n \in Added : rows'[n].id # t.id
  BY <1>9, <1>14, <1>20, <1>21, <1>27
<1>29. UNCHANGED <<active, closedAt>>
  BY <1>14
<1> QED BY <1>2, <1>14, <1>18, <1>22, <1>23, <1>24, <1>25, <1>26, <1>28, <1>29, RowsWritten

LEMMA MirrorOf ==
    ASSUME RowsOK, NEW n \in DOMAIN rows
    PROVE  /\ rows[n] \in RowType /\ n \in Nat \ {0} /\ Mirror(n) \in RowType
           /\ Mirror(n).id = rows[n].id /\ Mirror(n).reverses = n
           /\ Mirror(n).section = rows[n].section
<1>1. rows[n] \in RowType /\ n \in Nat \ {0}
  BY DEF RowsOK
<1>2. PICK r \in RowType : r = rows[n]
  BY <1>1
<1>3. -r.qty \in Int
  BY DEF RowType
<1>4. Mirror(n) = [r EXCEPT !.qty = -r.qty, !.reverses = n]
  BY <1>2 DEF Mirror
<1>5. Mirror(n) = [doc |-> r.doc, id |-> r.id, section |-> r.section, item |-> r.item,
                   qty |-> -r.qty, reverses |-> n]
  BY <1>4 DEF RowType
<1> QED BY <1>1, <1>2, <1>3, <1>5 DEF RowType

\* The rows of a document and their mirrors, whatever their order.
UndoneWhole(id, S) ==
    /\ Of(id)' = Of(id) \cup Added
    /\ \A n \in S : \E k \in Added : rows'[k] = Mirror(n)
    /\ \A k \in Added : \E n \in S : rows'[k] = Mirror(n)
    /\ \A j, k \in Added : rows'[j].reverses = rows'[k].reverses => j = k

LEMMA JourneyUndone ==
    ASSUME RowsOK, NEW N, Grown(N), NEW t, t.id \in DOMAIN rows, t.received \in BOOLEAN,
           Journey(t), NEW S, S = Originals(t.id), \A n \in S : ~IsReversed(n),
           UndoneWhole(t.id, S)
    PROVE  Journey(t)'
<1>1. /\ \A n \in DOMAIN rows : n \in DOMAIN rows' /\ rows'[n] = rows[n]
      /\ Added \subseteq DOMAIN rows' \ DOMAIN rows
      /\ \A n \in DOMAIN rows : Mirror(n)' = Mirror(n)
  <2>1. /\ \A n \in DOMAIN rows : n \in DOMAIN rows' /\ rows'[n] = rows[n]
        /\ Added \subseteq DOMAIN rows' \ DOMAIN rows
    BY DEF Grown, Added
  <2>2. \A n \in DOMAIN rows : Mirror(n)' = Mirror(n)
    BY <2>1 DEF Mirror
  <2> QED BY <2>1, <2>2
<1>2. \A n \in DOMAIN rows : Mirror(n).reverses = n
  BY MirrorOf
<1>3. rows[t.id] = Leg(t) /\ rows'[t.id] = Leg(t) /\ t.id \in S
  <2>1. rows[t.id] = Leg(t)
    BY DEF Journey
  <2>2. rows[t.id].id = t.id /\ rows[t.id].reverses = 0
    BY <2>1 DEF Leg, Row
  <2> QED BY <1>1, <2>1, <2>2 DEF Originals, Of
<1>4. \A m \in DOMAIN rows : ~Undoes(m, t.id)
  BY <1>2, <1>3 DEF Undoes, IsReversed
<1>5. PICK m \in Added : rows'[m] = Mirror(t.id)
  BY <1>3 DEF UndoneWhole
<1>6. Undoes(m, t.id)' /\ m \in DOMAIN rows' /\ m # t.id
  BY <1>1, <1>5 DEF Undoes
<1>7. CASE ~t.received
  <2>1. Of(t.id) = {t.id}
    BY <1>4, <1>7 DEF Journey, OnItsWay
  <2>2. S = {t.id}
    BY <1>3, <2>1 DEF Originals
  <2>3. ASSUME NEW k \in Added PROVE k = m
    <3>1. rows'[k] = Mirror(t.id)
      BY <2>2, <2>3 DEF UndoneWhole
    <3> QED BY <1>5, <2>3, <3>1 DEF UndoneWhole
  <2>4. Of(t.id)' = {t.id, m}
    BY <1>5, <2>1, <2>3 DEF UndoneWhole
  <2> QED BY <1>3, <1>6, <1>7, <2>4 DEF Journey, OnItsWay, Leg, Row
<1>8. CASE t.received
  <2>1. PICK a \in DOMAIN rows : a # t.id /\ rows[a] = Arrival(t) /\ Of(t.id) = {t.id, a}
    BY <1>4, <1>8 DEF Journey, Arrived
  <2>2. S = {t.id, a}
    <3>1. rows[a].reverses = 0
      BY <2>1 DEF Arrival, Row
    <3> QED BY <1>3, <2>1, <3>1 DEF Originals
  <2>3. PICK k \in Added : rows'[k] = Mirror(a)
    BY <2>2 DEF UndoneWhole
  <2>4. /\ Undoes(k, a)' /\ k \in DOMAIN rows' /\ k # a /\ k # t.id /\ m # a /\ k # m
        /\ a \in DOMAIN rows' /\ rows'[a] = Arrival(t)
    BY <1>1, <1>2, <1>5, <2>1, <2>3 DEF Undoes
  <2>5. ASSUME NEW j \in Added PROVE j \in {m, k}
    <3>1. rows'[j] = Mirror(t.id) \/ rows'[j] = Mirror(a)
      BY <2>2, <2>5 DEF UndoneWhole
    <3> QED BY <1>5, <2>3, <2>5, <3>1 DEF UndoneWhole
  <2>6. Of(t.id)' = {t.id, a, m, k}
    BY <1>5, <2>1, <2>3, <2>5 DEF UndoneWhole
  <2>7. Arrived(t)'
    <3>1. m \notin {t.id, a} /\ k \notin {t.id, a, m}
      BY <1>6, <2>4
    <3> QED BY <1>6, <2>1, <2>4, <2>6, <3>1 DEF Arrived, Arrival, Row
  <2> QED BY <1>3, <1>8, <2>7 DEF Journey, Leg, Row
<1> QED BY <1>7, <1>8

LEMMA ReversalWritten ==
    ASSUME RoomsInvariant, NEW w \in Agent, WriteReverse(w)
    PROVE  RoomsInvariant'
<1>1. Writes(w, "reverse")
  BY DEF WriteReverse
<1>2. /\ Out(w) /\ Shape(errand[w]) /\ Knows(errand[w]) /\ errand[w].op = "reverse"
      /\ RowsOK /\ TransfersOK /\ Len(rows) \in Nat /\ DOMAIN rows = 1 .. Len(rows)
  BY <1>1, Writing
<1>3. PICK c : c = errand[w]
  OBVIOUS
<1>4. Reversing(c)
  BY <1>2, <1>3, OneShape
<1>5. PICK id \in DOMAIN rows, S \in SUBSET DOMAIN rows :
        /\ S \subseteq Originals(id)
        /\ c = [pc |-> "write", op |-> "reverse", originals |-> S, checks |-> {Paper(id)},
                changes |-> {Paper(id)} \cup Stock({rows[n].section : n \in S})]
  BY <1>4 DEF Reversing
<1>6. PICK N : N = Cardinality(S)
  OBVIOUS
<1>7. PICK list : list = SetToSeq(S)
  OBVIOUS
<1>8. /\ N \in Nat /\ list \in [1 .. N -> S]
      /\ \A x \in S : \E k \in 1 .. N : list[k] = x
      /\ \A j, k \in 1 .. N : list[j] = list[k] => j = k
  <2>1. IsFiniteSet(S)
    <3>1. IsFiniteSet(1 .. Len(rows))
      BY <1>2, FS_Interval
    <3> QED BY <1>2, <3>1, FS_Subset
  <2>2. /\ Cardinality(S) \in Nat
        /\ SetToSeq(S) \in [1 .. Cardinality(S) -> S]
        /\ \A x \in S : \E k \in 1 .. Cardinality(S) : SetToSeq(S)[k] = x
        /\ \A j, k \in 1 .. Cardinality(S) : SetToSeq(S)[j] = SetToSeq(S)[k] => j = k
    BY <2>1, InAnyOrder
  <2> QED BY <1>6, <1>7, <2>2
<1>9. PICK new : new = [k \in 1 .. N |-> Mirror(list[k])]
  OBVIOUS
<1>10. rows' = rows \o new /\ Conclude(w) /\ UNCHANGED <<transfers, active, others, closedAt>>
  <2>1. c.originals = S
    BY <1>5
  <2>2. /\ rows' = rows \o [n \in 1 .. Cardinality(c.originals) |-> Mirror(SetToSeq(c.originals)[n])]
        /\ Conclude(w) /\ UNCHANGED <<transfers, active, others, closedAt>>
    BY <1>3 DEF WriteReverse
  <2> QED BY <1>6, <1>7, <1>9, <2>1, <2>2
<1>11. \A n \in S : /\ n \in DOMAIN rows /\ n # 0 /\ Mirror(n) \in RowType
                    /\ rows[n].id = id /\ Mirror(n).id = id /\ Mirror(n).reverses = n
                    /\ Mirror(n).section = rows[n].section
  <2> SUFFICES ASSUME NEW n \in S
               PROVE  /\ n \in DOMAIN rows /\ n # 0 /\ Mirror(n) \in RowType
                      /\ rows[n].id = id /\ Mirror(n).id = id /\ Mirror(n).reverses = n
                      /\ Mirror(n).section = rows[n].section
    OBVIOUS
  <2>1. n \in DOMAIN rows /\ rows[n].id = id
    BY <1>5 DEF Originals, Of
  <2> QED BY <1>2, <2>1, MirrorOf
<1>12. \A k \in 1 .. N : list[k] \in S /\ new[k] = Mirror(list[k])
  BY <1>8, <1>9
<1>13. new \in [1 .. N -> RowType]
  BY <1>9, <1>11, <1>12
<1>14. Grown(N) /\ \A k \in 1 .. N : rows'[Len(rows) + k] = new[k]
  <2>1. \A k \in 1 .. N :
          /\ new[k].id <= Len(rows) + 1
          /\ new[k].reverses # 0 =>
                /\ new[k].reverses \in DOMAIN rows
                /\ rows[new[k].reverses].id = new[k].id
                /\ rows[new[k].reverses].section = new[k].section
    BY <1>2, <1>5, <1>11, <1>12
  <2> QED BY <1>2, <1>8, <1>10, <1>13, <2>1, RowsGrow
<1>15. \A n \in Added : \E k \in 1 .. N : n = Len(rows) + k /\ rows'[n] = Mirror(list[k])
  BY <1>12, <1>14, AddedAre DEF Added
<1>16. \A n \in Added : \E o \in S : rows'[n] = Mirror(o)
  BY <1>12, <1>15
<1>17. \A k \in 1 .. N : Len(rows) + k \in Added /\ rows'[Len(rows) + k] = Mirror(list[k])
  BY <1>2, <1>8, <1>12, <1>14 DEF Added, Grown
<1>18. UndoneWhole(id, S)
  <2>1. Of(id)' = Of(id) \cup Added
    BY <1>11, <1>14, <1>16 DEF Of, Added, Grown
  <2>2. \A n \in S : \E k \in Added : rows'[k] = Mirror(n)
    BY <1>8, <1>17
  <2>3. ASSUME NEW j \in Added, NEW k \in Added, rows'[j].reverses = rows'[k].reverses
        PROVE  j = k
    <3>1. PICK x \in 1 .. N : j = Len(rows) + x /\ rows'[j] = Mirror(list[x])
      BY <1>15
    <3>2. PICK y \in 1 .. N : k = Len(rows) + y /\ rows'[k] = Mirror(list[y])
      BY <1>15
    <3>3. rows'[j].reverses = list[x] /\ rows'[k].reverses = list[y]
      BY <1>11, <1>12, <3>1, <3>2
    <3>4. x = y
      BY <1>8, <2>3, <3>3
    <3> QED BY <3>1, <3>2, <3>4
  <2> QED BY <1>16, <2>1, <2>2, <2>3 DEF UndoneWhole
<1>19. /\ TransfersOK' /\ KnownVans
       /\ \A t \in transfers : t \in transfers' /\ \E b \in BOOLEAN : [t EXCEPT !.received = b] \in transfers'
  BY <1>2, <1>10, <1>14, TransfersStay
<1>20. Announced(w)
  <2>1. \A n \in Added : rows'[n].id = id /\ \E o \in S : rows'[n].section = rows[o].section
    BY <1>11, <1>16
  <2>2. \A o \in S : {Past(rows[o].section), Shelf(rows[o].section)} \subseteq errand[w].changes
    BY <1>3, <1>5 DEF Stock
  <2>3. Paper(id) \in errand[w].changes
    BY <1>3, <1>5
  <2> QED BY <1>19, <2>1, <2>2, <2>3 DEF Announced
<1>21. \A n \in Added : rows'[n].reverses # 0 /\ rows'[n].id = id
  BY <1>11, <1>16
<1>22. FreshOpenings
  BY <1>21 DEF FreshOpenings
<1>23. NoNewWork
  BY <1>21 DEF NoNewWork
<1>24. ASSUME NEW t \in transfers, t.id = id, Paper(id) \notin disturbed PROVE Journey(t)'
  <2>1. S = Originals(id) /\ \A n \in S : ~IsReversed(n)
    <3>1. id \in Nat /\ Paper(id) \in c.checks \ disturbed /\ c.originals = S
      BY <1>2, <1>5, <1>24
    <3>2. PaperKnown(c) /\ c.op = "reverse"
      BY <1>2, <1>3 DEF Knows
    <3> QED BY <3>1, <3>2 DEF PaperKnown
  <2>2. Journey(t) /\ t.received \in BOOLEAN
    BY <1>2, <1>24 DEF RoomsInvariant, Journeys, TransfersOK, TransferType
  <2>3. S = Originals(t.id) /\ UndoneWhole(t.id, S) /\ t.id \in DOMAIN rows
    BY <1>18, <1>24, <2>1
  <2> QED BY <1>2, <1>14, <2>1, <2>2, <2>3, JourneyUndone
<1>25. \A t \in transfers' : Paper(t.id) \notin disturbed =>
           \/ Journey(t)'
           \/ t \in transfers /\ \A n \in Added : rows'[n].id # t.id
  BY <1>10, <1>21, <1>24
<1>26. UNCHANGED <<active, closedAt>>
  BY <1>10
<1> QED BY <1>2, <1>10, <1>14, <1>19, <1>20, <1>22, <1>23, <1>25, <1>26, RowsWritten

LEMMA GivenUp ==
    ASSUME RoomsInvariant, NEW w \in Agent, Abandon(w)
    PROVE  RoomsInvariant'
<1>1. /\ Out(w) /\ Conclude(w) /\ UNCHANGED <<rows, transfers, active, closedAt>>
  BY DEF Abandon, Out
<1>2. RowsOK /\ TransfersOK
  BY DEF RoomsInvariant, RoomTypes
<1>3. Grown(0) /\ Added = {}
  BY <1>1, <1>2, RowsStay DEF Added
<1>4. /\ TransfersOK' /\ KnownVans
      /\ \A t \in transfers : t \in transfers' /\ \E b \in BOOLEAN : [t EXCEPT !.received = b] \in transfers'
  BY <1>1, <1>2, <1>3, TransfersStay
<1>5. Announced(w) /\ FreshOpenings /\ NoNewWork
  BY <1>3, <1>4 DEF Announced, FreshOpenings, NoNewWork
<1>6. \A t \in transfers' : t \in transfers /\ \A n \in Added : rows'[n].id # t.id
  BY <1>1, <1>3
<1>7. UNCHANGED <<active, closedAt>>
  BY <1>1
<1> QED BY <1>1, <1>3, <1>4, <1>5, <1>6, <1>7, RowsWritten

LEMMA PatchWritten ==
    ASSUME RoomsInvariant, NEW w \in Agent, WritePatch(w)
    PROVE  RoomsInvariant'
<1>1. Writes(w, "patch")
  BY DEF WritePatch
<1>2. /\ Out(w) /\ Shape(errand[w]) /\ Knows(errand[w]) /\ errand[w].op = "patch"
      /\ RowsOK /\ TransfersOK /\ Len(rows) \in Nat /\ DOMAIN rows = 1 .. Len(rows)
  BY <1>1, Writing
<1>3. PICK c : c = errand[w]
  OBVIOUS
<1>4. Patching(c)
  BY <1>2, <1>3, OneShape
<1>5. PICK s \in Section, on \in BOOLEAN :
        c = [pc |-> "write", op |-> "patch", section |-> s, active |-> on,
             checks |-> {Door(s), Shelf(s)}, changes |-> {Door(s)}]
  BY <1>4 DEF Patching
<1>6. c.section = s /\ (c.active <=> on)
  BY <1>5
<1>7. /\ active' = [active EXCEPT ![s] = on]
      /\ closedAt' = [closedAt EXCEPT ![s] = IF active[s] /\ ~on THEN Len(rows) ELSE closedAt[s]]
      /\ Conclude(w) /\ UNCHANGED <<rows, transfers, others>>
  <2>1. c.active = on
    BY <1>5
  <2>2. /\ active' = [active EXCEPT ![c.section] = c.active]
        /\ closedAt' = [closedAt EXCEPT ![c.section] =
                          IF active[c.section] /\ ~c.active THEN Len(rows) ELSE closedAt[c.section]]
        /\ Conclude(w) /\ UNCHANGED <<rows, transfers, others>>
    BY <1>3 DEF WritePatch
  <2> QED BY <1>6, <2>1, <2>2
<1>8. /\ active \in [Section -> BOOLEAN] /\ closedAt \in [Section -> Nat]
      /\ \A d \in Section : closedAt[d] <= Len(rows)
  BY DEF RoomsInvariant, RoomTypes
<1>9. /\ active' \in [Section -> BOOLEAN] /\ closedAt' \in [Section -> Nat]
      /\ \A d \in Section : closedAt'[d] <= Len(rows')
      /\ \A d \in Section \ {s} : (active'[d] <=> active[d]) /\ closedAt'[d] = closedAt[d]
      /\ (active'[s] <=> on)
      /\ closedAt'[s] = IF active[s] /\ ~on THEN Len(rows) ELSE closedAt[s]
  <2>1. active' \in [Section -> BOOLEAN] /\ closedAt' \in [Section -> Nat]
    BY <1>2, <1>7, <1>8
  <2>2. \A d \in Section \ {s} : active'[d] = active[d] /\ closedAt'[d] = closedAt[d]
    BY <1>7, <1>8
  <2>3. active'[s] = on
    BY <1>7, <1>8
  <2>4. closedAt'[s] = IF active[s] /\ ~on THEN Len(rows) ELSE closedAt[s]
    BY <1>7, <1>8
  <2>5. \A d \in Section : closedAt'[d] <= Len(rows)
    BY <1>2, <1>8, <2>2, <2>4
  <2> QED BY <1>7, <2>1, <2>2, <2>3, <2>4, <2>5
<1>10. Grown(0) /\ Added = {}
  BY <1>2, <1>7, RowsStay DEF Added
<1>11. disturbed' = disturbed /\ errand' = [errand EXCEPT ![w] = NoErrand]
  BY <1>7 DEF Conclude
<1>12. /\ TransfersOK'
       /\ \A t \in transfers : t \in transfers' /\ \E b \in BOOLEAN : [t EXCEPT !.received = b] \in transfers'
  BY <1>2, <1>7, <1>10, TransfersStay
<1>13. ErrandsOK' /\ ErrandsKnow' /\ Undisturbed'
  <2>1. \A n \in Added :
          /\ {Past(rows'[n].section), Shelf(rows'[n].section)} \subseteq errand[w].changes
          /\ rows'[n].id > Len(rows) \/ Paper(rows'[n].id) \in errand[w].changes
    BY <1>10
  <2>2. \A d \in Section : active'[d] # active[d] => Door(d) \in errand[w].changes
    <3> SUFFICES ASSUME NEW d \in Section, active'[d] # active[d]
                 PROVE  Door(d) \in errand[w].changes
      OBVIOUS
    <3>1. d = s
      BY <1>7, <1>8
    <3> QED BY <1>3, <1>5, <3>1
  <2>3. /\ \A t \in transfers : t \notin transfers' => Paper(t.id) \in errand[w].changes
        /\ \A t \in transfers : \E b \in BOOLEAN : [t EXCEPT !.received = b] \in transfers'
    BY <1>12
  <2> QED BY <1>2, <1>10, <1>11, <2>1, <2>2, <2>3, ErrandEnds
<1>14. RoomTypes'
  BY <1>2, <1>7, <1>9, <1>10, <1>12, <1>13 DEF RoomTypes, Grown
<1>15. OpensWithoutPast'
  BY <1>7, <1>11 DEF RoomsInvariant, OpensWithoutPast, In
<1>16. ASSUME NEW d \in Section, ~active'[d], {Door(d), Shelf(d)} \cap disturbed' = {}
       PROVE  /\ d \notin Store
              /\ \A i \in Ware :
                   QtyOf({n \in In(d) : n <= closedAt'[d] /\ rows[n].item = i}) = 0
              /\ \A n \in In(d) :
                   n > closedAt'[d] => rows[n].reverses # 0 \/ rows[n].id <= closedAt'[d]
  <2>1. CASE ~active[d]
    <3>1. closedAt'[d] = closedAt[d]
      BY <1>9, <2>1
    <3> QED BY <1>11, <1>16, <2>1, <3>1 DEF RoomsInvariant, ClosedTakesNoNewWork
  <2>2. CASE active[d]
    <3>1. d = s /\ ~on /\ closedAt'[d] = Len(rows)
      BY <1>9, <1>16, <2>2
    <3>2. s \notin Store /\ ~Holds(s)
      <4>1. PatchKnows(c) /\ c.op = "patch"
        BY <1>2, <1>3 DEF Knows
      <4> QED BY <1>6, <1>11, <1>16, <2>2, <3>1, <4>1 DEF PatchKnows
    <3>3. \A n \in In(d) : n \in Nat /\ n <= Len(rows)
      BY <1>2 DEF In
    <3>4. ASSUME NEW i \in Ware
          PROVE  QtyOf({n \in In(d) : n <= closedAt'[d] /\ rows[n].item = i}) = 0
      <4>1. {n \in In(d) : n <= closedAt'[d] /\ rows[n].item = i} = {n \in In(d) : rows[n].item = i}
        BY <3>1, <3>3
      <4>2. Held(d, i) = 0
        BY <3>1, <3>2 DEF Holds
      <4> QED BY <4>1, <4>2 DEF Held
    <3>5. \A n \in In(d) : ~(n > closedAt'[d])
      BY <1>2, <3>1, <3>3
    <3> QED BY <3>1, <3>2, <3>4, <3>5
  <2> QED BY <2>1, <2>2
<1>17. ClosedTakesNoNewWork'
  <2>1. \A d, n : In(d)' = In(d) /\ rows'[n] = rows[n]
    BY <1>7 DEF In
  <2> QED BY <1>7, <1>16, <2>1 DEF ClosedTakesNoNewWork, QtyOf, In
<1>18. VansLeftBefore'
  <2> SUFFICES ASSUME NEW t \in transfers, ~active'[t.to], Door(t.to) \notin disturbed
               PROVE  t.id <= closedAt'[t.to]
    BY <1>7, <1>11 DEF VansLeftBefore
  <2>1. t.to \in Section /\ t.id \in DOMAIN rows
    BY <1>2 DEF TransfersOK, TransferType
  <2>2. CASE ~active[t.to]
    <3>1. closedAt'[t.to] = closedAt[t.to]
      BY <1>9, <2>1, <2>2
    <3> QED BY <2>2, <3>1 DEF RoomsInvariant, VansLeftBefore
  <2>3. CASE active[t.to]
    <3>1. closedAt'[t.to] = Len(rows)
      BY <1>9, <2>1, <2>3
    <3> QED BY <1>2, <2>1, <3>1
  <2> QED BY <2>2, <2>3
<1>19. Journeys'
  <2> SUFFICES ASSUME NEW t \in transfers, Paper(t.id) \notin disturbed PROVE Journey(t)'
    BY <1>7, <1>11 DEF Journeys
  <2>1. Journey(t) /\ t.id \in DOMAIN rows /\ \A n \in Added : rows'[n].id # t.id
    BY <1>2, <1>10 DEF RoomsInvariant, Journeys, TransfersOK
  <2> QED BY <1>2, <1>10, <2>1, OtherJourney
<1> QED BY <1>13, <1>14, <1>15, <1>17, <1>18, <1>19 DEF RoomsInvariant

LEMMA OtherMoved ==
    ASSUME RoomsInvariant, NEW o \in OtherRows, Moved(o)
    PROVE  RoomsInvariant'
<1>1. o.section \in Section /\ o.item \in Ware /\ o.qty \in Int
  BY RoomsAssumption
<1>2. /\ RowsOK /\ TransfersOK /\ ErrandsOK /\ ErrandsKnow /\ Undisturbed
      /\ Len(rows) \in Nat /\ DOMAIN rows = 1 .. Len(rows)
  BY DEF RoomsInvariant, RoomTypes, RowsOK
<1>3. PICK r : r = Row("other", NextId, o.section, o.item, o.qty)
  OBVIOUS
<1>4. /\ rows' = Append(rows, r) /\ active[o.section]
      /\ UNCHANGED <<transfers, active, errand, closedAt>>
      /\ disturbed \subseteq disturbed'
      /\ \A v \in Agent : Out(v) => Stock({o.section}) \cap errand[v].checks \subseteq disturbed'
  <2>1. /\ rows' = Append(rows, r) /\ active[o.section]
        /\ UNCHANGED <<transfers, active, errand, closedAt>>
    BY <1>3 DEF Moved
  <2>2. disturbed' = disturbed \cup
          UNION {(Stock({o.section}) \cap errand[w].checks) \cup ({Door(o.section)} \cap errand[w].changes)
                   : w \in {u \in Agent : errand[u] # NoErrand}}
    BY DEF Moved
  <2>3. \A v \in Agent : Out(v) => Stock({o.section}) \cap errand[v].checks \subseteq disturbed'
    BY <2>2 DEF Out
  <2> QED BY <2>1, <2>2, <2>3
<1>5. /\ r \in RowType /\ r.id = Len(rows) + 1 /\ r.reverses = 0 /\ r.section = o.section
      /\ r.doc = "other"
  BY <1>1, <1>2, <1>3 DEF Row, RowType, NextId, Doc
<1>6. Grown(1) /\ Added = {Len(rows) + 1} /\ rows'[Len(rows) + 1] = r
  <2>1. r.id <= Len(rows) + 1
    BY <1>2, <1>5
  <2> QED BY <1>2, <1>4, <1>5, <2>1, OneAdded
<1>7. /\ TransfersOK' /\ KnownVans
      /\ \A t \in transfers : t \in transfers' /\ \E b \in BOOLEAN : [t EXCEPT !.received = b] \in transfers'
  BY <1>2, <1>4, <1>6, TransfersStay
<1>8. ASSUME NEW v \in Agent, Out(v) PROVE Spares(errand[v])
  <2>1. {Past(o.section), Shelf(o.section)} \cap errand[v].checks \subseteq disturbed'
    BY <1>4, <1>8 DEF Stock
  <2>2. \A n \in Added :
          /\ {Past(rows'[n].section), Shelf(rows'[n].section)} \cap errand[v].checks \subseteq disturbed'
          /\ rows'[n].id > Len(rows)
    BY <1>2, <1>5, <1>6, <2>1
  <2> QED BY <1>4, <1>7, <2>2 DEF Spares
<1>9. ASSUME NEW v \in Agent, Out(v)' PROVE Shape(errand[v])' /\ Knows(errand[v])'
  <2>1. PICK d : d = errand[v] /\ errand'[v] = d /\ Shape(d) /\ Knows(d) /\ Spares(d)
    BY <1>2, <1>4, <1>8, <1>9 DEF ErrandsOK, ErrandsKnow, Out
  <2>2. Shape(d)' /\ Knows(d)'
    BY <1>2, <1>6, <2>1, ShapeStays, KnowsStill
  <2> QED BY <2>1, <2>2
<1>10. ErrandsOK' /\ ErrandsKnow' /\ Undisturbed'
  <2>1. DOMAIN errand' = Agent
    BY <1>2, <1>4 DEF ErrandsOK
  <2>2. Undisturbed'
    BY <1>2, <1>4 DEF Undisturbed, Out
  <2> QED BY <1>9, <2>1, <2>2 DEF ErrandsOK, ErrandsKnow
<1>11. RoomTypes'
  <2>1. \A d \in Section : closedAt'[d] <= Len(rows')
    BY <1>4, <1>6 DEF RoomsInvariant, RoomTypes, Grown
  <2> QED BY <1>4, <1>6, <1>7, <1>10, <2>1 DEF RoomsInvariant, RoomTypes, Grown
<1>12. OpensWithoutPast'
  <2>1. FreshOpenings
    BY <1>5, <1>6 DEF FreshOpenings
  <2>2. OpensWithoutPast
    BY DEF RoomsInvariant
  <2> QED BY <1>2, <1>4, <1>6, <2>1, <2>2, PastStays DEF FreshOpenings
<1>13. ClosedTakesNoNewWork'
  <2>1. NoNewWork
    BY <1>4, <1>5, <1>6 DEF NoNewWork
  <2>2. /\ ClosedTakesNoNewWork /\ closedAt \in [Section -> Nat]
        /\ \A s \in Section : closedAt[s] <= Len(rows)
    BY DEF RoomsInvariant, RoomTypes
  <2>3. UNCHANGED <<active, closedAt>>
    BY <1>4
  <2> QED BY <1>2, <1>4, <1>6, <2>1, <2>2, <2>3, ClosedStays DEF NoNewWork
<1>14. VansLeftBefore'
  <2>1. VansLeftBefore /\ UNCHANGED <<active, closedAt>>
    BY <1>4 DEF RoomsInvariant
  <2> QED BY <1>4, <1>7, <2>1, VansStay DEF KnownVans
<1>15. Journeys'
  <2> SUFFICES ASSUME NEW t \in transfers, Paper(t.id) \notin disturbed' PROVE Journey(t)'
    BY <1>4 DEF Journeys
  <2>1. Journey(t) /\ t.id \in DOMAIN rows
    BY <1>2, <1>4 DEF RoomsInvariant, Journeys, TransfersOK
  <2>2. \A n \in Added : rows'[n].id # t.id
    BY <1>2, <1>5, <1>6, <2>1
  <2> QED BY <1>2, <1>6, <2>1, <2>2, OtherJourney
<1> QED BY <1>10, <1>11, <1>12, <1>13, <1>14, <1>15 DEF RoomsInvariant

-----------------------------------------------------------------------------
LEMMA RoomsStart == RoomsInit => RoomsInvariant
<1> SUFFICES ASSUME RoomsInit PROVE RoomsInvariant
  OBVIOUS
<1>1. /\ rows = << >> /\ transfers = {} /\ active = [s \in Section |-> TRUE]
      /\ errand = [w \in Agent |-> NoErrand] /\ closedAt = [s \in Section |-> 0] /\ disturbed = {}
  BY DEF RoomsInit
<1>2. rows \in Seq(RowType) /\ DOMAIN rows = {} /\ Len(rows) = 0
  BY <1>1
<1>3. \A w \in Agent : ~Out(w)
  BY <1>1 DEF Out
<1>4. RoomTypes
  <2>1. RowsOK /\ TransfersOK
    BY <1>1, <1>2 DEF RowsOK, TransfersOK
  <2>2. ErrandsOK /\ Undisturbed
    BY <1>1, <1>3 DEF ErrandsOK, Undisturbed
  <2> QED BY <1>1, <1>2, <2>1, <2>2 DEF RoomTypes
<1>5. ErrandsKnow /\ Journeys
  BY <1>1, <1>3 DEF ErrandsKnow, Journeys
<1>6. OpensWithoutPast
  BY <1>2 DEF OpensWithoutPast
<1>7. ClosedTakesNoNewWork /\ VansLeftBefore
  BY <1>1 DEF ClosedTakesNoNewWork, VansLeftBefore
<1> QED BY <1>4, <1>5, <1>6, <1>7 DEF RoomsInvariant

LEMMA RoomsStep == RoomsInvariant /\ [RoomsNext]_roomsVars => RoomsInvariant'
<1> SUFFICES ASSUME RoomsInvariant, [RoomsNext]_roomsVars PROVE RoomsInvariant'
  OBVIOUS
<1>1. ASSUME NEW w \in Agent, NEW s \in Section, NEW i \in Ware, NEW q \in Qty,
             \/ StartWaste(w, s, i, q)
             \/ \E to \in Section : StartTransfer(w, s, to, i, q)
      PROVE  RoomsInvariant'
  BY <1>1, WasteBegins, TransferBegins
<1>2. ASSUME NEW w \in Agent, NEW s \in Section, NEW items \in SUBSET Ware \ {{}}, NEW q \in Qty,
             StartOpening(w, s, items, q)
      PROVE  RoomsInvariant'
  BY <1>2, OpeningBegins
<1>3. ASSUME NEW w \in Agent, NEW t \in transfers, StartReceive(w, t) PROVE RoomsInvariant'
  BY <1>3, ReceiptBegins
<1>4. ASSUME NEW w \in Agent, NEW n \in DOMAIN rows, StartReverse(w, rows[n].id)
      PROVE  RoomsInvariant'
  BY <1>4, ReversalBegins
<1>5. ASSUME NEW w \in Agent, NEW s \in Section, NEW wanted \in {"close", "reopen", "rename"},
             StartPatch(w, s, wanted)
      PROVE  RoomsInvariant'
  BY <1>5, PatchBegins
<1>6. ASSUME NEW w \in Agent,
             \/ WriteWaste(w) \/ WriteTransfer(w) \/ WriteReceive(w)
             \/ LookOpening(w) \/ WriteOpening(w)
             \/ WriteReverse(w) \/ WritePatch(w)
             \/ Abandon(w)
      PROVE  RoomsInvariant'
  BY <1>6, WasteWritten, TransferWritten, ReceiptWritten, OpeningLooks, OpeningWritten,
     ReversalWritten, PatchWritten, GivenUp
<1>7. ASSUME NEW r \in OtherRows, Moved(r) PROVE RoomsInvariant'
  BY <1>7, OtherMoved
<1>8. ASSUME UNCHANGED roomsVars PROVE RoomsInvariant'
  <2>1. UNCHANGED <<rows, transfers, active, errand, closedAt, disturbed>>
    BY <1>8 DEF roomsVars
  <2>2. RowsOK' /\ TransfersOK' /\ Undisturbed'
    BY <2>1 DEF RoomsInvariant, RoomTypes, RowsOK, TransfersOK, Undisturbed, Out
  <2>3. RowsOK /\ TransfersOK /\ Grown(0) /\ Added = {}
    BY <2>1, RowsStay DEF Added, RoomsInvariant, RoomTypes
  <2>4. ASSUME NEW w \in Agent, Out(w)' PROVE Shape(errand[w])' /\ Knows(errand[w])'
    <3>1. PICK c : c = errand[w] /\ errand'[w] = c /\ Shape(c) /\ Knows(c)
      BY <2>1, <2>4 DEF RoomsInvariant, RoomTypes, ErrandsOK, ErrandsKnow, Out
    <3>2. Spares(c)
      <4>1. \A t \in transfers : \E b \in BOOLEAN : [t EXCEPT !.received = b] \in transfers'
        BY <2>1, <2>3, TransfersStay
      <4> QED BY <2>1, <2>3, <4>1 DEF Spares
    <3>3. Shape(c)' /\ Knows(c)'
      BY <2>3, <3>1, <3>2, ShapeStays, KnowsStill
    <3> QED BY <3>1, <3>3
  <2>5. ErrandsOK' /\ ErrandsKnow'
    <3>1. DOMAIN errand' = Agent
      BY <2>1 DEF RoomsInvariant, RoomTypes, ErrandsOK
    <3> QED BY <2>4, <3>1 DEF ErrandsOK, ErrandsKnow
  <2>8. Journeys'
    <3> SUFFICES ASSUME NEW t \in transfers, Paper(t.id) \notin disturbed PROVE Journey(t)'
      BY <2>1 DEF Journeys
    <3>1. Journey(t) /\ t.id \in DOMAIN rows
      BY <2>3 DEF RoomsInvariant, Journeys, TransfersOK
    <3> QED BY <2>3, <3>1, OtherJourney
  <2>6. OpensWithoutPast' /\ ClosedTakesNoNewWork' /\ VansLeftBefore'
    BY <2>1 DEF RoomsInvariant, OpensWithoutPast, ClosedTakesNoNewWork, VansLeftBefore, In, QtyOf
  <2>7. RoomTypes'
    BY <2>1, <2>2, <2>5 DEF RoomsInvariant, RoomTypes
  <2> QED BY <2>5, <2>6, <2>7, <2>8 DEF RoomsInvariant
<1> QED BY <1>1, <1>2, <1>3, <1>4, <1>5, <1>6, <1>7, <1>8 DEF RoomsNext

LEMMA RoomsAlways == RoomsSpec => []RoomsInvariant
BY RoomsStart, RoomsStep, PTL DEF RoomsSpec

\* A section is opened once, with no past but openings undone whole, and one that was
\* closed was empty and takes no new work, whatever else goes on: unless a document
\* gets in between the look and the writing, or two handlers meet at its door.
THEOREM RoomsBeginFreshAndEndEmpty == RoomsSpec => []BeginsFreshEndsEmpty
<1>1. RoomsInvariant => BeginsFreshEndsEmpty
  BY DEF RoomsInvariant, BeginsFreshEndsEmpty
<1> QED BY <1>1, RoomsAlways, PTL

-----------------------------------------------------------------------------
(* What the rows of a transfer come to. *)

\* One row more.
LEMMA QtyOfOneMore ==
    ASSUME RowsOK, NEW S \in SUBSET DOMAIN rows, NEW n \in DOMAIN rows, n \notin S
    PROVE  /\ QtyOf(S) \in Int
           /\ QtyOf(S \cup {n}) = rows[n].qty + QtyOf(S)
<1>1. \A m \in DOMAIN rows : rows[m].qty \in Int
  <2>1. \A m \in DOMAIN rows : rows[m] \in RowType
    BY DEF RowsOK
  <2> QED BY <2>1 DEF RowType
<1>2. IsFiniteSet(DOMAIN rows)
  <2>1. DOMAIN rows = 1 .. Len(rows) /\ Len(rows) \in Nat
    BY DEF RowsOK
  <2> QED BY <2>1, FS_Interval
<1>3. PICK T : T = S \cup {n}
  OBVIOUS
<1>4. T \subseteq DOMAIN rows /\ n \in T /\ T \ {n} = S
  BY <1>3
<1>5. IsFiniteSet(T) /\ IsFiniteSet(S)
  BY <1>2, <1>4, FS_Subset
<1>6. PICK f : f = [m \in T |-> rows[m].qty]
  OBVIOUS
<1>7. f \in [T -> Int]
  BY <1>1, <1>4, <1>6
<1>8. SumFunction(f) = f[n] + SumFunction([m \in T \ {n} |-> f[m]])
  BY <1>4, <1>5, <1>7, SumTake
<1>9. [m \in T \ {n} |-> f[m]] = [m \in S |-> rows[m].qty] /\ f[n] = rows[n].qty
  BY <1>4, <1>6
<1>10. QtyOf(T) = rows[n].qty + QtyOf(S)
  BY <1>6, <1>8, <1>9 DEF QtyOf
<1>11. QtyOf(S) \in Int
  <2>1. PICK g : g = [m \in S |-> rows[m].qty]
    OBVIOUS
  <2>2. g \in [S -> Int]
    BY <1>1, <2>1
  <2> QED BY <1>5, <2>1, <2>2, SumType DEF QtyOf
<1> QED BY <1>3, <1>10, <1>11

LEMMA QtyOfNone == QtyOf({}) = 0
<1>1. [n \in {} |-> rows[n].qty] \in [{} -> Int]
  OBVIOUS
<1> QED BY <1>1, SumEmpty DEF QtyOf

LEMMA QtyOfOne ==
    ASSUME RowsOK, NEW n \in DOMAIN rows
    PROVE  QtyOf({n}) = rows[n].qty
<1>1. {} \in SUBSET DOMAIN rows /\ n \notin {} /\ {} \cup {n} = {n}
  OBVIOUS
<1>2. QtyOf({n}) = rows[n].qty + QtyOf({})
  BY <1>1, QtyOfOneMore
<1>3. rows[n].qty \in Int
  <2>1. rows[n] \in RowType
    BY DEF RowsOK
  <2> QED BY <2>1 DEF RowType
<1> QED BY <1>2, <1>3, QtyOfNone

LEMMA QtyOfTwo ==
    ASSUME RowsOK, NEW n \in DOMAIN rows, NEW m \in DOMAIN rows, n # m
    PROVE  QtyOf({n, m}) = rows[n].qty + rows[m].qty
<1>1. {n} \in SUBSET DOMAIN rows /\ m \notin {n} /\ {n} \cup {m} = {n, m}
  OBVIOUS
<1>2. QtyOf({n, m}) = rows[m].qty + QtyOf({n}) /\ QtyOf({n}) \in Int
  BY <1>1, QtyOfOneMore
<1>3. rows[m].qty \in Int
  <2>1. rows[m] \in RowType
    BY DEF RowsOK
  <2> QED BY <2>1 DEF RowType
<1> QED BY <1>2, <1>3, QtyOfOne

LEMMA MirrorCancels ==
    ASSUME RowsOK, NEW m \in DOMAIN rows, NEW n \in DOMAIN rows, Undoes(m, n)
    PROVE  rows[n].qty + rows[m].qty = 0 /\ rows[m].reverses = n /\ rows[m].reverses # 0
<1>1. rows[n] \in RowType /\ n # 0
  BY DEF RowsOK
<1>2. rows[n].qty \in Int
  BY <1>1 DEF RowType
<1>3. rows[m].reverses = n
  BY MirrorOf DEF Undoes
<1>4. rows[m].qty = -rows[n].qty
  BY <1>1 DEF Undoes, Mirror, RowType
<1> QED BY <1>1, <1>2, <1>3, <1>4

LEMMA JourneyArrives ==
    ASSUME RowsOK, NEW t \in TransferType, t.from # t.to, t.id \in DOMAIN rows, Journey(t)
    PROVE  /\ Cardinality(Arrivals(t)) = IF t.received THEN 1 ELSE 0
           /\ \/ RecalledThenReceived(t)
              \/ QtyOf(Of(t.id)) =
                   IF t.received \/ \E n \in Originals(t.id) : IsReversed(n) THEN 0 ELSE -t.qty
<1>1. /\ rows[t.id] = Leg(t) /\ t.qty \in Int /\ t.received \in BOOLEAN
      /\ (~t.received => OnItsWay(t)) /\ (t.received => Arrived(t))
  BY DEF Journey, TransferType
<1>2. /\ rows[t.id].id = t.id /\ rows[t.id].section = t.from /\ rows[t.id].qty = -t.qty
      /\ rows[t.id].reverses = 0
  BY <1>1 DEF Leg, Row
<1>3. t.id \in Originals(t.id) /\ t.id \notin Arrivals(t)
  BY <1>2 DEF Originals, Of, Arrivals
<1>4. Cardinality({}) = 0 /\ \A a : Cardinality({a}) = 1
  BY FS_EmptySet, FS_Singleton
<1>5. CASE ~t.received
  <2>1. CASE Of(t.id) = {t.id}
    <3>1. Arrivals(t) = {}
      BY <1>3, <2>1 DEF Arrivals, Originals
    <3>2. QtyOf(Of(t.id)) = -t.qty
      BY <1>2, <2>1, QtyOfOne
    <3>3. ~\E n \in Originals(t.id) : IsReversed(n)
      <4> SUFFICES ASSUME NEW n \in Originals(t.id), NEW m \in DOMAIN rows, rows[m].reverses = n
                   PROVE  FALSE
        BY DEF IsReversed
      <4>1. n = t.id
        BY <2>1 DEF Originals
      <4>2. rows[m].id = rows[n].id /\ t.id # 0
        BY <4>1 DEF RowsOK
      <4>3. m \in Of(t.id)
        BY <1>2, <4>1, <4>2 DEF Of
      <4> QED BY <1>2, <2>1, <4>1, <4>2, <4>3
    <3> QED BY <1>4, <1>5, <3>1, <3>2, <3>3
  <2>2. CASE \E m \in DOMAIN rows : m # t.id /\ Of(t.id) = {t.id, m} /\ Undoes(m, t.id)
    <3>1. PICK m \in DOMAIN rows : m # t.id /\ Of(t.id) = {t.id, m} /\ Undoes(m, t.id)
      BY <2>2
    <3>2. rows[t.id].qty + rows[m].qty = 0 /\ rows[m].reverses = t.id /\ rows[m].reverses # 0
      BY <3>1, MirrorCancels
    <3>3. Arrivals(t) = {}
      BY <1>3, <3>1, <3>2 DEF Arrivals, Originals
    <3>4. QtyOf(Of(t.id)) = 0
      BY <3>1, <3>2, QtyOfTwo
    <3>5. \E n \in Originals(t.id) : IsReversed(n)
      BY <1>3, <3>2 DEF IsReversed
    <3> QED BY <1>4, <1>5, <3>3, <3>4, <3>5
  <2> QED BY <1>1, <1>5, <2>1, <2>2 DEF OnItsWay
<1>6. CASE t.received
  <2>1. PICK a \in DOMAIN rows :
          /\ a # t.id /\ rows[a] = Arrival(t)
          /\ \/ Of(t.id) = {t.id, a}
             \/ \E m, k \in DOMAIN rows :
                  /\ m \notin {t.id, a} /\ k \notin {t.id, a, m}
                  /\ Of(t.id) = {t.id, a, m, k} /\ Undoes(m, t.id) /\ Undoes(k, a)
             \/ \E m \in DOMAIN rows :
                  /\ m # t.id /\ m < a
                  /\ Of(t.id) = {t.id, a, m} /\ Undoes(m, t.id)
    BY <1>1, <1>6 DEF Arrived
  <2>2. /\ rows[a].id = t.id /\ rows[a].section = t.to /\ rows[a].qty = t.qty
        /\ rows[a].reverses = 0
    BY <2>1 DEF Arrival, Row
  <2>3. a \in Arrivals(t)
    BY <2>2 DEF Arrivals, Originals, Of
  <2>4. CASE Of(t.id) = {t.id, a}
    <3>1. Arrivals(t) = {a}
      BY <1>3, <2>3, <2>4 DEF Arrivals, Originals
    <3>2. QtyOf(Of(t.id)) = 0
      BY <1>1, <1>2, <2>1, <2>2, <2>4, QtyOfTwo
    <3> QED BY <1>4, <1>6, <3>1, <3>2
  <2>5. CASE \E m, k \in DOMAIN rows :
               /\ m \notin {t.id, a} /\ k \notin {t.id, a, m}
               /\ Of(t.id) = {t.id, a, m, k} /\ Undoes(m, t.id) /\ Undoes(k, a)
    <3>1. PICK m \in DOMAIN rows, k \in DOMAIN rows :
               /\ m \notin {t.id, a} /\ k \notin {t.id, a, m}
               /\ Of(t.id) = {t.id, a, m, k} /\ Undoes(m, t.id) /\ Undoes(k, a)
      BY <2>5
    <3>2. rows[t.id].qty + rows[m].qty = 0 /\ rows[m].reverses # 0
      BY <3>1, MirrorCancels
    <3>3. rows[a].qty + rows[k].qty = 0 /\ rows[k].reverses # 0
      BY <3>1, MirrorCancels
    <3>4. Arrivals(t) = {a}
      BY <1>3, <2>3, <3>1, <3>2, <3>3 DEF Arrivals, Originals
    <3>5. QtyOf({t.id, a}) = 0 /\ QtyOf({t.id, a}) \in Int
      BY <1>1, <1>2, <2>1, <2>2, QtyOfTwo
    <3>6. {t.id, a} \in SUBSET DOMAIN rows /\ {t.id, a, m} \in SUBSET DOMAIN rows
      OBVIOUS
    <3>7. {t.id, a} \cup {m} = {t.id, a, m} /\ {t.id, a, m} \cup {k} = {t.id, a, m, k}
      OBVIOUS
    <3>8. QtyOf({t.id, a, m}) = rows[m].qty + QtyOf({t.id, a})
      BY <3>1, <3>6, <3>7, QtyOfOneMore
    <3>9. QtyOf({t.id, a, m, k}) = rows[k].qty + QtyOf({t.id, a, m})
      BY <3>1, <3>6, <3>7, QtyOfOneMore
    <3>10. rows[m].qty \in Int /\ rows[k].qty \in Int
      <4>1. rows[m] \in RowType /\ rows[k] \in RowType
        BY DEF RowsOK
      <4> QED BY <4>1 DEF RowType
    <3>11. QtyOf(Of(t.id)) = 0
      BY <1>1, <1>2, <2>2, <3>1, <3>2, <3>3, <3>5, <3>8, <3>9, <3>10
    <3> QED BY <1>4, <1>6, <3>4, <3>11
  <2>6. CASE \E m \in DOMAIN rows : /\ m # t.id /\ m < a
                                    /\ Of(t.id) = {t.id, a, m} /\ Undoes(m, t.id)
    <3>1. PICK m \in DOMAIN rows : /\ m # t.id /\ m < a
                                   /\ Of(t.id) = {t.id, a, m} /\ Undoes(m, t.id)
      BY <2>6
    <3>2. rows[m].reverses # 0
      BY <3>1, MirrorCancels
    <3>3. Arrivals(t) = {a}
      BY <1>3, <2>3, <3>1, <3>2 DEF Arrivals, Originals
    <3>4. RecalledThenReceived(t)
      BY <2>3, <3>1, <3>2 DEF RecalledThenReceived
    <3> QED BY <1>4, <1>6, <3>3, <3>4
  <2> QED BY <2>1, <2>4, <2>5, <2>6
<1> QED BY <1>1, <1>5, <1>6

\* What is sent off arrives once and whole, or is undone: however many agents send,
\* receive and reverse, unless two of them meet over one transfer or it is reversed
\* while it is under way and received all the same.
THEOREM TransfersArrive == RoomsSpec => []WhatLeftArrives
<1>1. RoomsInvariant => WhatLeftArrives
  <2> SUFFICES ASSUME RoomsInvariant, NEW t \in transfers, Paper(t.id) \notin disturbed
               PROVE  /\ Cardinality(Arrivals(t)) = IF t.received THEN 1 ELSE 0
                      /\ \/ RecalledThenReceived(t)
                         \/ QtyOf(Of(t.id)) =
                              IF t.received \/ \E n \in Originals(t.id) : IsReversed(n)
                                THEN 0 ELSE -t.qty
    BY DEF WhatLeftArrives
  <2>1. /\ RowsOK /\ t \in TransferType /\ t.from # t.to /\ t.id \in DOMAIN rows /\ Journey(t)
    BY DEF RoomsInvariant, RoomTypes, TransfersOK, Journeys
  <2> QED BY <2>1, JourneyArrives
<1> QED BY <1>1, RoomsAlways, PTL

-----------------------------------------------------------------------------
(* Counts. *)

Busy(w) == call[w].pc # "idle"
OpeningOne(w) == Busy(w) /\ call[w].op = "open"

\* A handler works on a count in the state it found it in, or a later one; an
\* opening has its count to itself.
HandlersKnow ==
    /\ DOMAIN count = Count /\ DOMAIN call = Worker
    /\ \A w \in Worker : Busy(w) =>
        /\ call[w].count \in Count
        /\ call[w].pc = "lines" => call[w].op = "close"
        /\ call[w].op = "open" =>
              /\ count[call[w].count].status = "none"
              /\ \A v \in Worker \ {w} : Busy(v) => call[v].count # call[w].count
        /\ call[w].op # "open" => count[call[w].count].status # "none"
        /\ call[w].op = "verify" =>
              /\ count[call[w].count].status = "closed"
              /\ count[call[w].count].countedBy # call[w].user

VerifyInvariant == HandlersKnow /\ VerifiedByAnother

\* A step that writes no count and ends or leaves alone every handler.
LEMMA EndKeepsVerify ==
    ASSUME VerifyInvariant, UNCHANGED count,
           \/ UNCHANGED call
           \/ \E w \in Worker : call' = [call EXCEPT ![w] = Idle]
    PROVE  VerifyInvariant'
<1>1. VerifiedByAnother'
  BY DEF VerifyInvariant, VerifiedByAnother
<1>2. HandlersKnow'
  BY DEF VerifyInvariant, HandlersKnow, Busy, Idle
<1> QED BY <1>1, <1>2 DEF VerifyInvariant

\* A handler starts, on a count it has just looked at.
LEMMA StartKeepsVerify ==
    ASSUME VerifyInvariant, NEW w \in Worker, NEW c, Start(w, c), UNCHANGED count,
           c.pc # "idle", c.count \in Count, c.pc = "lines" => c.op = "close",
           c.op = "open" =>
               /\ count[c.count].status = "none"
               /\ \A v \in Worker : call[v] # Idle => call[v].count # c.count,
           c.op # "open" => count[c.count].status # "none",
           c.op = "verify" =>
               count[c.count].status = "closed" /\ count[c.count].countedBy # c.user
    PROVE  VerifyInvariant'
<1>1. VerifiedByAnother'
  BY DEF VerifyInvariant, VerifiedByAnother
<1>2. call' = [call EXCEPT ![w] = c] /\ call[w] = Idle
  BY DEF Start
<1>3. \A v \in Worker : Busy(v) => call[v] # Idle
  BY DEF Busy, Idle
<1>4. HandlersKnow'
  BY <1>2, <1>3 DEF VerifyInvariant, HandlersKnow, Busy
<1> QED BY <1>1, <1>4 DEF VerifyInvariant

LEMMA StartOpenKeepsVerify ==
    ASSUME VerifyInvariant, NEW w \in Worker, NEW u \in User, NEW c \in Count, NEW kind \in Kind,
           StartOpen(w, u, c, kind)
    PROVE  VerifyInvariant'
<1> DEFINE o == [pc |-> "write", op |-> "open", count |-> c, user |-> u, kind |-> kind, day |-> day]
<1>1. /\ Start(w, o) /\ UNCHANGED count /\ count[c].status = "none"
      /\ \A v \in Worker : call[v] # Idle => call[v].count # c
  BY DEF StartOpen
<1>2. o.pc = "write" /\ o.op = "open" /\ o.count = c
  OBVIOUS
<1> HIDE DEF o
<1> QED BY <1>1, <1>2, StartKeepsVerify

LEMMA StartSaveKeepsVerify ==
    ASSUME VerifyInvariant, NEW w \in Worker, NEW c \in Count, NEW batch, NEW cleared,
           StartSave(w, c, batch, cleared)
    PROVE  VerifyInvariant'
<1> DEFINE s == [pc |-> "write", op |-> "save", count |-> c,
                 figures |-> [i \in batch |-> IF i \in cleared THEN Uncounted ELSE shelf[i]],
                 seen |-> [i \in batch |-> Mark(i)]]
<1>1. Start(w, s) /\ UNCHANGED count /\ count[c].status = "open"
  BY DEF StartSave
<1>2. s.pc = "write" /\ s.op = "save" /\ s.count = c
  OBVIOUS
<1> HIDE DEF s
<1> QED BY <1>1, <1>2, StartKeepsVerify

LEMMA StartCloseKeepsVerify ==
    ASSUME VerifyInvariant, NEW w \in Worker, NEW c \in Count, StartClose(w, c)
    PROVE  VerifyInvariant'
<1> DEFINE k == [pc |-> "lines", op |-> "close", count |-> c]
<1>1. Start(w, k) /\ UNCHANGED count /\ count[c].status = "open"
  BY DEF StartClose
<1>2. k.pc = "lines" /\ k.op = "close" /\ k.count = c
  OBVIOUS
<1> HIDE DEF k
<1> QED BY <1>1, <1>2, StartKeepsVerify

LEMMA StartVerifyKeepsVerify ==
    ASSUME VerifyInvariant, NEW w \in Worker, NEW u \in User, NEW c \in Count, StartVerify(w, u, c)
    PROVE  VerifyInvariant'
<1> DEFINE v == [pc |-> "write", op |-> "verify", count |-> c, user |-> u]
<1>1. /\ Start(w, v) /\ UNCHANGED count
      /\ count[c].status = "closed" /\ count[c].countedBy # u
  BY DEF StartVerify, MayVerify
<1>2. v.pc = "write" /\ v.op = "verify" /\ v.count = c /\ v.user = u
  OBVIOUS
<1> HIDE DEF v
<1> QED BY <1>1, <1>2, StartKeepsVerify

LEMMA WriteOpenKeepsVerify ==
    ASSUME VerifyInvariant, NEW w \in Worker, WriteOpen(w)
    PROVE  VerifyInvariant'
<1> DEFINE o == call[w]
<1>1. PICK lines : count' = [count EXCEPT ![o.count] =
                      [status |-> "open", kind |-> o.kind, day |-> o.day,
                       countedBy |-> o.user, verifiedBy |-> Nobody, lines |-> lines]]
  BY DEF WriteOpen
<1>2. call' = [call EXCEPT ![w] = Idle] /\ o.pc = "write" /\ o.op = "open"
  BY DEF WriteOpen, Finish
<1>3. /\ o.count \in Count /\ Busy(w) /\ count[o.count].status = "none"
      /\ \A v \in Worker \ {w} : Busy(v) => call[v].count # o.count
  BY <1>2 DEF VerifyInvariant, HandlersKnow, Busy
<1>4. /\ count'[o.count].verifiedBy = Nobody /\ count'[o.count].status = "open"
      /\ \A c \in Count \ {o.count} : count'[c] = count[c]
      /\ DOMAIN count' = Count
  BY <1>1, <1>3 DEF VerifyInvariant, HandlersKnow
<1>5. VerifiedByAnother'
  BY <1>4 DEF VerifyInvariant, VerifiedByAnother
<1>6. HandlersKnow'
  BY <1>2, <1>3, <1>4 DEF VerifyInvariant, HandlersKnow, Busy, Idle
<1> QED BY <1>5, <1>6 DEF VerifyInvariant

\* A write that leaves alone who opened the count and who verified it.
LEMMA WriteKeepsVerify ==
    ASSUME VerifyInvariant, NEW w \in Worker, call' = [call EXCEPT ![w] = Idle],
           DOMAIN count' = Count,
           \A c \in Count :
               /\ count'[c].countedBy = count[c].countedBy
               /\ count'[c].verifiedBy = count[c].verifiedBy
               /\ count'[c].status \in {count[c].status, "closed"}
               /\ count[c].status = "none" => count'[c].status = "none"
    PROVE  VerifyInvariant'
<1>1. VerifiedByAnother'
  BY DEF VerifyInvariant, VerifiedByAnother
<1>2. HandlersKnow'
  BY DEF VerifyInvariant, HandlersKnow, Busy, Idle
<1> QED BY <1>1, <1>2 DEF VerifyInvariant

LEMMA WriteSaveKeepsVerify ==
    ASSUME VerifyInvariant, NEW w \in Worker, WriteSave(w)
    PROVE  VerifyInvariant'
<1>1. PICK lines : count' = [count EXCEPT ![call[w].count].lines = lines]
  BY DEF WriteSave
<1>2. call' = [call EXCEPT ![w] = Idle]
  BY DEF WriteSave, Finish
<1>3. DOMAIN count = Count
  BY DEF VerifyInvariant, HandlersKnow
<1>4. DOMAIN count' = Count
  BY <1>1, <1>3
<1>5. \A c \in Count :
        /\ count'[c].countedBy = count[c].countedBy
        /\ count'[c].verifiedBy = count[c].verifiedBy
        /\ count'[c].status = count[c].status
  BY <1>1, <1>3
<1> QED BY <1>2, <1>4, <1>5, WriteKeepsVerify

LEMMA WriteCloseKeepsVerify ==
    ASSUME VerifyInvariant, NEW w \in Worker, WriteClose(w)
    PROVE  VerifyInvariant'
<1>1. /\ count' = [count EXCEPT ![call[w].count].status = "closed"]
      /\ call' = [call EXCEPT ![w] = Idle]
      /\ call[w].pc = "write" /\ call[w].op = "close"
  BY DEF WriteClose, Finish
<1>2. DOMAIN count = Count /\ count[call[w].count].status # "none"
  BY <1>1 DEF VerifyInvariant, HandlersKnow, Busy
<1>3. DOMAIN count' = Count
  BY <1>1, <1>2
<1>4. \A c \in Count :
        /\ count'[c].countedBy = count[c].countedBy
        /\ count'[c].verifiedBy = count[c].verifiedBy
        /\ count'[c].status = IF c = call[w].count THEN "closed" ELSE count[c].status
  BY <1>1, <1>2
<1> QED BY <1>1, <1>2, <1>3, <1>4, WriteKeepsVerify

LEMMA WriteVerifyKeepsVerify ==
    ASSUME VerifyInvariant, NEW w \in Worker, WriteVerify(w)
    PROVE  VerifyInvariant'
<1>1. /\ count' = [count EXCEPT ![call[w].count].verifiedBy = call[w].user]
      /\ call' = [call EXCEPT ![w] = Idle]
      /\ call[w].pc = "write" /\ call[w].op = "verify"
  BY DEF WriteVerify, Finish
<1>2. /\ DOMAIN count = Count
      /\ count[call[w].count].status = "closed"
      /\ count[call[w].count].countedBy # call[w].user
  BY <1>1 DEF VerifyInvariant, HandlersKnow, Busy
<1>3. DOMAIN count' = Count
  BY <1>1, <1>2
<1>4. \A c \in Count :
        /\ count'[c].countedBy = count[c].countedBy
        /\ count'[c].status = count[c].status
        /\ count'[c].verifiedBy = IF c = call[w].count THEN call[w].user ELSE count[c].verifiedBy
  BY <1>1, <1>2
<1>5. VerifiedByAnother'
  BY <1>2, <1>4 DEF VerifyInvariant, VerifiedByAnother
<1>6. HandlersKnow'
  BY <1>1, <1>3, <1>4 DEF VerifyInvariant, HandlersKnow, Busy, Idle
<1> QED BY <1>5, <1>6 DEF VerifyInvariant

LEMMA ReadLinesKeepsVerify ==
    ASSUME VerifyInvariant, NEW w \in Worker, ReadLines(w)
    PROVE  VerifyInvariant'
<1>1. PICK lines : call' = [call EXCEPT ![w] = [pc |-> "write", op |-> "close",
                                                count |-> call[w].count, lines |-> lines]]
  BY DEF ReadLines
<1>2. UNCHANGED count /\ call[w].pc = "lines"
  BY DEF ReadLines
<1>3. VerifiedByAnother'
  BY <1>2 DEF VerifyInvariant, VerifiedByAnother
<1>4. HandlersKnow'
  BY <1>1, <1>2 DEF VerifyInvariant, HandlersKnow, Busy
<1> QED BY <1>3, <1>4 DEF VerifyInvariant

LEMMA VerifyStep == VerifyInvariant /\ [Next]_vars => VerifyInvariant'
<1> SUFFICES ASSUME VerifyInvariant, [Next]_vars PROVE VerifyInvariant'
  OBVIOUS
<1>1. ASSUME NEW w \in Worker, Drop(w) PROVE VerifyInvariant'
  BY <1>1, EndKeepsVerify DEF Drop, Finish
<1>2. CASE UNCHANGED <<count, call>>
  BY <1>2, EndKeepsVerify
<1>3. /\ \A i, q : Move(i, q) => UNCHANGED <<count, call>>
      /\ \A i : Lose(i) => UNCHANGED <<count, call>>
      /\ NextDay => UNCHANGED <<count, call>>
      /\ UNCHANGED vars => UNCHANGED <<count, call>>
  BY DEF Move, Lose, NextDay, vars
<1> QED BY <1>1, <1>2, <1>3, StartOpenKeepsVerify, StartSaveKeepsVerify, StartCloseKeepsVerify,
           StartVerifyKeepsVerify, WriteOpenKeepsVerify, WriteSaveKeepsVerify, ReadLinesKeepsVerify,
           WriteCloseKeepsVerify, WriteVerifyKeepsVerify DEF Next

\* The second pair of eyes (FR-CNT-07): a count is verified only once it is closed and
\* never by the person who opened it, although verifyCount looks at both before its
\* transaction and never in it.
THEOREM SecondPairOfEyes == Spec => []VerifiedByAnother
<1>1. Init => VerifyInvariant
  BY DEF Init, VerifyInvariant, VerifiedByAnother, HandlersKnow, Busy, Idle, NoCount
<1>2. VerifyInvariant => VerifiedByAnother
  BY DEF VerifyInvariant
<1> QED BY <1>1, <1>2, VerifyStep, PTL DEF Spec

-----------------------------------------------------------------------------
\* Opens that are under way together have their pair in overlaps, and so have an
\* open under way and the open count it did not see.
OpensKnow ==
    /\ \A v, w \in Worker :
        v # w /\ OpeningOne(v) /\ OpeningOne(w) => {call[v].count, call[w].count} \in overlaps
    /\ \A w \in Worker, c \in Count :
        (/\ OpeningOne(w) /\ count[c].status = "open"
         /\ count[c].kind = call[w].kind /\ count[c].day = call[w].day)
        => {c, call[w].count} \in overlaps

OpenInvariant == VerifyInvariant /\ OpensKnow /\ OneOpenPerKind

\* A step that opens no count and starts no open.
LEMMA OtherKeepsOpen ==
    ASSUME OpenInvariant, VerifyInvariant', overlaps \subseteq overlaps',
           \A c \in Count : count'[c].status = "open" =>
               /\ count[c].status = "open"
               /\ count'[c].kind = count[c].kind /\ count'[c].day = count[c].day,
           \A w \in Worker : OpeningOne(w)' => OpeningOne(w) /\ call'[w] = call[w]
    PROVE  OpenInvariant'
<1>1. OneOpenPerKind'
  BY DEF OpenInvariant, OneOpenPerKind
<1>2. OpensKnow'
  BY DEF OpenInvariant, OpensKnow
<1> QED BY <1>1, <1>2 DEF OpenInvariant

LEMMA StartOpenKeepsOpen ==
    ASSUME OpenInvariant, VerifyInvariant',
           NEW w \in Worker, NEW u \in User, NEW c \in Count, NEW kind \in Kind,
           StartOpen(w, u, c, kind)
    PROVE  OpenInvariant'
<1> DEFINE o == [pc |-> "write", op |-> "open", count |-> c, user |-> u, kind |-> kind, day |-> day]
<1>1. /\ Start(w, o) /\ UNCHANGED count /\ NoneOpen(kind)
  BY DEF StartOpen
<1>2. o.op = "open" /\ o.count = c /\ o.kind = kind /\ o.day = day
  OBVIOUS
<1> HIDE DEF o
<1>3. /\ call' = [call EXCEPT ![w] = o]
      /\ overlaps' = overlaps \cup {{o.count, call[v].count} : v \in Rivals(o)}
  BY <1>1 DEF Start
<1>4. DOMAIN call = Worker
  BY DEF OpenInvariant, VerifyInvariant, HandlersKnow
<1>5. call'[w] = o /\ \A v \in Worker \ {w} : call'[v] = call[v]
  BY <1>3, <1>4
<1>6. \A v \in Worker \ {w} : OpeningOne(v) => {c, call[v].count} \in overlaps'
  BY <1>2, <1>3 DEF OpeningOne, Busy, Rivals, Idle
<1>7. OneOpenPerKind'
  BY <1>1, <1>3 DEF OpenInvariant, OneOpenPerKind
<1>8. ASSUME NEW v \in Worker, NEW x \in Worker, v # x, OpeningOne(v)', OpeningOne(x)'
      PROVE  {call'[v].count, call'[x].count} \in overlaps'
  <2>1. CASE v = w
    <3>1. x # w /\ OpeningOne(x)
      BY <2>1, <1>5, <1>8 DEF OpeningOne, Busy
    <3> QED BY <2>1, <3>1, <1>2, <1>5, <1>6
  <2>2. CASE x = w
    <3>1. v # w /\ OpeningOne(v)
      BY <2>2, <1>5, <1>8 DEF OpeningOne, Busy
    <3>2. {call'[x].count, call'[v].count} \in overlaps'
      BY <2>2, <3>1, <1>2, <1>5, <1>6
    <3>3. {call'[x].count, call'[v].count} = {call'[v].count, call'[x].count}
      OBVIOUS
    <3> QED BY <3>2, <3>3
  <2>3. CASE v # w /\ x # w
    <3>1. OpeningOne(v) /\ OpeningOne(x) /\ call'[v] = call[v] /\ call'[x] = call[x]
      BY <2>3, <1>5, <1>8 DEF OpeningOne, Busy
    <3> QED BY <3>1, <1>3, <1>8 DEF OpenInvariant, OpensKnow
  <2> QED BY <2>1, <2>2, <2>3
<1>9. ASSUME NEW v \in Worker, NEW d \in Count, OpeningOne(v)', count'[d].status = "open",
             count'[d].kind = call'[v].kind, count'[d].day = call'[v].day
      PROVE  {d, call'[v].count} \in overlaps'
  <2>1. CASE v = w
    BY <2>1, <1>1, <1>2, <1>5, <1>9 DEF NoneOpen
  <2>2. CASE v # w
    <3>1. OpeningOne(v) /\ call'[v] = call[v]
      BY <2>2, <1>5, <1>9 DEF OpeningOne, Busy
    <3> QED BY <3>1, <1>1, <1>3, <1>9 DEF OpenInvariant, OpensKnow
  <2> QED BY <2>1, <2>2
<1>10. OpensKnow'
  BY <1>8, <1>9 DEF OpensKnow
<1> QED BY <1>7, <1>10 DEF OpenInvariant

LEMMA WriteOpenKeepsOpen ==
    ASSUME OpenInvariant, VerifyInvariant', NEW w \in Worker, WriteOpen(w)
    PROVE  OpenInvariant'
<1> DEFINE o == call[w]
<1>1. PICK lines : count' = [count EXCEPT ![o.count] =
                      [status |-> "open", kind |-> o.kind, day |-> o.day,
                       countedBy |-> o.user, verifiedBy |-> Nobody, lines |-> lines]]
  BY DEF WriteOpen
<1>2. /\ call' = [call EXCEPT ![w] = Idle] /\ UNCHANGED overlaps
      /\ o.pc = "write" /\ o.op = "open"
  BY DEF WriteOpen, Finish
<1>3. o.count \in Count /\ OpeningOne(w) /\ DOMAIN count = Count /\ DOMAIN call = Worker
  BY <1>2 DEF OpenInvariant, VerifyInvariant, HandlersKnow, OpeningOne, Busy
<1>4. /\ count'[o.count].kind = o.kind /\ count'[o.count].day = o.day
      /\ \A c \in Count \ {o.count} : count'[c] = count[c]
  BY <1>1, <1>3
<1>5. \A v \in Worker : OpeningOne(v)' => v # w /\ OpeningOne(v) /\ call'[v] = call[v]
  BY <1>2, <1>3 DEF OpeningOne, Busy, Idle
<1>6. \A c \in Count \ {o.count} :
        (count[c].status = "open" /\ count[c].kind = o.kind /\ count[c].day = o.day)
        => {c, o.count} \in overlaps
  BY <1>3 DEF OpenInvariant, OpensKnow
<1>7. OneOpenPerKind'
  <2> SUFFICES ASSUME NEW c \in Count, NEW d \in Count, c # d,
                      count'[c].status = "open", count'[d].status = "open",
                      count'[c].kind = count'[d].kind, count'[c].day = count'[d].day
               PROVE  {c, d} \in overlaps
    BY <1>2 DEF OneOpenPerKind
  <2>1. CASE d = o.count
    BY <2>1, <1>4, <1>6
  <2>2. CASE c = o.count
    <3>1. {d, c} \in overlaps
      BY <2>2, <1>4, <1>6
    <3>2. {d, c} = {c, d}
      OBVIOUS
    <3> QED BY <3>1, <3>2
  <2>3. CASE c # o.count /\ d # o.count
    BY <2>3, <1>4 DEF OpenInvariant, OneOpenPerKind
  <2> QED BY <2>1, <2>2, <2>3
<1>8. OpensKnow'
  <2>1. ASSUME NEW v \in Worker, NEW x \in Worker, v # x, OpeningOne(v)', OpeningOne(x)'
        PROVE  {call'[v].count, call'[x].count} \in overlaps'
    BY <2>1, <1>2, <1>5 DEF OpenInvariant, OpensKnow
  <2>2. ASSUME NEW v \in Worker, NEW d \in Count, OpeningOne(v)', count'[d].status = "open",
               count'[d].kind = call'[v].kind, count'[d].day = call'[v].day
        PROVE  {d, call'[v].count} \in overlaps'
    <3>1. v # w /\ OpeningOne(v) /\ call'[v] = call[v]
      BY <2>2, <1>5
    <3>2. CASE d = o.count
      BY <3>1, <3>2, <1>2, <1>3 DEF OpenInvariant, OpensKnow
    <3>3. CASE d # o.count
      BY <3>1, <3>3, <2>2, <1>2, <1>4 DEF OpenInvariant, OpensKnow
    <3> QED BY <3>2, <3>3
  <2> QED BY <2>1, <2>2 DEF OpensKnow
<1> QED BY <1>7, <1>8 DEF OpenInvariant

\* What the other steps have in common: a worker that goes idle or takes up
\* something else than an open, and counts that open nowhere.
LEMMA HandlersKeepOpen ==
    ASSUME OpenInvariant, VerifyInvariant', NEW w \in Worker, overlaps \subseteq overlaps',
           NEW c, call' = [call EXCEPT ![w] = c], c = Idle \/ c.op # "open",
           \A d \in Count : count'[d].status = "open" =>
               /\ count[d].status = "open"
               /\ count'[d].kind = count[d].kind /\ count'[d].day = count[d].day
    PROVE  OpenInvariant'
<1>1. DOMAIN call = Worker
  BY DEF OpenInvariant, VerifyInvariant, HandlersKnow
<1>2. \A v \in Worker : OpeningOne(v)' => OpeningOne(v) /\ call'[v] = call[v]
  BY <1>1 DEF OpeningOne, Busy, Idle
<1> QED BY <1>2, OtherKeepsOpen

LEMMA StartsKeepOpen ==
    ASSUME OpenInvariant, VerifyInvariant', NEW w \in Worker, NEW c, Start(w, c),
           c.op # "open", UNCHANGED count
    PROVE  OpenInvariant'
BY HandlersKeepOpen DEF Start

LEMMA WritesKeepOpen ==
    ASSUME OpenInvariant, VerifyInvariant', NEW w \in Worker, Finish(w),
           NEW d, NEW field \in {"status", "verifiedBy", "lines"}, NEW value,
           field = "status" => value = "closed",
           count' = [count EXCEPT ![d] = [@ EXCEPT ![field] = value]]
    PROVE  OpenInvariant'
<1>1. call' = [call EXCEPT ![w] = Idle] /\ overlaps \subseteq overlaps'
  BY DEF Finish
<1>2. DOMAIN count = Count
  BY DEF OpenInvariant, VerifyInvariant, HandlersKnow
<1>3. \A c \in Count : count'[c].status = "open" =>
        /\ count[c].status = "open"
        /\ count'[c].kind = count[c].kind /\ count'[c].day = count[c].day
  BY <1>2
<1> QED BY <1>1, <1>3, HandlersKeepOpen

LEMMA OpenStep == OpenInvariant /\ [Next]_vars => OpenInvariant'
<1> SUFFICES ASSUME OpenInvariant, [Next]_vars PROVE OpenInvariant'
  OBVIOUS
<1>1. VerifyInvariant'
  BY VerifyStep DEF OpenInvariant
<1>2. ASSUME NEW w \in Worker, NEW c \in Count, NEW u \in User, StartVerify(w, u, c)
      PROVE  OpenInvariant'
  BY <1>1, <1>2, StartsKeepOpen DEF StartVerify
<1>3. ASSUME NEW w \in Worker, NEW c \in Count, NEW batch, NEW cleared,
             StartSave(w, c, batch, cleared)
      PROVE  OpenInvariant'
  <2> DEFINE s == [pc |-> "write", op |-> "save", count |-> c,
                   figures |-> [i \in batch |-> IF i \in cleared THEN Uncounted ELSE shelf[i]],
                   seen |-> [i \in batch |-> Mark(i)]]
  <2>1. Start(w, s) /\ UNCHANGED count
    BY <1>3 DEF StartSave
  <2>2. s.op # "open"
    OBVIOUS
  <2> HIDE DEF s
  <2> QED BY <1>1, <2>1, <2>2, StartsKeepOpen
<1>4. ASSUME NEW w \in Worker, NEW c \in Count, StartClose(w, c)
      PROVE  OpenInvariant'
  BY <1>1, <1>4, StartsKeepOpen DEF StartClose
<1>5. ASSUME NEW w \in Worker, WriteSave(w) PROVE OpenInvariant'
  <2>1. PICK lines : count' = [count EXCEPT ![call[w].count].lines = lines]
    BY <1>5 DEF WriteSave
  <2>2. Finish(w)
    BY <1>5 DEF WriteSave
  <2> QED BY <1>1, <2>1, <2>2, WritesKeepOpen
<1>6. ASSUME NEW w \in Worker, WriteClose(w) PROVE OpenInvariant'
  BY <1>1, <1>6, WritesKeepOpen DEF WriteClose
<1>7. ASSUME NEW w \in Worker, WriteVerify(w) PROVE OpenInvariant'
  BY <1>1, <1>7, WritesKeepOpen DEF WriteVerify
<1>8. ASSUME NEW w \in Worker, ReadLines(w) PROVE OpenInvariant'
  <2>1. PICK lines : call' = [call EXCEPT ![w] = [pc |-> "write", op |-> "close",
                                                  count |-> call[w].count, lines |-> lines]]
    BY <1>8 DEF ReadLines
  <2> DEFINE k == [pc |-> "write", op |-> "close", count |-> call[w].count, lines |-> lines]
  <2>2. k.op # "open" /\ call' = [call EXCEPT ![w] = k]
    BY <2>1
  <2>3. UNCHANGED <<count, overlaps>>
    BY <1>8 DEF ReadLines
  <2> HIDE DEF k
  <2> QED BY <1>1, <2>2, <2>3, HandlersKeepOpen
<1>9. ASSUME NEW w \in Worker, Drop(w) PROVE OpenInvariant'
  <2>1. call' = [call EXCEPT ![w] = Idle] /\ UNCHANGED <<count, overlaps>>
    BY <1>9 DEF Drop, Finish
  <2> QED BY <1>1, <2>1, HandlersKeepOpen
<1>10. CASE UNCHANGED <<count, call, overlaps>>
  BY <1>1, <1>10, OtherKeepsOpen DEF OpeningOne, Busy
<1>11. /\ \A i, q : Move(i, q) => UNCHANGED <<count, call, overlaps>>
       /\ \A i : Lose(i) => UNCHANGED <<count, call, overlaps>>
       /\ NextDay => UNCHANGED <<count, call, overlaps>>
       /\ UNCHANGED vars => UNCHANGED <<count, call, overlaps>>
  BY DEF Move, Lose, NextDay, vars
<1> QED BY <1>1, <1>2, <1>3, <1>4, <1>5, <1>6, <1>7, <1>8, <1>9, <1>10, <1>11,
           StartOpenKeepsOpen, WriteOpenKeepsOpen DEF Next

\* One open count of a type on a day: two can only be open when their
\* opens were under way together, whatever else the handlers do meanwhile, since
\* openCount looks for the open one before its transaction and nothing in the
\* database keeps a second out.
THEOREM OneOpenUnlessTogether == Spec => []OneOpenPerKind
<1>1. Init => VerifyInvariant
  BY DEF Init, VerifyInvariant, VerifiedByAnother, HandlersKnow, Busy, Idle, NoCount
<1>2. Init => OpensKnow /\ OneOpenPerKind
  BY DEF Init, OpensKnow, OneOpenPerKind, OpeningOne, Busy, Idle, NoCount
<1>3. OpenInvariant => OneOpenPerKind
  BY DEF OpenInvariant
<1>4. Init => OpenInvariant
  BY <1>1, <1>2 DEF OpenInvariant
<1> QED BY <1>3, <1>4, OpenStep, PTL DEF Spec

-----------------------------------------------------------------------------
(* What a count finds. *)

\* How often counts have adjusted an item.
AdjustedOf(i) == Cardinality({d \in adjustments : i \in DOMAIN d.lines})

\* How far the ledger is from what it would be had nobody lost anything: only a
\* count changes it.
Gap(i) == Expected(i) - shelf[i] - lost[i]

MarkType == [moves : Nat, lost : Nat, adjusted : Nat]
LineType == [expected : Int, counted : Int, opened : MarkType, seen : MarkType]

\* A figure, and where the item stood when it was read, answers for the losses since:
\* unless something moved the item between the opening and the reading, or a count
\* has adjusted it.
Answers(i, line, figure, seen) ==
    (/\ figure # Uncounted
     /\ seen.moves = line.opened.moves
     /\ AdjustedOf(i) = line.opened.adjusted)
    => line.expected = figure + seen.lost + Gap(i)

LineFits(i, line) ==
    /\ line \in LineType
    /\ line.opened.moves <= moves[i] /\ line.opened.adjusted <= AdjustedOf(i)
    /\ (moves[i] = line.opened.moves /\ AdjustedOf(i) = line.opened.adjusted)
       => line.expected = Expected(i)
    /\ Answers(i, line, line.counted, line.seen)

LinesFit ==
    \A c \in Count :
        /\ DOMAIN count[c].lines \subseteq Item
        /\ \A i \in DOMAIN count[c].lines : LineFits(i, count[c].lines[i])

WorldType ==
    /\ IsFiniteSet(adjustments)
    /\ \A d \in adjustments : d.no \in Nat /\ d.no <= Cardinality(adjustments)
    /\ DOMAIN onHand \subseteq Item
    /\ \A i \in Item : Expected(i) \in Int
    /\ shelf \in [Item -> Int] /\ lost \in [Item -> Nat] /\ moves \in [Item -> Nat]

Saving(w) == Busy(w) /\ call[w].op = "save"
Closing(w) == Busy(w) /\ call[w].op = "close"

\* What a save carries fits the lines it will fill.
FigureFits(w, i) ==
    LET s == call[w] IN
    /\ s.figures[i] \in Int /\ s.seen[i] \in MarkType
    /\ Answers(i, count[s.count].lines[i], s.figures[i], s.seen[i])

SaveFits(w) ==
    /\ DOMAIN call[w].figures \subseteq DOMAIN count[call[w].count].lines
    /\ \A i \in DOMAIN call[w].figures : FigureFits(w, i)

\* The lines a close has read.
CloseFits(w) ==
    call[w].pc = "write" =>
        /\ DOMAIN call[w].lines \subseteq Item
        /\ \A i \in DOMAIN call[w].lines : call[w].lines[i] \in LineType

HandlersFit ==
    \A w \in Worker :
        /\ Saving(w) => SaveFits(w)
        /\ Closing(w) => CloseFits(w)

\* Two saves or closes of one count are seen to overlap.
Apart ==
    \A v, w \in Worker :
        ((Saving(v) \/ Closing(v)) /\ (Saving(w) \/ Closing(w)) /\ v # w /\ call[v].count = call[w].count)
        => Contended(call[w].count)

\* One that is alone finds the count open, and as a close read it.
Current(w) ==
    ~Contended(call[w].count) =>
        /\ count[call[w].count].status = "open"
        /\ Closing(w) /\ call[w].pc = "write" => call[w].lines = count[call[w].count].lines

Alone == Apart /\ \A w \in Worker : Saving(w) \/ Closing(w) => Current(w)

\* The ledger of a count nobody raced.
DocumentsFit ==
    \A c \in Count : ~Contended(c) =>
        IF count[c].status = "closed"
        THEN \/ DocumentsOf(c) = {} /\ DOMAIN Variances(count[c].lines) = {}
             \/ \E d : DocumentsOf(c) = {d} /\ d.lines = Variances(count[c].lines)
        ELSE DocumentsOf(c) = {}

LossInvariant ==
    VerifyInvariant /\ WorldType /\ LinesFit /\ HandlersFit /\ Alone /\ DocumentsFit

\* Stock only moves where something is written of it.
WorldGoes ==
    \A i \in Item :
        /\ {moves[i], moves'[i], AdjustedOf(i), AdjustedOf(i)'} \subseteq Nat
        /\ moves[i] <= moves'[i] /\ AdjustedOf(i) <= AdjustedOf(i)'
        /\ AdjustedOf(i)' = AdjustedOf(i) => Gap(i)' = Gap(i)
        /\ (AdjustedOf(i)' = AdjustedOf(i) /\ moves'[i] = moves[i]) => Expected(i)' = Expected(i)

LEMMA AdjustedType ==
    ASSUME WorldType, NEW i
    PROVE  AdjustedOf(i) \in Nat
<1>1. IsFiniteSet({d \in adjustments : i \in DOMAIN d.lines})
  BY FS_Subset DEF WorldType
<1> QED BY <1>1, FS_CardinalityType DEF AdjustedOf

LEMMA MarkTypes ==
    ASSUME WorldType, NEW i \in Item
    PROVE  Mark(i) \in MarkType /\ Mark(i).moves = moves[i] /\ Mark(i).lost = lost[i]
           /\ Mark(i).adjusted = AdjustedOf(i)
<1>1. AdjustedOf(i) \in Nat /\ moves[i] \in Nat /\ lost[i] \in Nat
  BY AdjustedType DEF WorldType
<1>2. Mark(i) = [moves |-> moves[i], lost |-> lost[i], adjusted |-> AdjustedOf(i)]
  BY DEF Mark, AdjustedOf
<1> QED BY <1>1, <1>2 DEF MarkType

LEMMA MoveGoes ==
    ASSUME WorldType, NEW i \in Item, NEW q \in Int, Move(i, q)
    PROVE  WorldType' /\ WorldGoes
<1>1. /\ onHand' = [j \in DOMAIN onHand \cup {i} |-> Expected(j) + (IF j = i THEN q ELSE 0)]
      /\ shelf' = [shelf EXCEPT ![i] = @ + q] /\ moves' = [moves EXCEPT ![i] = @ + 1]
      /\ UNCHANGED <<adjustments, lost>>
  BY DEF Move
<1>2. \A j \in Item : Expected(j)' = Expected(j) + (IF j = i THEN q ELSE 0)
  BY <1>1 DEF Expected, WorldType
<1>3. WorldType'
  BY <1>1, <1>2 DEF WorldType
<1>4. ASSUME NEW j \in Item
      PROVE  /\ {moves[j], moves'[j], AdjustedOf(j), AdjustedOf(j)'} \subseteq Nat
             /\ moves[j] <= moves'[j] /\ AdjustedOf(j) <= AdjustedOf(j)'
             /\ AdjustedOf(j)' = AdjustedOf(j) => Gap(j)' = Gap(j)
             /\ (AdjustedOf(j)' = AdjustedOf(j) /\ moves'[j] = moves[j]) => Expected(j)' = Expected(j)
  <2>1. AdjustedOf(j)' = AdjustedOf(j) /\ AdjustedOf(j) \in Nat
    BY <1>1, AdjustedType DEF AdjustedOf
  <2>2. Expected(j) \in Int /\ shelf[j] \in Int /\ lost[j] \in Nat /\ moves[j] \in Nat
    BY DEF WorldType
  <2>3. /\ shelf'[j] = shelf[j] + (IF j = i THEN q ELSE 0)
        /\ moves'[j] = moves[j] + (IF j = i THEN 1 ELSE 0) /\ lost'[j] = lost[j]
    BY <1>1, <2>2 DEF WorldType
  <2>4. Gap(j)' = Gap(j)
    BY <1>2, <2>2, <2>3 DEF Gap
  <2>5. moves'[j] \in Nat /\ moves[j] <= moves'[j] /\ (moves'[j] = moves[j] => j # i)
    BY <2>2, <2>3
  <2>6. j # i => Expected(j)' = Expected(j)
    BY <1>2, <2>2
  <2> QED BY <2>1, <2>2, <2>4, <2>5, <2>6
<1> QED BY <1>3, <1>4 DEF WorldGoes

LEMMA LoseGoes ==
    ASSUME WorldType, NEW i \in Item, Lose(i)
    PROVE  WorldType' /\ WorldGoes
<1>1. /\ shelf' = [shelf EXCEPT ![i] = @ - 1] /\ lost' = [lost EXCEPT ![i] = @ + 1]
      /\ UNCHANGED <<onHand, adjustments, moves>>
  BY DEF Lose
<1>2. \A j \in Item : Expected(j)' = Expected(j)
  BY <1>1 DEF Expected
<1>3. WorldType'
  BY <1>1, <1>2 DEF WorldType
<1>4. ASSUME NEW j \in Item
      PROVE  /\ {moves[j], moves'[j], AdjustedOf(j), AdjustedOf(j)'} \subseteq Nat
             /\ moves[j] <= moves'[j] /\ AdjustedOf(j) <= AdjustedOf(j)'
             /\ Gap(j)' = Gap(j)
  <2>1. AdjustedOf(j)' = AdjustedOf(j) /\ AdjustedOf(j) \in Nat
    BY <1>1, AdjustedType DEF AdjustedOf
  <2>2. Expected(j) \in Int /\ shelf[j] \in Int /\ lost[j] \in Nat /\ moves[j] \in Nat
    BY DEF WorldType
  <2>3. /\ shelf'[j] = shelf[j] - (IF j = i THEN 1 ELSE 0)
        /\ lost'[j] = lost[j] + (IF j = i THEN 1 ELSE 0) /\ moves'[j] = moves[j]
    BY <1>1, <2>2 DEF WorldType
  <2>4. Gap(j)' = Gap(j)
    BY <1>2, <2>2, <2>3 DEF Gap
  <2> QED BY <2>1, <2>2, <2>3, <2>4
<1> QED BY <1>2, <1>3, <1>4 DEF WorldGoes

LEMMA WorldStays ==
    ASSUME WorldType, UNCHANGED <<onHand, adjustments, shelf, lost, moves>>
    PROVE  WorldType' /\ WorldGoes
<1>1. \A j \in Item : Expected(j)' = Expected(j) /\ Gap(j)' = Gap(j)
  BY DEF Expected, Gap
<1>2. \A j \in Item : AdjustedOf(j)' = AdjustedOf(j) /\ AdjustedOf(j) \in Nat
  BY AdjustedType DEF AdjustedOf
<1>3. \A j \in Item : moves[j] \in Nat /\ moves'[j] = moves[j]
  BY DEF WorldType
<1>4. WorldType'
  BY <1>1 DEF WorldType
<1>5. WorldGoes
  BY <1>1, <1>2, <1>3 DEF WorldGoes
<1> QED BY <1>4, <1>5

\* A close moves the items it writes a difference of, by that difference, and says so
\* in a document of its own.
CloseMoves(k) ==
    /\ \A i \in Item :
        IF i \in DOMAIN Variances(k.lines)
        THEN /\ Expected(i)' = Expected(i) + Variances(k.lines)[i]
             /\ AdjustedOf(i)' = AdjustedOf(i) + 1
        ELSE Expected(i)' = Expected(i) /\ AdjustedOf(i)' = AdjustedOf(i)
    /\ \/ DOMAIN Variances(k.lines) = {} /\ adjustments' = adjustments
       \/ \E d : /\ d.count = k.count /\ d.lines = Variances(k.lines)
                 /\ adjustments' = adjustments \cup {d} /\ d \notin adjustments
                 /\ d.no = Cardinality(adjustments) + 1

LEMMA VariancesOf ==
    ASSUME NEW lines, DOMAIN lines \subseteq Item,
           \A i \in DOMAIN lines : lines[i] \in LineType
    PROVE  /\ DOMAIN Variances(lines) \subseteq DOMAIN lines
           /\ \A i \in DOMAIN Variances(lines) :
                 /\ Variances(lines)[i] = lines[i].counted - lines[i].expected
                 /\ Variances(lines)[i] \in Int
BY DEF Variances, LineType

LEMMA CloseGoes ==
    ASSUME WorldType, NEW w \in Worker, WriteClose(w), NEW k, k = call[w],
           DOMAIN k.lines \subseteq Item, \A i \in DOMAIN k.lines : k.lines[i] \in LineType
    PROVE  CloseMoves(k) /\ WorldType' /\ WorldGoes
<1>1. PICK var : var = Variances(k.lines)
  OBVIOUS
<1>2. PICK d : d = [no |-> Cardinality(adjustments) + 1, count |-> k.count, lines |-> var]
  OBVIOUS
<1>3. DOMAIN var \subseteq Item /\ \A i \in DOMAIN var : var[i] \in Int
  BY <1>1, VariancesOf
<1>4. /\ adjustments' = IF DOMAIN var = {} THEN adjustments ELSE adjustments \cup {d}
      /\ onHand' = [i \in DOMAIN onHand \cup DOMAIN var |->
                      Expected(i) + (IF i \in DOMAIN var THEN var[i] ELSE 0)]
      /\ UNCHANGED <<shelf, lost, moves>>
  BY <1>1, <1>2 DEF WriteClose
<1>5. \A i \in Item : Expected(i) \in Int /\ shelf[i] \in Int /\ lost[i] \in Nat /\ moves[i] \in Nat
  BY DEF WorldType
<1>6. \A i \in Item : Expected(i)' = Expected(i) + (IF i \in DOMAIN var THEN var[i] ELSE 0)
  BY <1>3, <1>4, <1>5 DEF Expected
<1>7. Cardinality(adjustments) \in Nat /\ IsFiniteSet(adjustments)
  BY FS_CardinalityType DEF WorldType
<1>8. d \notin adjustments /\ d.no = Cardinality(adjustments) + 1 /\ d.count = k.count /\ d.lines = var
  BY <1>2, <1>7 DEF WorldType
<1>9. /\ IsFiniteSet(adjustments \cup {d})
      /\ Cardinality(adjustments \cup {d}) = Cardinality(adjustments) + 1
  BY <1>7, <1>8, FS_AddElement
<1>10. \A i \in Item : AdjustedOf(i) \in Nat
  BY AdjustedType
<1>11. ASSUME NEW i \in Item
       PROVE  AdjustedOf(i)' = AdjustedOf(i) + (IF i \in DOMAIN var THEN 1 ELSE 0)
  <2> DEFINE before == {e \in adjustments : i \in DOMAIN e.lines}
             after == {e \in adjustments' : i \in DOMAIN e.lines}
  <2>1. IsFiniteSet(before) /\ AdjustedOf(i) = Cardinality(before) /\ AdjustedOf(i)' = Cardinality(after)
    BY <1>7, FS_Subset DEF AdjustedOf
  <2>2. CASE i \in DOMAIN var
    <3>1. after = before \cup {d} /\ d \notin before
      BY <1>4, <1>8, <2>2
    <3> QED BY <2>1, <2>2, <3>1, FS_AddElement
  <2>3. CASE i \notin DOMAIN var
    <3>1. after = before
      BY <1>4, <1>8, <2>3
    <3>2. AdjustedOf(i)' = AdjustedOf(i)
      BY <2>1, <3>1
    <3>3. AdjustedOf(i) = AdjustedOf(i) + 0
      BY <1>10
    <3> QED BY <2>3, <3>2, <3>3
  <2> QED BY <2>2, <2>3
<1>12. CloseMoves(k)
  <2>1. \A i \in Item :
          IF i \in DOMAIN var
          THEN Expected(i)' = Expected(i) + var[i] /\ AdjustedOf(i)' = AdjustedOf(i) + 1
          ELSE Expected(i)' = Expected(i) /\ AdjustedOf(i)' = AdjustedOf(i)
    BY <1>5, <1>6, <1>10, <1>11
  <2>2. \/ DOMAIN var = {} /\ adjustments' = adjustments
        \/ /\ d.count = k.count /\ d.lines = var /\ adjustments' = adjustments \cup {d}
           /\ d \notin adjustments /\ d.no = Cardinality(adjustments) + 1
    BY <1>4, <1>8
  <2> QED BY <1>1, <2>1, <2>2 DEF CloseMoves
<1>13. WorldType'
  <2>1. IsFiniteSet(adjustments') /\ \A e \in adjustments' : e.no \in Nat /\ e.no <= Cardinality(adjustments')
    <3>1. CASE adjustments' = adjustments
      BY <3>1 DEF WorldType
    <3>2. CASE adjustments' = adjustments \cup {d}
      <4> DEFINE n == Cardinality(adjustments)
      <4>1. n \in Nat /\ Cardinality(adjustments') = n + 1 /\ IsFiniteSet(adjustments')
        BY <1>7, <1>9, <3>2
      <4>2. \A e \in adjustments : e.no \in Nat /\ e.no <= n
        BY DEF WorldType
      <4>3. d.no = n + 1
        BY <1>8
      <4> HIDE DEF n
      <4>4. \A e \in adjustments' : e.no \in Nat /\ e.no <= n + 1
        BY <3>2, <4>1, <4>2, <4>3
      <4> QED BY <4>1, <4>4
    <3> QED BY <1>4, <3>1, <3>2
  <2>2. DOMAIN onHand' \subseteq Item
    BY <1>3, <1>4 DEF WorldType
  <2>3. \A i \in Item : Expected(i)' \in Int
    BY <1>3, <1>5, <1>6
  <2> QED BY <1>4, <2>1, <2>2, <2>3 DEF WorldType
<1>14. WorldGoes
  <2> SUFFICES ASSUME NEW i \in Item
               PROVE  /\ {moves[i], moves'[i], AdjustedOf(i), AdjustedOf(i)'} \subseteq Nat
                      /\ moves[i] <= moves'[i] /\ AdjustedOf(i) <= AdjustedOf(i)'
                      /\ AdjustedOf(i)' = AdjustedOf(i) =>
                           Gap(i)' = Gap(i) /\ Expected(i)' = Expected(i)
    BY DEF WorldGoes
  <2>1. /\ AdjustedOf(i) \in Nat /\ AdjustedOf(i)' \in Nat /\ AdjustedOf(i) <= AdjustedOf(i)'
        /\ AdjustedOf(i)' = AdjustedOf(i) => i \notin DOMAIN var
    BY <1>10, <1>11
  <2>2. i \notin DOMAIN var => Expected(i)' = Expected(i)
    BY <1>5, <1>6
  <2>3. Expected(i)' = Expected(i) => Gap(i)' = Gap(i)
    BY <1>4 DEF Gap
  <2> QED BY <1>4, <1>5, <2>1, <2>2, <2>3
<1> QED BY <1>12, <1>13, <1>14
-----------------------------------------------------------------------------
(* What a step leaves standing. *)

LEMMA AnswersStay ==
    ASSUME WorldGoes, NEW i \in Item, NEW line \in LineType, NEW figure, NEW seen,
           line.opened.adjusted <= AdjustedOf(i), Answers(i, line, figure, seen)
    PROVE  Answers(i, line, figure, seen)'
<1>1. line.opened.adjusted \in Nat
  BY DEF LineType, MarkType
<1>2. AdjustedOf(i)' = line.opened.adjusted => AdjustedOf(i) = line.opened.adjusted /\ Gap(i)' = Gap(i)
  BY <1>1 DEF WorldGoes
<1> QED BY <1>2 DEF Answers

LEMMA LineStays ==
    ASSUME WorldGoes, NEW i \in Item, NEW line, LineFits(i, line)
    PROVE  LineFits(i, line)'
<1>1. /\ line \in LineType
      /\ line.opened.moves <= moves[i] /\ line.opened.adjusted <= AdjustedOf(i)
      /\ Answers(i, line, line.counted, line.seen)
  BY DEF LineFits
<1>2. line.opened.moves \in Nat /\ line.opened.adjusted \in Nat
  BY <1>1 DEF LineType, MarkType
<1>3. line.opened.moves <= moves'[i] /\ line.opened.adjusted <= AdjustedOf(i)'
  BY <1>1, <1>2 DEF WorldGoes
<1>4. (moves'[i] = line.opened.moves /\ AdjustedOf(i)' = line.opened.adjusted)
      => line.expected = Expected(i)'
  BY <1>1, <1>2 DEF WorldGoes, LineFits
<1>5. Answers(i, line, line.counted, line.seen)'
  BY <1>1, AnswersStay
<1> QED BY <1>1, <1>3, <1>4, <1>5 DEF LineFits

LEMMA LinesStay ==
    ASSUME WorldGoes, LinesFit, NEW c \in Count, count'[c].lines = count[c].lines
    PROVE  /\ DOMAIN count'[c].lines \subseteq Item
           /\ \A i \in DOMAIN count'[c].lines : LineFits(i, count[c].lines[i])'
<1>1. DOMAIN count'[c].lines \subseteq Item
  BY DEF LinesFit
<1>2. ASSUME NEW i \in DOMAIN count'[c].lines
      PROVE  LineFits(i, count[c].lines[i])'
  <2>1. PICK line : line = count[c].lines[i]
    OBVIOUS
  <2>2. i \in Item /\ LineFits(i, line)
    BY <2>1 DEF LinesFit
  <2>3. LineFits(i, line)'
    BY <2>2, LineStays
  <2>4. count'[c].lines[i] = line
    BY <2>1
  <2> QED BY <2>3, <2>4
<1> QED BY <1>1, <1>2

\* A line's opening is written once.
OpeningKept(c) ==
    /\ DOMAIN count'[c].lines = DOMAIN count[c].lines
    /\ \A i \in DOMAIN count[c].lines :
        /\ count'[c].lines[i].expected = count[c].lines[i].expected
        /\ count'[c].lines[i].opened = count[c].lines[i].opened

LEMMA SaveStays ==
    ASSUME WorldGoes, LinesFit, NEW w \in Worker, SaveFits(w), call'[w] = call[w],
           call[w].count \in Count, OpeningKept(call[w].count)
    PROVE  SaveFits(w)'
<1>1. PICK s : s = call[w]
  OBVIOUS
<1>2. PICK c : c = s.count
  OBVIOUS
<1>3. DOMAIN s.figures \subseteq DOMAIN count[c].lines /\ DOMAIN count'[c].lines = DOMAIN count[c].lines
  BY <1>1, <1>2 DEF SaveFits, OpeningKept
<1>4. ASSUME NEW i \in DOMAIN s.figures
      PROVE  FigureFits(w, i)'
  <2>1. PICK line : line = count[c].lines[i]
    OBVIOUS
  <2>2. PICK now : now = count'[c].lines[i]
    OBVIOUS
  <2>3. i \in DOMAIN count[c].lines /\ i \in Item /\ LineFits(i, line)
    BY <1>1, <1>2, <1>3, <2>1 DEF LinesFit
  <2>4. now.expected = line.expected /\ now.opened = line.opened
    BY <1>1, <1>2, <2>1, <2>2, <2>3 DEF OpeningKept
  <2>5. s.figures[i] \in Int /\ s.seen[i] \in MarkType /\ Answers(i, line, s.figures[i], s.seen[i])
    BY <1>1, <1>2, <2>1 DEF SaveFits, FigureFits
  <2>6. line \in LineType /\ line.opened.adjusted <= AdjustedOf(i)
    BY <2>3 DEF LineFits
  <2>7. PICK figure, seen : figure = s.figures[i] /\ seen = s.seen[i]
    OBVIOUS
  <2>8. Answers(i, line, figure, seen)'
    BY <2>3, <2>5, <2>6, <2>7, AnswersStay
  <2>9. Answers(i, now, figure, seen)'
    BY <2>4, <2>8 DEF Answers
  <2> QED BY <1>1, <1>2, <2>2, <2>5, <2>7, <2>9 DEF FigureFits
<1> QED BY <1>1, <1>2, <1>3, <1>4 DEF SaveFits

\* A handler goes on, or is gone.
Still(v) == Busy(v) /\ call'[v] = call[v]

LEMMA ApartStays ==
    ASSUME Apart, overlaps \subseteq overlaps',
           \A v \in Worker : (Saving(v) \/ Closing(v))' =>
               (Saving(v) \/ Closing(v)) /\ call'[v].count = call[v].count
    PROVE  Apart'
BY DEF Apart, Contended

LEMMA DocumentsStay ==
    ASSUME DocumentsFit, overlaps \subseteq overlaps', adjustments' = adjustments,
           \A c \in Count : ~Contended(c)' =>
               /\ (count'[c].status = "closed") <=> (count[c].status = "closed")
               /\ count[c].status = "closed" => count'[c].lines = count[c].lines
    PROVE  DocumentsFit'
<1> SUFFICES ASSUME NEW c \in Count, ~Contended(c)'
             PROVE  IF count'[c].status = "closed"
                    THEN \/ DocumentsOf(c)' = {} /\ DOMAIN Variances(count'[c].lines) = {}
                         \/ \E d : DocumentsOf(c)' = {d} /\ d.lines = Variances(count'[c].lines)
                    ELSE DocumentsOf(c)' = {}
  BY DEF DocumentsFit, Variances
<1>1. DocumentsOf(c)' = DocumentsOf(c) /\ ~Contended(c)
  BY DEF DocumentsOf, Contended
<1>2. CASE count'[c].status = "closed"
  <2>1. count[c].status = "closed" /\ count'[c].lines = count[c].lines
    BY <1>2
  <2> QED BY <1>1, <1>2, <2>1 DEF DocumentsFit
<1>3. CASE count'[c].status # "closed"
  BY <1>1, <1>3 DEF DocumentsFit
<1> QED BY <1>2, <1>3

\* A step that writes no line, opens or closes no count and begins no save or close.
LEMMA OrdinaryStep ==
    ASSUME LossInvariant, VerifyInvariant', WorldType', WorldGoes,
           overlaps \subseteq overlaps', adjustments' = adjustments,
           \A c \in Count : count'[c].lines = count[c].lines /\ count'[c].status = count[c].status,
           \A v \in Worker : (Saving(v) \/ Closing(v))' => Still(v)
    PROVE  LossInvariant'
<1>0. VerifyInvariant /\ WorldType /\ LinesFit /\ HandlersFit /\ Alone /\ DocumentsFit
  BY DEF LossInvariant
<1>1. \A v \in Worker : (Saving(v) \/ Closing(v))' =>
        /\ Still(v) /\ (Saving(v)' <=> Saving(v)) /\ (Closing(v)' <=> Closing(v))
        /\ call[v].count \in Count
  BY <1>0 DEF Still, Saving, Closing, Busy, VerifyInvariant, HandlersKnow
<1>2. LinesFit'
  <2> SUFFICES ASSUME NEW c \in Count
               PROVE  /\ DOMAIN count'[c].lines \subseteq Item
                      /\ \A i \in DOMAIN count'[c].lines : LineFits(i, count[c].lines[i])'
    BY DEF LinesFit
  <2> QED BY <1>0, LinesStay
<1>3. \A c \in Count : OpeningKept(c)
  BY DEF OpeningKept
<1>4. ASSUME NEW v \in Worker, Saving(v)' PROVE SaveFits(v)'
  <2>1. Saving(v) /\ call'[v] = call[v] /\ call[v].count \in Count
    BY <1>1, <1>4 DEF Still
  <2>2. SaveFits(v)
    BY <1>0, <2>1 DEF HandlersFit
  <2> QED BY <1>0, <1>3, <2>1, <2>2, SaveStays
<1>5. ASSUME NEW v \in Worker, Closing(v)' PROVE CloseFits(v)'
  BY <1>0, <1>1, <1>5 DEF HandlersFit, CloseFits, Still
<1>6. Apart'
  BY <1>0, <1>1, ApartStays DEF Alone, Still
<1>7. ASSUME NEW v \in Worker, (Saving(v) \/ Closing(v))' PROVE Current(v)'
  <2>1. /\ Still(v) /\ call[v].count \in Count /\ (Closing(v)' <=> Closing(v))
        /\ Saving(v) \/ Closing(v)
    BY <1>1, <1>7
  <2>2. Current(v)
    BY <1>0, <2>1 DEF Alone
  <2>3. /\ count'[call[v].count].status = count[call[v].count].status
        /\ count'[call[v].count].lines = count[call[v].count].lines
        /\ Contended(call[v].count) => Contended(call[v].count)'
    BY <2>1 DEF Contended, Still
  <2> QED BY <2>1, <2>2, <2>3 DEF Current, Still, Contended
<1>8. DocumentsFit'
  BY <1>0, DocumentsStay
<1> QED BY <1>2, <1>4, <1>5, <1>6, <1>7, <1>8 DEF LossInvariant, HandlersFit, Alone

LEMMA StartApart ==
    ASSUME VerifyInvariant, Apart, NEW w \in Worker, NEW c, Start(w, c), c.op \in {"save", "close"}
    PROVE  Apart' /\ call'[w] = c /\ \A v \in Worker \ {w} : call'[v] = call[v]
<1>1. call' = [call EXCEPT ![w] = c] /\ call[w] = Idle /\ overlaps \subseteq overlaps'
  BY DEF Start
<1>2. call'[w] = c /\ \A v \in Worker \ {w} : call'[v] = call[v]
  BY <1>1 DEF VerifyInvariant, HandlersKnow
<1>3. ASSUME NEW v \in Worker, v # w, Saving(v) \/ Closing(v), call[v].count = c.count
      PROVE  Contended(c.count)'
  <2>1. v \in Rivals(c)
    BY <1>3 DEF Rivals, Saving, Closing, Busy, Idle
  <2>2. {c.count, call[v].count} \in overlaps'
    BY <2>1 DEF Start
  <2>3. {c.count, call[v].count} = {c.count}
    BY <1>3
  <2> QED BY <2>2, <2>3 DEF Contended
<1>4. \A v \in Worker \ {w} : (Saving(v) \/ Closing(v))' => Saving(v) \/ Closing(v)
  BY <1>2 DEF Saving, Closing, Busy
<1>5. ASSUME NEW u \in Worker, NEW v \in Worker, u # v,
             (Saving(u) \/ Closing(u))', (Saving(v) \/ Closing(v))', call'[u].count = call'[v].count
      PROVE  Contended(call[v].count)'
  <2>1. CASE u = w
    BY <1>2, <1>3, <1>4, <1>5, <2>1
  <2>2. CASE v = w
    BY <1>2, <1>3, <1>4, <1>5, <2>2
  <2>3. CASE u # w /\ v # w
    <3>1. Contended(call[v].count)
      BY <1>2, <1>4, <1>5, <2>3 DEF Apart
    <3> QED BY <1>1, <1>2, <2>3, <3>1 DEF Contended
  <2> QED BY <2>1, <2>2, <2>3
<1>6. Apart'
  BY <1>5 DEF Apart
<1> QED BY <1>2, <1>6

\* A save or a close begins, on a count it finds open.
LEMMA WriterBegins ==
    ASSUME LossInvariant, VerifyInvariant', NEW w \in Worker, NEW c, Start(w, c),
           UNCHANGED <<count, onHand, adjustments, day, shelf, lost, moves>>,
           c.op \in {"save", "close"}, c.pc # "idle", c.op = "close" => c.pc = "lines",
           count[c.count].status = "open", c.op = "save" => SaveFits(w)'
    PROVE  LossInvariant'
<1>0. VerifyInvariant /\ WorldType /\ LinesFit /\ HandlersFit /\ Alone /\ DocumentsFit
  BY DEF LossInvariant
<1>1. WorldType' /\ WorldGoes
  BY <1>0, WorldStays
<1>2. Apart' /\ call'[w] = c /\ \A v \in Worker \ {w} : call'[v] = call[v]
  BY <1>0, StartApart DEF Alone
<1>3. \A v \in Worker \ {w} :
        /\ Saving(v)' <=> Saving(v)
        /\ Closing(v)' <=> Closing(v)
        /\ Saving(v) \/ Closing(v) => call[v].count \in Count
  BY <1>0, <1>2 DEF Saving, Closing, Busy, VerifyInvariant, HandlersKnow
<1>4. LinesFit'
  <2> SUFFICES ASSUME NEW d \in Count
               PROVE  /\ DOMAIN count'[d].lines \subseteq Item
                      /\ \A i \in DOMAIN count'[d].lines : LineFits(i, count[d].lines[i])'
    BY DEF LinesFit
  <2> QED BY <1>0, <1>1, LinesStay
<1>5. ASSUME NEW v \in Worker, Saving(v)' PROVE SaveFits(v)'
  <2>1. CASE v = w
    BY <1>2, <1>5, <2>1 DEF Saving
  <2>2. CASE v # w
    <3>1. SaveFits(v) /\ call[v].count \in Count /\ call'[v] = call[v]
      BY <1>0, <1>2, <1>3, <1>5, <2>2 DEF HandlersFit
    <3>2. OpeningKept(call[v].count)
      BY DEF OpeningKept
    <3> QED BY <1>0, <1>1, <3>1, <3>2, SaveStays
  <2> QED BY <2>1, <2>2
<1>6. ASSUME NEW v \in Worker, Closing(v)' PROVE CloseFits(v)'
  BY <1>0, <1>2, <1>3, <1>6 DEF Closing, CloseFits, HandlersFit
<1>8. overlaps \subseteq overlaps'
  BY DEF Start
<1>7. ASSUME NEW v \in Worker, (Saving(v) \/ Closing(v))' PROVE Current(v)'
  <2>1. CASE v = w
    BY <1>2, <2>1 DEF Current, Closing
  <2>2. CASE v # w
    <3>1. Current(v) /\ call'[v] = call[v] /\ (Closing(v)' <=> Closing(v))
      BY <1>0, <1>2, <1>3, <1>7, <2>2 DEF Alone
    <3>2. Contended(call[v].count) => Contended(call[v].count)'
      BY <1>8, <3>1 DEF Contended
    <3> QED BY <3>1, <3>2 DEF Current
  <2> QED BY <2>1, <2>2
<1>9. DocumentsFit'
  BY <1>0, <1>8, DocumentsStay
<1> QED BY <1>1, <1>2, <1>4, <1>5, <1>6, <1>7, <1>9 DEF LossInvariant, HandlersFit, Alone

LEMMA StartSaveKeepsLoss ==
    ASSUME LossInvariant, VerifyInvariant', NEW w \in Worker, NEW c \in Count, NEW batch, NEW cleared,
           StartSave(w, c, batch, cleared)
    PROVE  LossInvariant'
<1>1. PICK s : s = [pc |-> "write", op |-> "save", count |-> c,
                    figures |-> [i \in batch |-> IF i \in cleared THEN Uncounted ELSE shelf[i]],
                    seen |-> [i \in batch |-> Mark(i)]]
  OBVIOUS
<1>2. /\ Start(w, s) /\ UNCHANGED <<count, onHand, adjustments, day, shelf, lost, moves>>
      /\ count[c].status = "open" /\ batch \subseteq DOMAIN count[c].lines
  BY <1>1 DEF StartSave, world
<1>3. s.op = "save" /\ s.pc = "write" /\ s.count = c /\ DOMAIN s.figures = batch
  BY <1>1
<1>4. \A i \in batch :
        /\ s.figures[i] = IF i \in cleared THEN Uncounted ELSE shelf[i]
        /\ s.seen[i] = Mark(i)
  BY <1>1
<1>5. WorldType /\ LinesFit /\ WorldType' /\ call'[w] = s
  BY <1>2, WorldStays DEF LossInvariant, Start, VerifyInvariant, HandlersKnow
<1>6. ASSUME NEW i \in batch
      PROVE  FigureFits(w, i)'
  <2>1. PICK line : line = count[c].lines[i]
    OBVIOUS
  <2>2. PICK figure, seen : figure = s.figures[i] /\ seen = s.seen[i]
    OBVIOUS
  <2>3. i \in Item /\ LineFits(i, line)
    BY <1>2, <1>5, <2>1 DEF LinesFit
  <2>4. /\ seen \in MarkType /\ seen.moves = moves[i] /\ seen.lost = lost[i]
        /\ shelf[i] \in Int /\ lost[i] \in Nat /\ Expected(i) \in Int
    BY <1>4, <1>5, <2>2, <2>3, MarkTypes DEF WorldType
  <2>5. figure \in Int /\ (figure # Uncounted => figure = shelf[i])
    BY <1>4, <2>2, <2>4 DEF Uncounted
  <2>6. ASSUME figure # Uncounted, seen.moves = line.opened.moves, AdjustedOf(i) = line.opened.adjusted
        PROVE  line.expected = figure + seen.lost + Gap(i)
    <3>1. line.expected = Expected(i)
      BY <2>3, <2>4, <2>6 DEF LineFits
    <3>2. figure + seen.lost + (Expected(i) - shelf[i] - lost[i]) = Expected(i)
      BY <2>4, <2>5, <2>6
    <3> QED BY <3>1, <3>2 DEF Gap
  <2>7. Answers(i, line, figure, seen)'
    BY <1>2, <2>6 DEF Answers, AdjustedOf, Gap, Expected
  <2> QED BY <1>2, <1>3, <1>5, <2>1, <2>2, <2>4, <2>5, <2>7 DEF FigureFits
<1>7. SaveFits(w)'
  BY <1>2, <1>3, <1>5, <1>6 DEF SaveFits
<1> QED BY <1>2, <1>3, <1>7, WriterBegins

LEMMA StartCloseKeepsLoss ==
    ASSUME LossInvariant, VerifyInvariant', NEW w \in Worker, NEW c \in Count, StartClose(w, c)
    PROVE  LossInvariant'
<1>1. PICK k : k = [pc |-> "lines", op |-> "close", count |-> c]
  OBVIOUS
<1>2. k.pc = "lines" /\ k.op = "close" /\ k.count = c
  BY <1>1
<1>3. /\ Start(w, k) /\ UNCHANGED <<count, onHand, adjustments, day, shelf, lost, moves>>
      /\ count[c].status = "open"
  BY <1>1 DEF StartClose, world
<1> QED BY <1>2, <1>3, WriterBegins

LEMMA ReadLinesKeepsLoss ==
    ASSUME LossInvariant, VerifyInvariant', NEW w \in Worker, ReadLines(w)
    PROVE  LossInvariant'
<1>0. VerifyInvariant /\ WorldType /\ LinesFit /\ HandlersFit /\ Alone /\ DocumentsFit
  BY DEF LossInvariant
<1>1. PICK c : c = call[w].count
  OBVIOUS
<1>2. PICK k : k = [pc |-> "write", op |-> "close", count |-> c, lines |-> count[c].lines]
  OBVIOUS
<1>3. k.pc = "write" /\ k.op = "close" /\ k.count = c /\ k.lines = count[c].lines
  BY <1>2
<1>4. /\ call[w].pc = "lines" /\ call' = [call EXCEPT ![w] = k]
      /\ UNCHANGED <<count, onHand, adjustments, day, shelf, lost, moves, overlaps>>
  BY <1>1, <1>2 DEF ReadLines, world
<1>5. WorldType' /\ WorldGoes
  BY <1>0, <1>4, WorldStays
<1>6. Closing(w) /\ ~Saving(w) /\ c \in Count
  BY <1>0, <1>1, <1>4 DEF VerifyInvariant, HandlersKnow, Closing, Saving, Busy
<1>7. call'[w] = k /\ \A v \in Worker \ {w} : call'[v] = call[v]
  BY <1>0, <1>4 DEF VerifyInvariant, HandlersKnow
<1>8. ~Saving(w)' /\ \A v \in Worker :
        /\ Saving(v)' <=> Saving(v)
        /\ Closing(v)' <=> Closing(v)
        /\ call'[v].count = call[v].count
        /\ Saving(v) \/ Closing(v) => call[v].count \in Count
  BY <1>0, <1>1, <1>3, <1>6, <1>7 DEF Saving, Closing, Busy, VerifyInvariant, HandlersKnow
<1>9. LinesFit'
  <2> SUFFICES ASSUME NEW d \in Count
               PROVE  /\ DOMAIN count'[d].lines \subseteq Item
                      /\ \A i \in DOMAIN count'[d].lines : LineFits(i, count[d].lines[i])'
    BY DEF LinesFit
  <2> QED BY <1>0, <1>4, <1>5, LinesStay
<1>10. ASSUME NEW v \in Worker, Saving(v)' PROVE SaveFits(v)'
  <2>1. SaveFits(v) /\ call[v].count \in Count /\ call'[v] = call[v]
    BY <1>0, <1>7, <1>8, <1>10 DEF HandlersFit
  <2>2. OpeningKept(call[v].count)
    BY <1>4 DEF OpeningKept
  <2> QED BY <1>0, <1>5, <2>1, <2>2, SaveStays
<1>11. ASSUME NEW v \in Worker, Closing(v)' PROVE CloseFits(v)'
  <2>1. CASE v = w
    <3>1. /\ DOMAIN count[c].lines \subseteq Item
          /\ \A i \in DOMAIN count[c].lines : count[c].lines[i] \in LineType
      BY <1>0, <1>6 DEF LinesFit, LineFits
    <3> QED BY <1>3, <1>7, <2>1, <3>1 DEF CloseFits
  <2>2. CASE v # w
    BY <1>0, <1>7, <1>8, <1>11, <2>2 DEF HandlersFit, CloseFits
  <2> QED BY <2>1, <2>2
<1>12. Apart'
  BY <1>0, <1>4, <1>8, ApartStays DEF Alone
<1>13. ASSUME NEW v \in Worker, (Saving(v) \/ Closing(v))' PROVE Current(v)'
  <2>1. Current(v) /\ (Contended(call[v].count) => Contended(call[v].count)')
    BY <1>0, <1>4, <1>8, <1>13 DEF Alone, Contended
  <2>2. CASE v = w
    BY <1>1, <1>3, <1>4, <1>7, <2>1, <2>2 DEF Current
  <2>3. CASE v # w
    BY <1>4, <1>7, <1>8, <2>1, <2>3 DEF Current
  <2> QED BY <2>2, <2>3
<1>14. DocumentsFit'
  BY <1>0, <1>4, DocumentsStay
<1> QED BY <1>5, <1>9, <1>10, <1>11, <1>12, <1>13, <1>14 DEF LossInvariant, HandlersFit, Alone

LEMMA WriteOpenKeepsLoss ==
    ASSUME LossInvariant, VerifyInvariant', NEW w \in Worker, WriteOpen(w)
    PROVE  LossInvariant'
<1>0. VerifyInvariant /\ WorldType /\ LinesFit /\ HandlersFit /\ Alone /\ DocumentsFit
  BY DEF LossInvariant
<1>1. PICK o : o = call[w]
  OBVIOUS
<1>2. PICK c : c = o.count
  OBVIOUS
<1>3. PICK lines : lines = [i \in Scope(o.kind) |->
                              [expected |-> Expected(i), counted |-> Uncounted,
                               opened |-> Mark(i), seen |-> Mark(i)]]
  OBVIOUS
<1>4. /\ count' = [count EXCEPT ![c] = [status |-> "open", kind |-> o.kind, day |-> o.day,
                      countedBy |-> o.user, verifiedBy |-> Nobody, lines |-> lines]]
      /\ call' = [call EXCEPT ![w] = Idle] /\ o.pc = "write" /\ o.op = "open"
      /\ UNCHANGED <<onHand, adjustments, day, shelf, lost, moves, overlaps>>
  BY <1>1, <1>2, <1>3 DEF WriteOpen, Finish, world
<1>5. WorldType' /\ WorldGoes
  BY <1>0, <1>4, WorldStays
<1>6. /\ c \in Count /\ count[c].status = "none"
      /\ \A v \in Worker \ {w} : Busy(v) => call[v].count # c
  BY <1>0, <1>1, <1>2, <1>4 DEF VerifyInvariant, HandlersKnow, Busy
<1>7. /\ count'[c].status = "open" /\ count'[c].lines = lines
      /\ \A d \in Count \ {c} : count'[d] = count[d]
  BY <1>0, <1>4, <1>6 DEF VerifyInvariant, HandlersKnow
<1>8. \A v \in Worker : (Saving(v) \/ Closing(v))' =>
        /\ Still(v) /\ (Saving(v)' <=> Saving(v)) /\ (Closing(v)' <=> Closing(v))
        /\ call[v].count \in Count \ {c}
  BY <1>0, <1>4, <1>6 DEF Saving, Closing, Busy, Still, Idle, VerifyInvariant, HandlersKnow
<1>9. Scope(o.kind) \subseteq Item
  BY <1>0, CountsAssumption DEF Scope, WorldType
<1>10. ASSUME NEW i \in Scope(o.kind)
       PROVE  LineFits(i, lines[i])'
  <2>1. PICK mark : mark = Mark(i)
    OBVIOUS
  <2>2. /\ mark \in MarkType /\ mark.moves = moves[i] /\ mark.adjusted = AdjustedOf(i)
        /\ i \in Item
    BY <1>0, <1>9, <2>1, MarkTypes
  <2>3. PICK line : line = [expected |-> Expected(i), counted |-> Uncounted, opened |-> mark, seen |-> mark]
    OBVIOUS
  <2>4. lines[i] = line
    BY <1>3, <2>1, <2>3
  <2>5. /\ line.expected = Expected(i) /\ line.counted = Uncounted /\ line.opened = mark
        /\ line.seen = mark
    BY <2>3
  <2>6. line \in LineType
    BY <1>0, <2>2, <2>3 DEF LineType, WorldType, Uncounted
  <2>7. AdjustedOf(i)' = AdjustedOf(i) /\ Expected(i)' = Expected(i) /\ moves'[i] = moves[i]
    BY <1>4 DEF AdjustedOf, Expected
  <2>8. moves[i] \in Nat /\ AdjustedOf(i) \in Nat
    BY <1>0, <2>2, AdjustedType DEF WorldType
  <2>9. Answers(i, line, line.counted, line.seen)'
    BY <2>5 DEF Answers
  <2>10. LineFits(i, line)'
    BY <2>2, <2>5, <2>6, <2>7, <2>8, <2>9 DEF LineFits
  <2> QED BY <1>3, <2>4, <2>10
<1>11. LinesFit'
  <2> SUFFICES ASSUME NEW d \in Count
               PROVE  /\ DOMAIN count'[d].lines \subseteq Item
                      /\ \A i \in DOMAIN count'[d].lines : LineFits(i, count[d].lines[i])'
    BY DEF LinesFit
  <2>1. CASE d # c
    BY <1>0, <1>5, <1>7, <2>1, LinesStay
  <2>2. CASE d = c
    <3>1. DOMAIN lines = Scope(o.kind)
      BY <1>3
    <3> QED BY <1>7, <1>9, <1>10, <2>2, <3>1
  <2> QED BY <2>1, <2>2
<1>12. \A d \in Count \ {c} : OpeningKept(d)
  BY <1>7 DEF OpeningKept
<1>13. ASSUME NEW v \in Worker, Saving(v)' PROVE SaveFits(v)'
  <2>1. Saving(v) /\ call'[v] = call[v] /\ call[v].count \in Count /\ OpeningKept(call[v].count)
    BY <1>8, <1>12, <1>13 DEF Still
  <2>2. SaveFits(v)
    BY <1>0, <2>1 DEF HandlersFit
  <2> QED BY <1>0, <1>5, <2>1, <2>2, SaveStays
<1>14. ASSUME NEW v \in Worker, Closing(v)' PROVE CloseFits(v)'
  BY <1>0, <1>8, <1>14 DEF HandlersFit, CloseFits, Still
<1>15. Apart'
  BY <1>0, <1>4, <1>8, ApartStays DEF Alone, Still
<1>16. ASSUME NEW v \in Worker, (Saving(v) \/ Closing(v))' PROVE Current(v)'
  <2>1. /\ Current(v) /\ call'[v] = call[v] /\ (Closing(v)' <=> Closing(v))
        /\ count'[call[v].count] = count[call[v].count]
    BY <1>0, <1>7, <1>8, <1>16 DEF Alone, Still
  <2> QED BY <1>4, <2>1 DEF Current, Contended
<1>17. DocumentsFit'
  BY <1>0, <1>4, <1>6, <1>7, DocumentsStay
<1> QED BY <1>5, <1>11, <1>13, <1>14, <1>15, <1>16, <1>17 DEF LossInvariant, HandlersFit, Alone

LEMMA WriteSaveKeepsLoss ==
    ASSUME LossInvariant, VerifyInvariant', NEW w \in Worker, WriteSave(w)
    PROVE  LossInvariant'
<1>0. VerifyInvariant /\ WorldType /\ LinesFit /\ HandlersFit /\ Alone /\ DocumentsFit
  BY DEF LossInvariant
<1>1. PICK s : s = call[w]
  OBVIOUS
<1>2. PICK c : c = s.count
  OBVIOUS
<1>3. PICK lines : lines = count[c].lines
  OBVIOUS
<1>4. PICK after : after = [i \in DOMAIN lines |->
                              IF i \in DOMAIN s.figures
                              THEN [lines[i] EXCEPT !.counted = s.figures[i], !.seen = s.seen[i]]
                              ELSE lines[i]]
  OBVIOUS
<1>5. Saving(w) /\ c \in Count
  BY <1>0, <1>1, <1>2 DEF WriteSave, Saving, Busy, VerifyInvariant, HandlersKnow
<1>6. /\ count' = [count EXCEPT ![c].lines = after]
      /\ call' = [call EXCEPT ![w] = Idle]
      /\ UNCHANGED <<onHand, adjustments, day, shelf, lost, moves, overlaps>>
  BY <1>1, <1>2, <1>3, <1>4 DEF WriteSave, Finish, world
<1>7. WorldType' /\ WorldGoes
  BY <1>0, <1>6, WorldStays
<1>8. DOMAIN count = Count
  BY <1>0 DEF VerifyInvariant, HandlersKnow
<1>9. /\ count'[c].status = count[c].status /\ count'[c].lines = after
      /\ \A d \in Count \ {c} : count'[d] = count[d]
  BY <1>5, <1>6, <1>8
<1>10. \A v \in Worker : (Saving(v) \/ Closing(v))' =>
        /\ v # w /\ Still(v) /\ (Saving(v)' <=> Saving(v)) /\ (Closing(v)' <=> Closing(v))
        /\ call[v].count \in Count
  BY <1>0, <1>6 DEF Saving, Closing, Busy, Still, Idle, VerifyInvariant, HandlersKnow
<1>11. DOMAIN lines \subseteq Item /\ \A i \in DOMAIN lines : LineFits(i, lines[i])
  BY <1>0, <1>3, <1>5 DEF LinesFit
<1>12. DOMAIN after = DOMAIN lines
  BY <1>4
<1>13. ASSUME NEW i \in DOMAIN lines
       PROVE  /\ after[i].expected = lines[i].expected /\ after[i].opened = lines[i].opened
              /\ LineFits(i, after[i])
  <2>1. PICK line : line = lines[i]
    OBVIOUS
  <2>2. i \in Item /\ LineFits(i, line) /\ line \in LineType
    BY <1>11, <2>1 DEF LineFits
  <2>3. CASE i \in DOMAIN s.figures
    <3>1. PICK figure, seen : figure = s.figures[i] /\ seen = s.seen[i]
      OBVIOUS
    <3>2. FigureFits(w, i)
      BY <1>0, <1>1, <1>5, <2>3 DEF HandlersFit, SaveFits
    <3>3. figure \in Int /\ seen \in MarkType /\ Answers(i, line, figure, seen)
      BY <1>1, <1>2, <1>3, <2>1, <3>1, <3>2 DEF FigureFits
    <3>4. PICK now : now = [line EXCEPT !.counted = figure, !.seen = seen]
      OBVIOUS
    <3>5. /\ now.expected = line.expected /\ now.opened = line.opened
          /\ now.counted = figure /\ now.seen = seen /\ now \in LineType
      BY <2>2, <3>3, <3>4 DEF LineType
    <3>6. LineFits(i, now)
      BY <2>2, <3>3, <3>5 DEF LineFits, Answers
    <3>7. after[i] = now
      BY <1>4, <2>1, <2>3, <3>1, <3>4
    <3> QED BY <2>1, <3>5, <3>6, <3>7
  <2>4. CASE i \notin DOMAIN s.figures
    <3>1. after[i] = line
      BY <1>4, <2>1, <2>4
    <3> QED BY <2>1, <2>2, <3>1
  <2> QED BY <2>3, <2>4
<1>14. LinesFit'
  <2> SUFFICES ASSUME NEW d \in Count
               PROVE  /\ DOMAIN count'[d].lines \subseteq Item
                      /\ \A i \in DOMAIN count'[d].lines : LineFits(i, count[d].lines[i])'
    BY DEF LinesFit
  <2>1. CASE d # c
    BY <1>0, <1>7, <1>9, <2>1, LinesStay
  <2>2. CASE d = c
    <3>1. ASSUME NEW i \in DOMAIN after PROVE LineFits(i, count[d].lines[i])'
      <4>1. PICK now : now = after[i]
        OBVIOUS
      <4>2. i \in Item /\ LineFits(i, now)
        BY <1>11, <1>12, <1>13, <4>1
      <4>3. LineFits(i, now)'
        BY <1>7, <4>2, LineStays
      <4>4. count'[d].lines[i] = now
        BY <1>9, <2>2, <4>1
      <4> QED BY <4>3, <4>4
    <3> QED BY <1>9, <1>11, <1>12, <2>2, <3>1
  <2> QED BY <2>1, <2>2
<1>15. \A d \in Count : OpeningKept(d)
  BY <1>3, <1>9, <1>12, <1>13 DEF OpeningKept
<1>16. ASSUME NEW v \in Worker, Saving(v)' PROVE SaveFits(v)'
  <2>1. Saving(v) /\ call'[v] = call[v] /\ call[v].count \in Count /\ OpeningKept(call[v].count)
    BY <1>10, <1>15, <1>16 DEF Still
  <2>2. SaveFits(v)
    BY <1>0, <2>1 DEF HandlersFit
  <2> QED BY <1>0, <1>7, <2>1, <2>2, SaveStays
<1>17. ASSUME NEW v \in Worker, Closing(v)' PROVE CloseFits(v)'
  BY <1>0, <1>10, <1>17 DEF HandlersFit, CloseFits, Still
<1>18. Apart'
  BY <1>0, <1>6, <1>10, ApartStays DEF Alone, Still
<1>19. ASSUME NEW v \in Worker, (Saving(v) \/ Closing(v))' PROVE Current(v)'
  <2>1. /\ v # w /\ (Saving(v) \/ Closing(v)) /\ Current(v) /\ call'[v] = call[v]
        /\ (Closing(v)' <=> Closing(v)) /\ call[v].count \in Count
    BY <1>0, <1>10, <1>19 DEF Alone, Still
  <2>2. Contended(call[v].count)' <=> Contended(call[v].count)
    BY <1>6, <2>1 DEF Contended
  <2>3. CASE call[v].count = c
    <3>1. Contended(call[v].count)
      BY <1>0, <1>1, <1>2, <1>5, <2>1, <2>3 DEF Alone, Apart
    <3> QED BY <2>1, <2>2, <3>1 DEF Current, Contended
  <2>4. CASE call[v].count # c
    <3>1. count'[call[v].count] = count[call[v].count]
      BY <1>9, <2>1, <2>4
    <3> QED BY <2>1, <2>2, <3>1 DEF Current, Contended
  <2> QED BY <2>3, <2>4
<1>20. ~Contended(c) => count[c].status = "open"
  BY <1>0, <1>1, <1>2, <1>5 DEF Alone, Current
<1>21. \A d \in Count : ~Contended(d)' =>
         /\ (count'[d].status = "closed") <=> (count[d].status = "closed")
         /\ count[d].status = "closed" => count'[d].lines = count[d].lines
  BY <1>6, <1>9, <1>20 DEF Contended
<1>22. DocumentsFit'
  BY <1>0, <1>6, <1>21, DocumentsStay
<1> QED BY <1>7, <1>14, <1>16, <1>17, <1>18, <1>19, <1>22 DEF LossInvariant, HandlersFit, Alone

\* What a close finds and what it writes.
LEMMA CloseWrites ==
    ASSUME LossInvariant, NEW w \in Worker, WriteClose(w), NEW k, k = call[w]
    PROVE  /\ CloseMoves(k) /\ WorldType' /\ WorldGoes
           /\ Closing(w) /\ k.count \in Count
           /\ count' = [count EXCEPT ![k.count].status = "closed"]
           /\ count'[k.count].status = "closed"
           /\ \A d \in Count : count'[d].lines = count[d].lines
           /\ \A d \in Count \ {k.count} : count'[d] = count[d]
           /\ ~Contended(k.count) =>
                count[k.count].status = "open" /\ k.lines = count[k.count].lines
<1>0. VerifyInvariant /\ WorldType /\ HandlersFit /\ Alone
  BY DEF LossInvariant
<1>1. Closing(w) /\ k.count \in Count /\ k.pc = "write"
  BY <1>0 DEF WriteClose, Closing, Busy, VerifyInvariant, HandlersKnow
<1>2. DOMAIN k.lines \subseteq Item /\ \A i \in DOMAIN k.lines : k.lines[i] \in LineType
  BY <1>0, <1>1 DEF HandlersFit, CloseFits
<1>3. CloseMoves(k) /\ WorldType' /\ WorldGoes
  BY <1>0, <1>2, CloseGoes
<1>4. count' = [count EXCEPT ![k.count].status = "closed"] /\ DOMAIN count = Count
  BY <1>0 DEF WriteClose, VerifyInvariant, HandlersKnow
<1>5. /\ count'[k.count].status = "closed"
      /\ \A d \in Count : count'[d].lines = count[d].lines
      /\ \A d \in Count \ {k.count} : count'[d] = count[d]
  BY <1>1, <1>4
<1>6. ~Contended(k.count) => count[k.count].status = "open" /\ k.lines = count[k.count].lines
  BY <1>0, <1>1 DEF Alone, Current
<1> QED BY <1>1, <1>3, <1>4, <1>5, <1>6

LEMMA WriteCloseKeepsLoss ==
    ASSUME LossInvariant, VerifyInvariant', NEW w \in Worker, WriteClose(w)
    PROVE  LossInvariant'
<1>0. VerifyInvariant /\ WorldType /\ LinesFit /\ HandlersFit /\ Alone /\ DocumentsFit
  BY DEF LossInvariant
<1>1. PICK k : k = call[w]
  OBVIOUS
<1>2. PICK c : c = k.count
  OBVIOUS
<1>3. /\ CloseMoves(k) /\ WorldType' /\ WorldGoes /\ Closing(w) /\ c \in Count
      /\ count'[c].status = "closed"
      /\ \A d \in Count : count'[d].lines = count[d].lines
      /\ \A d \in Count \ {c} : count'[d] = count[d]
      /\ ~Contended(c) => count[c].status = "open" /\ k.lines = count[c].lines
  BY <1>1, <1>2, CloseWrites
<1>4. call' = [call EXCEPT ![w] = Idle] /\ overlaps' = overlaps
  BY DEF WriteClose, Finish
<1>5. \A v \in Worker : (Saving(v) \/ Closing(v))' =>
        /\ v # w /\ Still(v) /\ (Saving(v)' <=> Saving(v)) /\ (Closing(v)' <=> Closing(v))
        /\ call[v].count \in Count
  BY <1>0, <1>4 DEF Saving, Closing, Busy, Still, Idle, VerifyInvariant, HandlersKnow
<1>6. LinesFit'
  <2> SUFFICES ASSUME NEW d \in Count
               PROVE  /\ DOMAIN count'[d].lines \subseteq Item
                      /\ \A i \in DOMAIN count'[d].lines : LineFits(i, count[d].lines[i])'
    BY DEF LinesFit
  <2> QED BY <1>0, <1>3, LinesStay
<1>7. \A d \in Count : OpeningKept(d)
  BY <1>3 DEF OpeningKept
<1>8. ASSUME NEW v \in Worker, Saving(v)' PROVE SaveFits(v)'
  <2>1. Saving(v) /\ call'[v] = call[v] /\ call[v].count \in Count /\ OpeningKept(call[v].count)
    BY <1>5, <1>7, <1>8 DEF Still
  <2>2. SaveFits(v)
    BY <1>0, <2>1 DEF HandlersFit
  <2> QED BY <1>0, <1>3, <2>1, <2>2, SaveStays
<1>9. ASSUME NEW v \in Worker, Closing(v)' PROVE CloseFits(v)'
  BY <1>0, <1>5, <1>9 DEF HandlersFit, CloseFits, Still
<1>10. Apart'
  BY <1>0, <1>4, <1>5, ApartStays DEF Alone, Still
<1>11. ASSUME NEW v \in Worker, (Saving(v) \/ Closing(v))' PROVE Current(v)'
  <2>1. /\ v # w /\ (Saving(v) \/ Closing(v)) /\ Current(v) /\ call'[v] = call[v]
        /\ (Closing(v)' <=> Closing(v)) /\ call[v].count \in Count
    BY <1>0, <1>5, <1>11 DEF Alone, Still
  <2>2. Contended(call[v].count)' <=> Contended(call[v].count)
    BY <1>4, <2>1 DEF Contended
  <2>3. CASE call[v].count = c
    <3>1. Contended(call[v].count)
      BY <1>0, <1>1, <1>2, <1>3, <2>1, <2>3 DEF Alone, Apart
    <3> QED BY <2>1, <2>2, <3>1 DEF Current, Contended
  <2>4. CASE call[v].count # c
    <3>1. count'[call[v].count] = count[call[v].count]
      BY <1>3, <2>1, <2>4
    <3> QED BY <2>1, <2>2, <3>1 DEF Current, Contended
  <2> QED BY <2>3, <2>4
<1>12. DocumentsFit'
  <2> SUFFICES ASSUME NEW d \in Count, ~Contended(d)'
               PROVE  IF count'[d].status = "closed"
                      THEN \/ DocumentsOf(d)' = {} /\ DOMAIN Variances(count'[d].lines) = {}
                           \/ \E e : DocumentsOf(d)' = {e} /\ e.lines = Variances(count'[d].lines)
                      ELSE DocumentsOf(d)' = {}
    BY DEF DocumentsFit, Variances
  <2>1. ~Contended(d)
    BY <1>4 DEF Contended
  <2>2. CASE d # c
    <3>1. DocumentsOf(d)' = DocumentsOf(d)
      BY <1>2, <1>3, <2>2 DEF DocumentsOf, CloseMoves
    <3>2. count'[d] = count[d]
      BY <1>3, <2>2
    <3> QED BY <1>0, <2>1, <3>1, <3>2 DEF DocumentsFit
  <2>3. CASE d = c
    <3>1. DocumentsOf(c) = {}
      BY <1>0, <1>3, <2>1, <2>3 DEF DocumentsFit
    <3>2. k.lines = count'[c].lines
      BY <1>3, <2>1, <2>3
    <3>3. CASE DOMAIN Variances(k.lines) = {} /\ adjustments' = adjustments
      BY <1>3, <2>3, <3>1, <3>2, <3>3 DEF DocumentsOf
    <3>4. ASSUME NEW e, e.count = c, e.lines = Variances(k.lines), adjustments' = adjustments \cup {e}
          PROVE  DocumentsOf(c)' = {e} /\ e.lines = Variances(count'[c].lines)
      BY <3>1, <3>2, <3>4 DEF DocumentsOf
    <3> QED BY <1>2, <1>3, <2>3, <3>3, <3>4 DEF CloseMoves
  <2> QED BY <2>2, <2>3
<1> QED BY <1>3, <1>6, <1>8, <1>9, <1>10, <1>11, <1>12 DEF LossInvariant, HandlersFit, Alone

LEMMA WriteVerifyKeepsLoss ==
    ASSUME LossInvariant, VerifyInvariant', NEW w \in Worker, WriteVerify(w)
    PROVE  LossInvariant'
<1>1. /\ count' = [count EXCEPT ![call[w].count].verifiedBy = call[w].user]
      /\ call' = [call EXCEPT ![w] = Idle]
      /\ UNCHANGED <<onHand, adjustments, day, shelf, lost, moves, overlaps>>
  BY DEF WriteVerify, Finish, world
<1>2. DOMAIN count = Count /\ DOMAIN call = Worker /\ WorldType
  BY DEF LossInvariant, VerifyInvariant, HandlersKnow
<1>3. WorldType' /\ WorldGoes
  BY <1>1, <1>2, WorldStays
<1>4. \A c \in Count : count'[c].lines = count[c].lines /\ count'[c].status = count[c].status
  BY <1>1, <1>2
<1>5. \A v \in Worker : (Saving(v) \/ Closing(v))' => Still(v)
  BY <1>1, <1>2 DEF Saving, Closing, Busy, Still, Idle
<1> QED BY <1>1, <1>3, <1>4, <1>5, OrdinaryStep

\* A handler that begins and neither saves nor closes.
LEMMA OtherBegins ==
    ASSUME LossInvariant, VerifyInvariant', NEW w \in Worker, NEW c, Start(w, c),
           UNCHANGED <<count, onHand, adjustments, day, shelf, lost, moves>>,
           c.op \notin {"save", "close"}
    PROVE  LossInvariant'
<1>1. WorldType' /\ WorldGoes
  BY WorldStays DEF LossInvariant
<1>2. call' = [call EXCEPT ![w] = c] /\ overlaps \subseteq overlaps' /\ DOMAIN call = Worker
  BY DEF Start, LossInvariant, VerifyInvariant, HandlersKnow
<1>3. \A v \in Worker : (Saving(v) \/ Closing(v))' => Still(v)
  BY <1>2 DEF Saving, Closing, Busy, Still
<1> QED BY <1>1, <1>2, <1>3, OrdinaryStep

LEMMA LossStep == LossInvariant /\ [Next]_vars => LossInvariant'
<1> SUFFICES ASSUME LossInvariant, [Next]_vars PROVE LossInvariant'
  OBVIOUS
<1>0. VerifyInvariant' /\ WorldType
  BY VerifyStep DEF LossInvariant
<1>1. ASSUME NEW w \in Worker, NEW u \in User, NEW c \in Count, NEW kind \in Kind,
             StartOpen(w, u, c, kind)
      PROVE  LossInvariant'
  <2>1. PICK o : o = [pc |-> "write", op |-> "open", count |-> c, user |-> u, kind |-> kind, day |-> day]
    OBVIOUS
  <2>2. Start(w, o) /\ UNCHANGED <<count, onHand, adjustments, day, shelf, lost, moves>>
    BY <1>1, <2>1 DEF StartOpen, world
  <2>3. o.op \notin {"save", "close"}
    BY <2>1
  <2> QED BY <1>0, <2>2, <2>3, OtherBegins
<1>2. ASSUME NEW w \in Worker, NEW u \in User, NEW c \in Count, StartVerify(w, u, c)
      PROVE  LossInvariant'
  <2>1. PICK v : v = [pc |-> "write", op |-> "verify", count |-> c, user |-> u]
    OBVIOUS
  <2>2. Start(w, v) /\ UNCHANGED <<count, onHand, adjustments, day, shelf, lost, moves>>
    BY <1>2, <2>1 DEF StartVerify, world
  <2>3. v.op \notin {"save", "close"}
    BY <2>1
  <2> QED BY <1>0, <2>2, <2>3, OtherBegins
<1>3. CASE UNCHANGED <<count, adjustments, call, overlaps>> /\ WorldType' /\ WorldGoes
  <2>1. \A v \in Worker : (Saving(v) \/ Closing(v))' => Still(v)
    BY <1>3 DEF Saving, Closing, Busy, Still
  <2> QED BY <1>0, <1>3, <2>1, OrdinaryStep
<1>4. ASSUME NEW move \in Moves, Move(move[1], move[2])
      PROVE  LossInvariant'
  <2>1. move[1] \in Item /\ move[2] \in Int
    BY CountsAssumption
  <2>2. WorldType' /\ WorldGoes
    BY <1>0, <1>4, <2>1, MoveGoes
  <2>3. UNCHANGED <<count, adjustments, call, overlaps>>
    BY <1>4 DEF Move
  <2> QED BY <1>3, <2>2, <2>3
<1>5. ASSUME NEW i \in Item, Lose(i) PROVE LossInvariant'
  <2>1. UNCHANGED <<count, adjustments, call, overlaps>>
    BY <1>5 DEF Lose
  <2> QED BY <1>0, <1>3, <1>5, <2>1, LoseGoes
<1>6. CASE NextDay \/ UNCHANGED vars
  <2>1. UNCHANGED <<count, call, overlaps, onHand, adjustments, shelf, lost, moves>>
    BY <1>6 DEF NextDay, vars
  <2> QED BY <1>0, <1>3, <2>1, WorldStays
<1>7. ASSUME NEW w \in Worker, Drop(w) PROVE LossInvariant'
  <2>1. /\ call' = [call EXCEPT ![w] = Idle]
        /\ UNCHANGED <<count, overlaps, onHand, adjustments, shelf, lost, moves>>
    BY <1>7 DEF Drop, Finish, world
  <2>2. DOMAIN call = Worker
    BY DEF LossInvariant, VerifyInvariant, HandlersKnow
  <2>3. WorldType' /\ WorldGoes
    BY <1>0, <2>1, WorldStays
  <2>4. \A v \in Worker : (Saving(v) \/ Closing(v))' => Still(v)
    BY <2>1, <2>2 DEF Saving, Closing, Busy, Still, Idle
  <2> QED BY <1>0, <2>1, <2>3, <2>4, OrdinaryStep
<1>8. ASSUME NEW w \in Worker, NEW c \in Count, NEW batch, NEW cleared,
             StartSave(w, c, batch, cleared)
      PROVE  LossInvariant'
  BY <1>0, <1>8, StartSaveKeepsLoss
<1>9. ASSUME NEW w \in Worker, NEW c \in Count, StartClose(w, c) PROVE LossInvariant'
  BY <1>0, <1>9, StartCloseKeepsLoss
<1>10. ASSUME NEW w \in Worker,
              WriteOpen(w) \/ WriteSave(w) \/ ReadLines(w) \/ WriteClose(w) \/ WriteVerify(w)
       PROVE  LossInvariant'
  BY <1>0, <1>10, WriteOpenKeepsLoss, WriteSaveKeepsLoss, ReadLinesKeepsLoss, WriteCloseKeepsLoss,
     WriteVerifyKeepsLoss
<1> QED BY <1>1, <1>2, <1>4, <1>5, <1>6, <1>7, <1>8, <1>9, <1>10 DEF Next

LEMMA LossStart == Init => LossInvariant
<1> SUFFICES ASSUME Init PROVE LossInvariant
  OBVIOUS
<1>1. VerifyInvariant
  BY DEF Init, VerifyInvariant, VerifiedByAnother, HandlersKnow, Busy, Idle, NoCount
<1>2. /\ onHand = OpeningStock /\ adjustments = {} /\ shelf = [i \in Item |-> Expected(i)]
      /\ lost = [i \in Item |-> 0] /\ moves = [i \in Item |-> 0]
  BY DEF Init
<1>3. DOMAIN onHand \subseteq Item /\ \A i \in Item : Expected(i) \in Int
  BY <1>2, CountsAssumption DEF Expected
<1>4. IsFiniteSet(adjustments) /\ \A d \in adjustments : d.no \in Nat /\ d.no <= Cardinality(adjustments)
  BY <1>2, FS_EmptySet
<1>5. WorldType
  BY <1>2, <1>3, <1>4 DEF WorldType
<1>6. \A c \in Count : DOMAIN count[c].lines = {} /\ count[c].status = "none"
  BY DEF Init, NoCount
<1>7. LinesFit
  BY <1>6 DEF LinesFit
<1>8. \A w \in Worker : ~Saving(w) /\ ~Closing(w)
  BY DEF Init, Saving, Closing, Busy, Idle
<1>9. HandlersFit /\ Alone
  BY <1>8 DEF HandlersFit, Alone, Apart
<1>10. DocumentsFit
  BY <1>2, <1>6 DEF DocumentsFit, DocumentsOf
<1> QED BY <1>1, <1>5, <1>7, <1>9, <1>10 DEF LossInvariant

LEMMA DocumentsTell == LossInvariant => ClosedAsCounted
<1> SUFFICES ASSUME LossInvariant, NEW c \in Count, count[c].status = "closed", ~Contended(c)
             PROVE  /\ Cardinality(DocumentsOf(c)) <= 1
                    /\ \A i \in DOMAIN count[c].lines :
                        LET line == count[c].lines[i] IN
                        AdjustedBy(c, i) = IF line.counted = Uncounted THEN 0
                                           ELSE line.counted - line.expected
  BY DEF ClosedAsCounted
<1>1. PICK lines : lines = count[c].lines
  OBVIOUS
<1>2. DOMAIN lines \subseteq Item /\ \A i \in DOMAIN lines : lines[i] \in LineType
  BY <1>1 DEF LossInvariant, LinesFit, LineFits
<1>3. \A i \in DOMAIN lines : lines[i].counted \in Int /\ lines[i].expected \in Int
  BY <1>2 DEF LineType
<1>4. \A i \in DOMAIN lines :
        /\ i \in DOMAIN Variances(lines) <=> lines[i].counted \notin {Uncounted, lines[i].expected}
        /\ i \in DOMAIN Variances(lines) => Variances(lines)[i] = lines[i].counted - lines[i].expected
  BY DEF Variances
<1>5. \/ DocumentsOf(c) = {} /\ DOMAIN Variances(lines) = {}
      \/ \E d : DocumentsOf(c) = {d} /\ d.lines = Variances(lines)
  BY <1>1 DEF LossInvariant, DocumentsFit
<1>6. Cardinality(DocumentsOf(c)) <= 1
  <2>1. DocumentsOf(c) = {} => Cardinality(DocumentsOf(c)) = 0
    BY FS_EmptySet
  <2>2. ASSUME NEW d, DocumentsOf(c) = {d} PROVE Cardinality(DocumentsOf(c)) = 1
    BY <2>2, FS_Singleton
  <2> QED BY <1>5, <2>1, <2>2
<1>7. ASSUME NEW i \in DOMAIN lines
      PROVE  AdjustedBy(c, i) = IF lines[i].counted = Uncounted THEN 0
                                ELSE lines[i].counted - lines[i].expected
  <2>1. PICK S : S = {d \in DocumentsOf(c) : i \in DOMAIN d.lines}
    OBVIOUS
  <2>2. PICK f : f = [d \in S |-> d.lines[i]]
    OBVIOUS
  <2>3. AdjustedBy(c, i) = SumFunction(f)
    BY <2>1, <2>2 DEF AdjustedBy
  <2>4. CASE i \notin DOMAIN Variances(lines)
    <3>1. S = {}
      BY <1>5, <2>1, <2>4
    <3>2. f \in [{} -> Int]
      BY <2>2, <3>1
    <3>3. SumFunction(f) = 0
      BY <3>2, SumEmpty
    <3>4. lines[i].counted # Uncounted => lines[i].counted - lines[i].expected = 0
      BY <1>3, <1>4, <2>4
    <3> QED BY <2>3, <3>3, <3>4
  <2>5. CASE i \in DOMAIN Variances(lines)
    <3>1. PICK d : DocumentsOf(c) = {d} /\ d.lines = Variances(lines)
      BY <1>5, <2>5
    <3>2. S = {d}
      BY <2>1, <2>5, <3>1
    <3>3. f[d] = lines[i].counted - lines[i].expected /\ lines[i].counted # Uncounted
      BY <1>4, <2>2, <2>5, <3>1, <3>2
    <3>4. f \in [S -> Int] /\ IsFiniteSet(S) /\ d \in S
      <4>1. IsFiniteSet(S) /\ d \in S
        BY <3>2, FS_Singleton
      <4>2. f[d] \in Int
        BY <1>3, <3>3
      <4> QED BY <2>2, <3>2, <4>1, <4>2
    <3>5. \A e \in S \ {d} : f[e] = 0
      BY <3>2
    <3>6. SumFunction(f) = f[d]
      BY ONLY <3>4, <3>5, SumOfOne
    <3> QED BY <2>3, <3>3, <3>6
  <2> QED BY <2>4, <2>5
<1> QED BY <1>1, <1>6, <1>7

\* A count that was open and is closed was closed by a handler's WriteClose.
LEMMA ClosedByClose ==
    ASSUME LossInvariant, [Next]_vars, NEW c \in Count,
           count[c].status = "open", count'[c].status = "closed"
    PROVE  \E w \in Worker : WriteClose(w) /\ call[w].count = c
<1>1. DOMAIN count = Count
  BY DEF LossInvariant, VerifyInvariant, HandlersKnow
<1>2. count'[c] # count[c]
  OBVIOUS
<1>3. PICK w \in Worker : WriteOpen(w) \/ WriteSave(w) \/ WriteClose(w) \/ WriteVerify(w)
  BY <1>2 DEF Next, vars, StartOpen, StartVerify, StartSave, StartClose, ReadLines, Drop, Move, Lose, NextDay
<1>4. ~WriteOpen(w)
  <2> SUFFICES ASSUME WriteOpen(w) PROVE FALSE
    OBVIOUS
  <2>1. PICK row : row.status = "open" /\ count' = [count EXCEPT ![call[w].count] = row]
    <3>1. PICK row : row = [status |-> "open", kind |-> call[w].kind, day |-> call[w].day,
                      countedBy |-> call[w].user, verifiedBy |-> Nobody,
                      lines |-> [i \in Scope(call[w].kind) |->
                                 [expected |-> Expected(i), counted |-> Uncounted,
                                  opened |-> Mark(i), seen |-> Mark(i)]]]
      OBVIOUS
    <3>2. row.status = "open"
      BY <3>1
    <3> QED BY <3>1, <3>2 DEF WriteOpen
  <2> QED BY <1>1, <2>1
<1>5. ~WriteSave(w)
  <2> SUFFICES ASSUME WriteSave(w) PROVE FALSE
    OBVIOUS
  <2>1. PICK lines : count' = [count EXCEPT ![call[w].count].lines = lines]
    BY DEF WriteSave
  <2> QED BY <1>1, <2>1
<1>6. ~WriteVerify(w)
  <2> SUFFICES ASSUME WriteVerify(w) PROVE FALSE
    OBVIOUS
  <2>1. PICK user : count' = [count EXCEPT ![call[w].count].verifiedBy = user]
    BY DEF WriteVerify
  <2> QED BY <1>1, <2>1
<1>7. WriteClose(w) /\ count' = [count EXCEPT ![call[w].count].status = "closed"]
  BY <1>3, <1>4, <1>5, <1>6 DEF WriteClose
<1> QED BY <1>1, <1>2, <1>7

LEMMA QuietClose ==
    ASSUME LossInvariant, [Next]_vars, NEW c \in Count
    PROVE  QuietCountFindsTheLoss(c)
<1> SUFFICES ASSUME count[c].status = "open", count'[c].status = "closed", ~Contended(c),
                    NEW i \in DOMAIN count[c].lines, NEW line, line = count[c].lines[i],
                    line.counted # Uncounted, line.seen.moves = line.opened.moves,
                    Mark(i).adjusted = line.opened.adjusted
             PROVE  Expected(i)' - shelf'[i] = lost'[i] - line.seen.lost
  BY DEF QuietCountFindsTheLoss
<1>1. PICK w \in Worker : WriteClose(w) /\ call[w].count = c
  BY ClosedByClose
<1>2. PICK k : k = call[w]
  OBVIOUS
<1>3. CloseMoves(k) /\ k.lines = count[c].lines
  BY <1>1, <1>2, CloseWrites
<1>4. i \in Item /\ LineFits(i, line) /\ line \in LineType /\ WorldType
  BY DEF LossInvariant, LinesFit, LineFits
<1>5. AdjustedOf(i) = line.opened.adjusted
  BY <1>4, MarkTypes
<1>6. line.expected = line.counted + line.seen.lost + (Expected(i) - shelf[i] - lost[i])
  BY <1>4, <1>5 DEF LineFits, Answers, Gap
<1>7. /\ line.expected \in Int /\ line.counted \in Int /\ line.seen.lost \in Nat
      /\ Expected(i) \in Int /\ shelf[i] \in Int /\ lost[i] \in Nat
  BY <1>4 DEF LineType, MarkType, WorldType
<1>8. Expected(i)' = Expected(i) + (line.counted - line.expected)
  <2>1. CASE i \in DOMAIN Variances(k.lines)
    <3>1. Variances(k.lines)[i] = line.counted - line.expected
      BY <1>3, <2>1 DEF Variances
    <3> QED BY <1>3, <1>4, <2>1, <3>1 DEF CloseMoves
  <2>2. CASE i \notin DOMAIN Variances(k.lines)
    <3>1. line.counted = line.expected
      BY <1>3, <2>2 DEF Variances
    <3>2. Expected(i)' = Expected(i)
      BY <1>3, <1>4, <2>2 DEF CloseMoves
    <3> QED BY <1>7, <3>1, <3>2
  <2> QED BY <2>1, <2>2
<1>9. shelf' = shelf /\ lost' = lost
  BY <1>1 DEF WriteClose
<1>10. Expected(i)' - shelf[i] = lost[i] - line.seen.lost
  BY <1>6, <1>7, <1>8
<1> QED BY <1>9, <1>10

\* What a count is for (FR-CNT-02, 06, 08): the ledger gets what the closed count shows and
\* nothing else, once, and of an item no document moved between the opening and the counting it is left
\* above the shelf by exactly what was lost since it was counted, although the expected
\* quantities are frozen at the opening and the lines are read outside the transaction
\* that closes.
THEOREM CountsFindTheLoss == Spec => CountFindsTheLoss
<1>1. LossInvariant /\ LossInvariant' /\ [Next]_vars
      => [ClosedAsCounted' /\ \A c \in Count : QuietCountFindsTheLoss(c)]_vars
  <2>1. LossInvariant' => ClosedAsCounted'
    BY DocumentsTell, PTL
  <2>2. LossInvariant /\ [Next]_vars => \A c \in Count : QuietCountFindsTheLoss(c)
    BY QuietClose
  <2> QED BY <2>1, <2>2
<1> QED BY <1>1, LossStart, LossStep, PTL DEF Spec, CountFindsTheLoss
=============================================================================
