---------------------------- MODULE OfficeProofs ----------------------------
(***************************************************************************)
(* Proofs about what the office keeps and what it reads.  Branches, for any *)
(* branches, roles' logins and handlers, and whatever the catalogue's       *)
(* handlers do meanwhile: the first section of a branch is its one store    *)
(* and stays open, so every place that the rest of the system looks up is   *)
(* there.  Catalogue beside it: nothing that is changed reinterprets the    *)
(* past, and what is offered can be used.  TradeReports, for any prices,    *)
(* percentages, suppliers and days: no jump of a price goes unreported, and *)
(* the money and the papers that are chased all are on their lists.         *)
(* StockReports, for any openings, floors, recipes and days: the reports    *)
(* and the lists tell one story of the stock, and every loss is in it.      *)
(***************************************************************************)
EXTENDS Branches, StockReports, TradeReports, SumsProofs

\* A handler that has nothing to do with branches and sections.
Harmless(h) ==
    /\ "pc" \in DOMAIN h
    /\ h.pc = "moved?" => "op" \in DOMAIN h /\ h.op = "item"
    /\ ~(h.pc = "insert" /\ h.op = "section")
    /\ ~(h.pc = "write" /\ h.op \in {"branch", "switch"})

Adds(h) == h.pc = "insert" /\ h.op = "section"
Switches(h) == h.pc = "write" /\ h.op = "switch"
Closes(h) == h.pc = "write" /\ h.op = "branch"

\* What a handler found out before it writes is still so.
HandlerKnows(h) ==
    /\ "pc" \in DOMAIN h
    /\ h.pc = "moved?" => "op" \in DOMAIN h /\ h.op = "item"
    /\ Adds(h) => h.of \in DOMAIN branch /\ h.kind \in Kinds \ {"STORE"}
    /\ Switches(h) => /\ h.of \in Sections /\ h.active \in {"on", "off"}
                      /\ section[h.of].kind = "STORE" => h.active = "on"
    /\ Closes(h) => h.of \in DOMAIN branch \cap h.about /\ h.active \in {"on", "off"}

HandlersKnow ==
    /\ DOMAIN handler = Worker
    /\ \A w \in Worker : HandlerKnows(handler[w])

Rows ==
    /\ DOMAIN branch \subseteq Branch
    /\ \E n \in Nat : Sections = 1 .. n
    /\ \A s \in Sections : section[s] \in [branch : DOMAIN branch, kind : Kinds, active : BOOLEAN]

\* The store of a branch: open, the first of its sections, and the only one.
StoreOf(s, b) ==
    /\ section[s].branch = b /\ section[s].kind = "STORE" /\ section[s].active
    /\ \A t \in Sections : section[t].branch = b => s <= t /\ (section[t].kind = "STORE" => t = s)

StoresStand == \A b \in DOMAIN branch : \E s \in Sections : StoreOf(s, b)

\* A handler that closes a branch is the only one, and has left another open.
ClosersKnow ==
    \/ raced \cap Branch # {}
    \/ /\ \A v, w \in Worker : Closes(handler[v]) /\ Closes(handler[w]) => v = w
       /\ \A w \in Worker :
            Closes(handler[w]) /\ handler[w].active = "off" => OtherBranches(handler[w].of) # {}

BranchInvariant == HandlersKnow /\ Rows /\ StoresStand /\ ClosersKnow /\ SomeBranch

-----------------------------------------------------------------------------
(* The catalogue's handlers. *)

\* What a step of the catalogue may do to the handlers.
HarmlessStep ==
    /\ DOMAIN handler' = Worker
    /\ raced \subseteq raced'
    /\ \A w \in Worker : handler'[w] = handler[w] \/ Harmless(handler'[w])

LEMMA IdleIsHarmless == Harmless(Idle)
BY DEF Harmless, Idle

LEMMA HandlerIsHarmless ==
    ASSUME DOMAIN handler = Worker, NEW w \in Worker, NEW h, Harmless(h),
           handler' = [handler EXCEPT ![w] = h], raced \subseteq raced'
    PROVE  HarmlessStep
BY DEF HarmlessStep

LEMMA StartIsHarmless ==
    ASSUME DOMAIN handler = Worker, NEW w \in Worker, NEW h, Harmless(h), Start(w, h)
    PROVE  HarmlessStep
BY HandlerIsHarmless DEF Start

LEMMA FinishIsHarmless ==
    ASSUME DOMAIN handler = Worker, NEW w \in Worker, Finish(w) \/ Drop(w)
    PROVE  HarmlessStep
<1>1. handler' = [handler EXCEPT ![w] = Idle] /\ raced \subseteq raced'
  BY DEF Finish, End, Drop
<1> QED BY <1>1, HandlerIsHarmless, IdleIsHarmless

LEMMA CatalogueStarts ==
    ASSUME DOMAIN handler = Worker, NEW w \in Worker,
           \/ \E c \in Category, active \in {"on", "off"} : StartPatchCategory(w, c, active)
           \/ \E c \in Category, unit \in Unit, size \in Sizes : StartAddItem(w, c, unit, size)
           \/ \E i \in Item, size \in Sizes, default \in BOOLEAN : StartAddPack(w, i, size, default)
           \/ \E s \in Supplier, active \in {"on", "off"} : StartPatchSupplier(w, s, active)
           \/ \E name \in SupplierName : StartAddSupplier(w, name)
    PROVE  HarmlessStep
<1>1. ASSUME NEW c \in Category, NEW active \in {"on", "off"}, StartPatchCategory(w, c, active)
      PROVE  HarmlessStep
  <2>1. PICK h : h = [op |-> "category", pc |-> "write", about |-> {c}, of |-> c, active |-> active]
    OBVIOUS
  <2>2. Start(w, h)
    BY <1>1, <2>1 DEF StartPatchCategory
  <2>3. Harmless(h)
    BY <2>1 DEF Harmless
  <2> QED BY <2>2, <2>3, StartIsHarmless
<1>2. ASSUME NEW c \in Category, NEW unit \in Unit, NEW size \in Sizes, StartAddItem(w, c, unit, size)
      PROVE  HarmlessStep
  <2>1. PICK h : h = [op |-> "item", pc |-> "insert", about |-> {c}, category |-> c, unit |-> unit,
                      size |-> size]
    OBVIOUS
  <2>2. Start(w, h)
    BY <1>2, <2>1 DEF StartAddItem
  <2>3. Harmless(h)
    BY <2>1 DEF Harmless
  <2> QED BY <2>2, <2>3, StartIsHarmless
<1>3. ASSUME NEW i \in Item, NEW size \in Sizes, NEW default \in BOOLEAN,
             StartAddPack(w, i, size, default)
      PROVE  HarmlessStep
  <2>1. PICK h : h = [op |-> "addpack", pc |-> "insert", about |-> {i}, item |-> i, size |-> size,
                      default |-> default]
    OBVIOUS
  <2>2. Start(w, h)
    BY <1>3, <2>1 DEF StartAddPack
  <2>3. Harmless(h)
    BY <2>1 DEF Harmless
  <2> QED BY <2>2, <2>3, StartIsHarmless
<1>4. ASSUME NEW s \in Supplier, NEW active \in {"on", "off"}, StartPatchSupplier(w, s, active)
      PROVE  HarmlessStep
  <2>1. PICK h : h = [op |-> "supplier", pc |-> "write", about |-> {s}, of |-> s, active |-> active]
    OBVIOUS
  <2>2. Start(w, h)
    BY <1>4, <2>1 DEF StartPatchSupplier
  <2>3. Harmless(h)
    BY <2>1 DEF Harmless
  <2> QED BY <2>2, <2>3, StartIsHarmless
<1>5. ASSUME NEW name \in SupplierName, StartAddSupplier(w, name)
      PROVE  HarmlessStep
  <2>1. PICK h : h = [op |-> "supplier", pc |-> "insert", about |-> {name}, name |-> name]
    OBVIOUS
  <2>2. Start(w, h)
    BY <1>5, <2>1 DEF StartAddSupplier
  <2>3. Harmless(h)
    BY <2>1 DEF Harmless
  <2> QED BY <2>2, <2>3, StartIsHarmless
<1> QED BY <1>1, <1>2, <1>3, <1>4, <1>5

LEMMA CatalogueStartsChange ==
    ASSUME DOMAIN handler = Worker, NEW w \in Worker,
           \/ \E i \in Item, body \in ItemBodies : StartPatchItem(w, i, body)
           \/ \E p \in DOMAIN pack, body \in PackBodies : StartPatchPack(w, p, body)
           \/ \E p \in DOMAIN pack, s \in Supplier, how \in {"order", "delivery"} :
                StartUse(w, how, p, s)
    PROVE  HarmlessStep
<1>1. ASSUME NEW i \in Item, NEW body \in ItemBodies, StartPatchItem(w, i, body)
      PROVE  HarmlessStep
  <2>1. PICK about, pc : /\ Start(w, [op |-> "item", about |-> about, of |-> i, body |-> body,
                                      row |-> item[i], pc |-> pc])
                         /\ pc \in {"moved?", "write"}
    BY <1>1 DEF StartPatchItem
  <2>2. PICK h : h = [op |-> "item", about |-> about, of |-> i, body |-> body, row |-> item[i],
                      pc |-> pc]
    OBVIOUS
  <2>3. Harmless(h)
    BY <2>1, <2>2 DEF Harmless
  <2> QED BY <2>1, <2>2, <2>3, StartIsHarmless
<1>2. ASSUME NEW p \in DOMAIN pack, NEW body \in PackBodies, StartPatchPack(w, p, body)
      PROVE  HarmlessStep
  <2>1. PICK h : h = [op |-> "pack", pc |-> "write", about |-> {pack[p].item}, of |-> p,
                      body |-> body, row |-> pack[p]]
    OBVIOUS
  <2>2. Start(w, h)
    BY <1>2, <2>1 DEF StartPatchPack
  <2>3. Harmless(h)
    BY <2>1 DEF Harmless
  <2> QED BY <2>2, <2>3, StartIsHarmless
<1>3. ASSUME NEW p \in DOMAIN pack, NEW s \in Supplier, NEW how \in {"order", "delivery"},
             StartUse(w, how, p, s)
      PROVE  HarmlessStep
  <2>1. PICK about, line : Start(w, [op |-> how, pc |-> "write", about |-> about, supplier |-> s,
                                     line |-> line])
    BY <1>3 DEF StartUse
  <2>2. PICK h : h = [op |-> how, pc |-> "write", about |-> about, supplier |-> s, line |-> line]
    OBVIOUS
  <2>3. Harmless(h)
    BY <2>2 DEF Harmless
  <2> QED BY <2>1, <2>2, <2>3, StartIsHarmless
<1> QED BY <1>1, <1>2, <1>3

\* A handler that goes on, to another place of the catalogue's.
LEMMA GoesOnHarmless ==
    ASSUME DOMAIN handler = Worker, NEW w \in Worker, HandlerKnows(handler[w]),
           NEW pc, At(w, pc), pc = "heir" \/ (pc = "write" /\ handler[w].pc = "moved?"), UNCHANGED raced
    PROVE  HarmlessStep
<1>1. PICK h : h = [handler[w] EXCEPT !.pc = pc]
  OBVIOUS
<1>2. handler' = [handler EXCEPT ![w] = h]
  BY <1>1 DEF At
<1>3. "pc" \in DOMAIN h /\ h.pc = pc
  BY <1>1 DEF HandlerKnows
<1>4. pc = "write" => h.op = "item"
  BY <1>1 DEF HandlerKnows
<1>5. Harmless(h)
  BY <1>3, <1>4 DEF Harmless
<1> QED BY <1>2, <1>5, HandlerIsHarmless

LEMMA CatalogueGoesOn ==
    ASSUME DOMAIN handler = Worker, NEW w \in Worker, HandlerKnows(handler[w]),
           \/ LookMoved(w) \/ WritePatchPack(w) \/ ClearOthers(w) \/ HandOn(w)
           \/ \E p \in Pack : WriteAddPack(w, p)
    PROVE  HarmlessStep
<1>1. CASE LookMoved(w)
  <2>1. /\ handler[w].pc = "moved?" /\ UNCHANGED raced
        /\ handler' = [handler EXCEPT ![w] = Idle] \/ At(w, "write")
    BY <1>1 DEF LookMoved, End
  <2> QED BY <2>1, HandlerIsHarmless, IdleIsHarmless, GoesOnHarmless
<1>2. CASE WritePatchPack(w)
  <2>1. \E h : /\ handler' = [handler EXCEPT ![w] = h] /\ UNCHANGED raced
               /\ \/ \E about, of, heir : h = [pc |-> "clear", about |-> about, of |-> of, heir |-> heir]
                  \/ \E about, of : h = [pc |-> "heir", about |-> about, of |-> of]
                  \/ h = Idle
    BY <1>2 DEF WritePatchPack
  <2>2. \A about, of, heir : Harmless([pc |-> "clear", about |-> about, of |-> of, heir |-> heir])
    BY DEF Harmless
  <2>3. \A about, of : Harmless([pc |-> "heir", about |-> about, of |-> of])
    BY DEF Harmless
  <2>4. PICK h : handler' = [handler EXCEPT ![w] = h] /\ raced' = raced /\ Harmless(h)
    BY <2>1, <2>2, <2>3, IdleIsHarmless
  <2> QED BY <2>4, HandlerIsHarmless
<1>3. CASE ClearOthers(w)
  <2>1. UNCHANGED raced /\ (At(w, "heir") \/ handler' = [handler EXCEPT ![w] = Idle])
    BY <1>3 DEF ClearOthers, End
  <2> QED BY <2>1, HandlerIsHarmless, IdleIsHarmless, GoesOnHarmless
<1>4. CASE HandOn(w)
  <2>1. \E h : /\ handler' = [handler EXCEPT ![w] = h] /\ UNCHANGED raced
               /\ \/ \E about, of, heir : h = [pc |-> "clear", about |-> about, of |-> of, heir |-> heir]
                  \/ h = Idle
    BY <1>4 DEF HandOn, End
  <2>2. \A about, of, heir : Harmless([pc |-> "clear", about |-> about, of |-> of, heir |-> heir])
    BY DEF Harmless
  <2>3. PICK h : handler' = [handler EXCEPT ![w] = h] /\ raced' = raced /\ Harmless(h)
    BY <2>1, <2>2, IdleIsHarmless
  <2> QED BY <2>3, HandlerIsHarmless
<1>5. ASSUME NEW p \in Pack, WriteAddPack(w, p)
      PROVE  HarmlessStep
  <2>1. \E h : /\ handler' = [handler EXCEPT ![w] = h] /\ UNCHANGED raced
               /\ \/ \E about, of, heir : h = [pc |-> "clear", about |-> about, of |-> of, heir |-> heir]
                  \/ h = Idle
    BY <1>5 DEF WriteAddPack
  <2>2. \A about, of, heir : Harmless([pc |-> "clear", about |-> about, of |-> of, heir |-> heir])
    BY DEF Harmless
  <2>3. PICK h : handler' = [handler EXCEPT ![w] = h] /\ raced' = raced /\ Harmless(h)
    BY <2>1, <2>2, IdleIsHarmless
  <2> QED BY <2>3, HandlerIsHarmless
<1> QED BY <1>1, <1>2, <1>3, <1>4, <1>5

LEMMA CatalogueIsHarmless ==
    ASSUME HandlersKnow, CatalogueNext
    PROVE  HarmlessStep
<1>1. DOMAIN handler = Worker /\ \A w \in Worker : HandlerKnows(handler[w])
  BY DEF HandlersKnow
<1>2. ASSUME NEW c \in Category, AddCategory(c)
      PROVE  HarmlessStep
  BY <1>1, <1>2 DEF AddCategory, HarmlessStep
<1>3. ASSUME NEW o \in Order, NEW status, Decide(o, status)
      PROVE  HarmlessStep
  BY <1>1, <1>3 DEF Decide, HarmlessStep
<1>4. ASSUME NEW w \in Worker,
             \/ WritePatchCategory(w) \/ WritePatchItem(w) \/ WritePatchSupplier(w)
             \/ WriteDelivery(w) \/ Drop(w)
             \/ \E i \in Item, p \in Pack : WriteAddItem(w, i, p)
             \/ \E o \in Order : WriteOrder(w, o)
             \/ \E s \in Supplier : WriteAddSupplier(w, s)
      PROVE  HarmlessStep
  <2>1. Finish(w) \/ Drop(w)
    BY <1>4 DEF WritePatchCategory, WritePatchItem, WritePatchSupplier, WriteDelivery, WriteAddItem,
                WriteOrder, WriteAddSupplier
  <2> QED BY <1>1, <2>1, FinishIsHarmless
<1> QED BY <1>1, <1>2, <1>3, <1>4, CatalogueStarts, CatalogueStartsChange, CatalogueGoesOn DEF CatalogueNext

LEMMA KnowsThen ==
    ASSUME NEW h, HandlerKnows(h) \/ Harmless(h), UNCHANGED <<branch, section>>
    PROVE  HandlerKnows(h)'
BY DEF HandlerKnows, Harmless, Adds, Switches, Closes, Sections

LEMMA HarmlessKeeps ==
    ASSUME BranchInvariant, HarmlessStep, UNCHANGED <<branch, section>>
    PROVE  BranchInvariant'
<1>1. /\ DOMAIN handler' = Worker /\ raced \subseteq raced'
      /\ branch' = branch /\ section' = section /\ Sections' = Sections
      /\ \A w \in Worker : handler'[w] = handler[w] \/ Harmless(handler'[w])
  BY DEF HarmlessStep, Sections
<1>2. HandlersKnow'
  <2>1. \A w \in Worker : \E h : h = handler'[w] /\ (HandlerKnows(h) \/ Harmless(h))
    BY <1>1 DEF BranchInvariant, HandlersKnow
  <2>2. \A h : HandlerKnows(h) \/ Harmless(h) => HandlerKnows(h)'
    BY KnowsThen
  <2>3. \A w \in Worker : \E h : h = handler'[w] /\ HandlerKnows(h)'
    BY <2>1, <2>2
  <2> QED BY <1>1, <2>3 DEF HandlersKnow, HandlerKnows
<1>3. Rows' /\ SomeBranch' /\ StoresStand'
  BY <1>1 DEF BranchInvariant, Rows, SomeBranch, StoresStand, StoreOf
<1>4. ClosersKnow'
  <2>1. \A w \in Worker : Closes(handler'[w]) => handler'[w] = handler[w]
    BY <1>1 DEF Harmless, Closes
  <2>2. \A b : OtherBranches(b)' = OtherBranches(b)
    BY <1>1 DEF OtherBranches
  <2> QED BY <1>1, <2>1, <2>2 DEF BranchInvariant, ClosersKnow
<1> QED BY <1>2, <1>3, <1>4 DEF BranchInvariant

-----------------------------------------------------------------------------
(* The handlers of branches and sections. *)

LEMMA KnowsStill ==
    ASSUME NEW h, HandlerKnows(h), DOMAIN branch \subseteq DOMAIN branch', Sections \subseteq Sections',
           \A s \in Sections : section'[s].kind = section[s].kind
    PROVE  HandlerKnows(h)'
BY DEF HandlerKnows, Adds, Switches, Closes

LEMMA HandlersGoOn ==
    ASSUME HandlersKnow, NEW w \in Worker, NEW new, handler' = [handler EXCEPT ![w] = new],
           HandlerKnows(new)', \A h : HandlerKnows(h) => HandlerKnows(h)'
    PROVE  HandlersKnow'
<1>1. \A v \in Worker : \E h : h = handler'[v] /\ HandlerKnows(h)'
  BY DEF HandlersKnow
<1> QED BY <1>1 DEF HandlersKnow, HandlerKnows

LEMMA ClosersGoOn ==
    ASSUME ClosersKnow, HandlersKnow, NEW w \in Worker, NEW new, handler' = [handler EXCEPT ![w] = new],
           ~Closes(new), raced \subseteq raced',
           \A b \in DOMAIN branch : OtherBranches(b) \subseteq OtherBranches(b)'
    PROVE  ClosersKnow'
<1>1. \A v \in Worker : Closes(handler'[v]) => v # w /\ handler'[v] = handler[v]
  BY DEF HandlersKnow
<1>2. \A v \in Worker : Closes(handler[v]) => handler[v].of \in DOMAIN branch
  BY DEF HandlersKnow, HandlerKnows
<1> QED BY <1>1, <1>2 DEF ClosersKnow

\* A new section comes last.
LEMMA NewSectionIsLast ==
    ASSUME Rows, NEW b, NEW kind, NewSection(b, kind)
    PROVE  \E s : /\ s \notin Sections /\ Sections' = Sections \cup {s}
                  /\ \A t \in Sections : t <= s /\ section'[t] = section[t]
                  /\ section'[s] = [branch |-> b, kind |-> kind, active |-> TRUE]
                  /\ s \in Nat /\ Sections \cup {s} = 1 .. s
<1>1. PICK n \in Nat : Sections = 1 .. n
  BY DEF Rows
<1>2. Cardinality(Sections) = n
  BY <1>1, FS_Interval
<1>3. section' = [t \in Sections \cup {n + 1} |->
                    IF t = n + 1 THEN [branch |-> b, kind |-> kind, active |-> TRUE] ELSE section[t]]
  BY <1>2 DEF NewSection, WithRow, Sections
<1>4. Sections' = Sections \cup {n + 1}
  BY <1>3 DEF Sections
<1>5. \A t \in Sections : t <= n + 1 /\ t # n + 1
  BY <1>1
<1>6. Sections \cup {n + 1} = 1 .. n + 1
  BY <1>1
<1> QED BY <1>3, <1>4, <1>5, <1>6

LEMMA AddBranchKeeps ==
    ASSUME BranchInvariant, NEW b \in Branch, AddBranch(b)
    PROVE  BranchInvariant'
<1>1. /\ b \notin DOMAIN branch /\ branch' = WithRow(branch, b, TRUE) /\ NewSection(b, "STORE")
      /\ handler' = handler /\ raced' = raced
  BY DEF AddBranch, catalogueVars
<1>2. /\ DOMAIN branch' = DOMAIN branch \cup {b} /\ branch'[b]
      /\ \A x \in DOMAIN branch : branch'[x] = branch[x]
  BY <1>1 DEF WithRow
<1>3. PICK s : /\ s \notin Sections /\ Sections' = Sections \cup {s}
               /\ \A t \in Sections : t <= s /\ section'[t] = section[t]
               /\ section'[s] = [branch |-> b, kind |-> "STORE", active |-> TRUE]
               /\ s \in Nat /\ Sections \cup {s} = 1 .. s
  BY <1>1, NewSectionIsLast DEF BranchInvariant
<1>4. Rows'
  <2>1. \E n \in Nat : Sections' = 1 .. n
    BY <1>3
  <2>2. ASSUME NEW t \in Sections'
        PROVE  section'[t] \in [branch : DOMAIN branch', kind : Kinds, active : BOOLEAN]
    <3>1. CASE t = s
      <4>1. "STORE" \in Kinds /\ b \in DOMAIN branch'
        BY <1>2 DEF Kinds, OwnedBy
      <4>2. [branch |-> b, kind |-> "STORE", active |-> TRUE]
              \in [branch : DOMAIN branch', kind : Kinds, active : BOOLEAN]
        BY <4>1
      <4> QED BY <1>3, <3>1, <4>2
    <3>2. CASE t \in Sections
      BY <1>2, <1>3, <3>2 DEF BranchInvariant, Rows
    <3> QED BY <1>3, <3>1, <3>2
  <2> QED BY <1>2, <2>1, <2>2 DEF BranchInvariant, Rows
<1>5. StoresStand'
  <2> SUFFICES ASSUME NEW x \in DOMAIN branch' PROVE \E t \in Sections' : StoreOf(t, x)'
    BY DEF StoresStand
  <2>1. CASE x = b
    <3>1. \A t \in Sections' : section'[t].branch = b => t = s
      BY <1>1, <1>3 DEF BranchInvariant, Rows
    <3>2. StoreOf(s, b)'
      BY <1>3, <3>1 DEF StoreOf
    <3> QED BY <1>3, <2>1, <3>2
  <2>2. CASE x \in DOMAIN branch
    <3>1. PICK t \in Sections : StoreOf(t, x)
      BY <2>2 DEF BranchInvariant, StoresStand
    <3>2. x # b
      BY <1>1, <2>2
    <3>3. StoreOf(t, x)'
      BY <1>3, <3>1, <3>2 DEF StoreOf
    <3> QED BY <1>3, <3>3
  <2> QED BY <1>2, <2>1, <2>2
<1>6. HandlersKnow'
  <2>1. \A h : HandlerKnows(h) => HandlerKnows(h)'
    BY <1>2, <1>3, KnowsStill
  <2>2. \A w \in Worker : \E h : h = handler'[w] /\ HandlerKnows(h)'
    BY <1>1, <2>1 DEF BranchInvariant, HandlersKnow
  <2>3. ASSUME NEW w \in Worker PROVE HandlerKnows(handler[w])'
    <3>1. PICK h : h = handler'[w] /\ HandlerKnows(h)'
      BY <2>2
    <3> QED BY <3>1 DEF HandlerKnows
  <2> QED BY <1>1, <2>3 DEF BranchInvariant, HandlersKnow
<1>7. ClosersKnow'
  <2>1. \A x : OtherBranches(x) \subseteq OtherBranches(x)'
    BY <1>2 DEF OtherBranches
  <2> QED BY <1>1, <2>1 DEF BranchInvariant, ClosersKnow
<1>8. SomeBranch'
  BY <1>2 DEF SomeBranch
<1> QED BY <1>4, <1>5, <1>6, <1>7, <1>8 DEF BranchInvariant

LEMMA StartPatchBranchKeeps ==
    ASSUME BranchInvariant, NEW w \in Worker, NEW b \in Branch, NEW active \in {"on", "off"},
           StartPatchBranch(w, b, active)
    PROVE  BranchInvariant'
<1>1. PICK new : new = [op |-> "branch", pc |-> "write", about |-> DOMAIN branch, of |-> b,
                        active |-> active]
  OBVIOUS
<1>2. /\ b \in DOMAIN branch /\ (active = "off" => OtherBranches(b) # {})
      /\ Start(w, new) /\ UNCHANGED <<branch, section>>
  BY <1>1 DEF StartPatchBranch
<1>3. /\ handler' = [handler EXCEPT ![w] = new] /\ raced \subseteq raced'
      /\ raced' = raced \cup UNION {handler[v].about \cap new.about : v \in Worker}
  BY <1>2 DEF Start
<1>4. HandlersKnow'
  <2>1. HandlerKnows(new)
    BY <1>1, <1>2 DEF HandlerKnows, Adds, Switches, Closes
  <2>2. \A h : HandlerKnows(h) => HandlerKnows(h)'
    BY <1>2, KnowsThen
  <2> QED BY <1>3, <2>1, <2>2, HandlersGoOn DEF BranchInvariant
<1>5. ClosersKnow'
  <2>1. CASE \E v \in Worker : Closes(handler[v])
    <3>1. PICK v \in Worker : Closes(handler[v])
      BY <2>1
    <3>2. handler[v].of \in handler[v].about \cap new.about
      BY <1>1, <3>1 DEF BranchInvariant, HandlersKnow, HandlerKnows
    <3>3. handler[v].of \in raced' \cap Branch
      BY <1>1, <1>3, <3>2 DEF BranchInvariant, Rows
    <3> QED BY <3>3 DEF ClosersKnow
  <2>2. CASE \A v \in Worker : ~Closes(handler[v])
    <3>1. DOMAIN handler = Worker
      BY DEF BranchInvariant, HandlersKnow
    <3>2. /\ \A v \in Worker : Closes(handler'[v]) => v = w
          /\ handler'[w] = new
      BY <1>3, <2>2, <3>1
    <3>3. \A x : OtherBranches(x)' = OtherBranches(x)
      BY <1>2 DEF OtherBranches
    <3>4. new.of = b /\ new.active = active
      BY <1>1
    <3>5. \A u, v \in Worker : Closes(handler'[u]) /\ Closes(handler'[v]) => u = v
      BY <3>2
    <3>6. \A v \in Worker :
            Closes(handler'[v]) /\ handler'[v].active = "off" =>
              \E x : x = handler'[v].of /\ OtherBranches(x)' # {}
      BY <1>2, <3>2, <3>3, <3>4
    <3> QED BY <3>5, <3>6 DEF ClosersKnow, OtherBranches
  <2> QED BY <2>1, <2>2
<1>6. Rows' /\ SomeBranch' /\ StoresStand'
  BY <1>2, <1>3 DEF BranchInvariant, Rows, SomeBranch, StoresStand, StoreOf, Sections
<1> QED BY <1>4, <1>5, <1>6 DEF BranchInvariant

LEMMA WritePatchBranchKeeps ==
    ASSUME BranchInvariant, NEW w \in Worker, WritePatchBranch(w)
    PROVE  BranchInvariant'
<1>1. PICK h : h = handler[w]
  OBVIOUS
<1>2. /\ Closes(h) /\ branch' = [branch EXCEPT ![h.of] = Switched(h.active, branch[h.of])]
      /\ section' = section /\ raced' = raced /\ handler' = [handler EXCEPT ![w] = Idle]
  BY <1>1 DEF WritePatchBranch, Finish, End, Closes
<1>3. h.of \in DOMAIN branch /\ h.active \in {"on", "off"}
  BY <1>1, <1>2 DEF BranchInvariant, HandlersKnow, HandlerKnows
<1>4. DOMAIN branch' = DOMAIN branch /\ Sections' = Sections
  BY <1>2 DEF Sections
<1>5. Rows' /\ StoresStand'
  <2>1. Rows'
    BY <1>2, <1>4 DEF BranchInvariant, Rows
  <2>2. \A s, b : StoreOf(s, b) => StoreOf(s, b)'
    BY <1>2, <1>4 DEF StoreOf
  <2>3. StoresStand'
    BY <1>4, <2>2 DEF BranchInvariant, StoresStand
  <2> QED BY <2>1, <2>3
<1>6. HandlersKnow'
  <2>1. HandlerKnows(Idle)'
    BY DEF HandlerKnows, Idle, Adds, Switches, Closes
  <2>2. \A x : HandlerKnows(x) => HandlerKnows(x)'
    BY <1>2, <1>4, KnowsStill
  <2> QED BY <1>2, <2>1, <2>2, HandlersGoOn DEF BranchInvariant
<1>7. ASSUME raced \cap Branch = {}
      PROVE  \A v \in Worker : ~Closes(handler'[v])
  <2>1. \A v \in Worker \ {w} : ~Closes(handler[v])
    BY <1>1, <1>2, <1>7 DEF BranchInvariant, ClosersKnow
  <2>2. ~Closes(Idle)
    BY DEF Closes, Idle
  <2> QED BY <1>2, <2>1, <2>2 DEF BranchInvariant, HandlersKnow
<1>8. ClosersKnow'
  BY <1>2, <1>7 DEF ClosersKnow
<1>9. SomeBranch'
  <2> SUFFICES ASSUME raced \cap Branch = {} PROVE \E b \in DOMAIN branch' : branch'[b]
    BY <1>2 DEF SomeBranch
  <2>1. CASE h.active = "off"
    <3>1. OtherBranches(h.of) # {}
      BY <1>1, <1>2, <2>1 DEF BranchInvariant, ClosersKnow
    <3>2. PICK b \in DOMAIN branch \ {h.of} : branch[b]
      BY <3>1 DEF OtherBranches
    <3> QED BY <1>2, <1>4, <3>2
  <2>2. CASE h.active = "on"
    <3>1. Switched(h.active, branch[h.of]) = TRUE
      BY <2>2 DEF Switched, Keep
    <3>2. branch'[h.of] = TRUE
      BY <1>2, <1>3, <3>1
    <3> QED BY <1>3, <1>4, <3>2
  <2> QED BY <1>3, <2>1, <2>2
<1> QED BY <1>5, <1>6, <1>8, <1>9 DEF BranchInvariant

\* The handlers of sections are no closers.
LEMMA StartOther ==
    ASSUME BranchInvariant, NEW w \in Worker, NEW new, Start(w, new), HandlerKnows(new), ~Closes(new),
           UNCHANGED <<branch, section>>
    PROVE  BranchInvariant'
<1>1. handler' = [handler EXCEPT ![w] = new] /\ raced \subseteq raced'
  BY DEF Start
<1>2. \A h : HandlerKnows(h) => HandlerKnows(h)'
  BY KnowsThen
<1>3. HandlersKnow'
  BY <1>1, <1>2, HandlersGoOn DEF BranchInvariant
<1>4. \A b : OtherBranches(b)' = OtherBranches(b)
  BY DEF OtherBranches
<1>5. ClosersKnow'
  BY <1>1, <1>4, ClosersGoOn DEF BranchInvariant
<1>6. Rows' /\ SomeBranch' /\ StoresStand'
  BY <1>1 DEF BranchInvariant, Rows, SomeBranch, StoresStand, StoreOf, Sections
<1> QED BY <1>3, <1>5, <1>6 DEF BranchInvariant

LEMMA StartAddSectionKeeps ==
    ASSUME BranchInvariant, NEW w \in Worker, NEW b \in Branch, NEW kind \in Kinds,
           StartAddSection(w, b, kind)
    PROVE  BranchInvariant'
<1>1. PICK new : new = [op |-> "section", pc |-> "insert", about |-> {}, of |-> b, kind |-> kind]
  OBVIOUS
<1>2. /\ b \in DOMAIN branch /\ (kind = "STORE" => HasNoStore(b))
      /\ Start(w, new) /\ UNCHANGED <<branch, section>>
  BY <1>1 DEF StartAddSection
<1>3. PICK s \in Sections : StoreOf(s, b)
  BY <1>2 DEF BranchInvariant, StoresStand
<1>4. s \in Stores(b)
  BY <1>3 DEF StoreOf, Stores, Open
<1>5. kind # "STORE"
  BY <1>2, <1>4 DEF HasNoStore
<1>6. HandlerKnows(new) /\ ~Closes(new)
  BY <1>1, <1>2, <1>5 DEF HandlerKnows, Adds, Switches, Closes
<1> QED BY <1>2, <1>6, StartOther

LEMMA StartPatchSectionKeeps ==
    ASSUME BranchInvariant, NEW w \in Worker, NEW s \in Sections, NEW active \in {"on", "off"},
           StartPatchSection(w, s, active)
    PROVE  BranchInvariant'
<1>1. PICK new : new = [op |-> "switch", pc |-> "write", about |-> {}, of |-> s, active |-> active]
  OBVIOUS
<1>2. MaySwitch(s, active) /\ Start(w, new) /\ UNCHANGED <<branch, section>>
  BY <1>1 DEF StartPatchSection
<1>3. HandlerKnows(new) /\ ~Closes(new)
  BY <1>1, <1>2 DEF MaySwitch, HandlerKnows, Adds, Switches, Closes
<1> QED BY <1>2, <1>3, StartOther

LEMMA WriteAddSectionKeeps ==
    ASSUME BranchInvariant, NEW w \in Worker, WriteAddSection(w)
    PROVE  BranchInvariant'
<1>1. PICK h : h = handler[w]
  OBVIOUS
<1>2. /\ Adds(h) /\ NewSection(h.of, h.kind) /\ branch' = branch /\ raced' = raced
      /\ handler' = [handler EXCEPT ![w] = Idle]
  BY <1>1 DEF WriteAddSection, Finish, End, Adds
<1>3. h.of \in DOMAIN branch /\ h.kind \in Kinds \ {"STORE"}
  BY <1>1, <1>2 DEF BranchInvariant, HandlersKnow, HandlerKnows
<1>4. PICK s : /\ s \notin Sections /\ Sections' = Sections \cup {s}
               /\ \A t \in Sections : t <= s /\ section'[t] = section[t]
               /\ section'[s] = [branch |-> h.of, kind |-> h.kind, active |-> TRUE]
               /\ s \in Nat /\ Sections \cup {s} = 1 .. s
  BY <1>2, NewSectionIsLast DEF BranchInvariant
<1>5. Rows'
  <2>1. \A t \in Sections' : section'[t] \in [branch : DOMAIN branch, kind : Kinds, active : BOOLEAN]
    <3>1. [branch |-> h.of, kind |-> h.kind, active |-> TRUE]
            \in [branch : DOMAIN branch, kind : Kinds, active : BOOLEAN]
      BY <1>3
    <3> QED BY <1>4, <3>1 DEF BranchInvariant, Rows
  <2>2. \E n \in Nat : Sections' = 1 .. n
    BY <1>4
  <2> QED BY <1>2, <2>1, <2>2 DEF BranchInvariant, Rows
<1>6. StoresStand'
  <2> SUFFICES ASSUME NEW b \in DOMAIN branch PROVE \E t \in Sections' : StoreOf(t, b)'
    BY <1>2 DEF StoresStand
  <2>1. PICK t \in Sections : StoreOf(t, b)
    BY DEF BranchInvariant, StoresStand
  <2>2. StoreOf(t, b)'
    BY <1>3, <1>4, <2>1 DEF StoreOf
  <2> QED BY <1>4, <2>2
<1>7. HandlersKnow'
  <2>1. HandlerKnows(Idle)'
    BY DEF HandlerKnows, Idle, Adds, Switches, Closes
  <2>2. \A x : HandlerKnows(x) => HandlerKnows(x)'
    BY <1>2, <1>4, KnowsStill
  <2> QED BY <1>2, <2>1, <2>2, HandlersGoOn DEF BranchInvariant
<1>8. ClosersKnow' /\ SomeBranch'
  <2>1. \A b : OtherBranches(b)' = OtherBranches(b)
    BY <1>2 DEF OtherBranches
  <2>2. ~Closes(Idle)
    BY DEF Closes, Idle
  <2> QED BY <1>2, <2>1, <2>2, ClosersGoOn DEF BranchInvariant, SomeBranch
<1> QED BY <1>5, <1>6, <1>7, <1>8 DEF BranchInvariant

LEMMA WritePatchSectionKeeps ==
    ASSUME BranchInvariant, NEW w \in Worker, WritePatchSection(w)
    PROVE  BranchInvariant'
<1>1. PICK h : h = handler[w]
  OBVIOUS
<1>2. /\ Switches(h) /\ branch' = branch /\ raced' = raced
      /\ section' = [section EXCEPT ![h.of].active = Switched(h.active, section[h.of].active)]
      /\ handler' = [handler EXCEPT ![w] = Idle]
  BY <1>1 DEF WritePatchSection, Finish, End, Switches
<1>3. /\ h.of \in Sections /\ h.active \in {"on", "off"}
      /\ section[h.of].kind = "STORE" => h.active = "on"
  BY <1>1, <1>2 DEF BranchInvariant, HandlersKnow, HandlerKnows
<1>4. PICK new : new = Switched(h.active, section[h.of].active)
  OBVIOUS
<1>5. section[h.of].kind = "STORE" => new = TRUE
  BY <1>3, <1>4 DEF Switched, Keep
<1>6. section' = [section EXCEPT ![h.of] = [section[h.of] EXCEPT !.active = new]]
  BY <1>2, <1>4
<1>7. /\ Sections' = Sections
      /\ \A s \in Sections : /\ section'[s].branch = section[s].branch
                             /\ section'[s].kind = section[s].kind
                             /\ s # h.of => section'[s] = section[s]
  BY <1>6 DEF Sections
<1>8. Rows'
  <2>1. new \in BOOLEAN
    BY <1>3, <1>4 DEF Switched, Keep
  <2>2. \A s \in Sections : section'[s] \in [branch : DOMAIN branch, kind : Kinds, active : BOOLEAN]
    BY <1>6, <2>1 DEF BranchInvariant, Rows
  <2> QED BY <1>2, <1>7, <2>2 DEF BranchInvariant, Rows
<1>9. StoresStand'
  <2> SUFFICES ASSUME NEW b \in DOMAIN branch PROVE \E t \in Sections' : StoreOf(t, b)'
    BY <1>2 DEF StoresStand
  <2>1. PICK t \in Sections : StoreOf(t, b)
    BY DEF BranchInvariant, StoresStand
  <2>2. section'[t].active
    <3>1. CASE t # h.of
      BY <1>7, <2>1, <3>1 DEF StoreOf
    <3>2. CASE t = h.of 
      BY <1>3, <1>5, <1>6, <2>1, <3>2 DEF StoreOf, BranchInvariant, Rows
    <3> QED BY <3>1, <3>2
  <2>3. StoreOf(t, b)'
    BY <1>7, <2>1, <2>2 DEF StoreOf
  <2> QED BY <1>7, <2>3
<1>10. HandlersKnow'
  <2>1. HandlerKnows(Idle)'
    BY DEF HandlerKnows, Idle, Adds, Switches, Closes
  <2>2. \A x : HandlerKnows(x) => HandlerKnows(x)'
    BY <1>2, <1>7, KnowsStill
  <2> QED BY <1>2, <2>1, <2>2, HandlersGoOn DEF BranchInvariant
<1>11. ClosersKnow' /\ SomeBranch'
  <2>1. \A b : OtherBranches(b)' = OtherBranches(b)
    BY <1>2 DEF OtherBranches
  <2>2. ~Closes(Idle)
    BY DEF Closes, Idle
  <2> QED BY <1>2, <2>1, <2>2, ClosersGoOn DEF BranchInvariant, SomeBranch
<1> QED BY <1>8, <1>9, <1>10, <1>11 DEF BranchInvariant

-----------------------------------------------------------------------------
(* The invariant. *)

LEMMA BranchesBegin ==
    ASSUME Init
    PROVE  BranchInvariant
<1>1. branch = << >> /\ section = << >> /\ handler = [w \in Worker |-> Idle]
  BY DEF Init, CatalogueInit
<1>2. DOMAIN branch = {} /\ Sections = {}
  BY <1>1 DEF Sections
<1>3. HandlersKnow /\ ClosersKnow
  <2>1. HandlerKnows(Idle) /\ ~Closes(Idle)
    BY DEF HandlerKnows, Idle, Adds, Switches, Closes
  <2>2. \A w \in Worker : handler[w] = Idle
    BY <1>1
  <2> QED BY <1>1, <2>1, <2>2 DEF HandlersKnow, ClosersKnow
<1>4. Rows /\ StoresStand /\ SomeBranch
  <2>1. Sections = 1 .. 0
    BY <1>2
  <2> QED BY <1>2, <2>1 DEF Rows, StoresStand, SomeBranch
<1> QED BY <1>3, <1>4 DEF BranchInvariant

LEMMA BranchesStepKeeps ==
    ASSUME BranchInvariant, [Next]_vars
    PROVE  BranchInvariant'
<1>1. CASE CatalogueNext /\ UNCHANGED <<branch, section>>
  BY <1>1, CatalogueIsHarmless, HarmlessKeeps DEF BranchInvariant
<1>2. CASE BranchesNext
  <2>1. ASSUME NEW w \in Worker, Drop(w) /\ UNCHANGED <<branch, section>>
        PROVE  BranchInvariant'
    BY <2>1, FinishIsHarmless, HarmlessKeeps DEF BranchInvariant, HandlersKnow
  <2> QED BY <1>2, <2>1, AddBranchKeeps, StartPatchBranchKeeps, WritePatchBranchKeeps,
             StartAddSectionKeeps, StartPatchSectionKeeps, WriteAddSectionKeeps,
             WritePatchSectionKeeps DEF BranchesNext
<1>3. CASE UNCHANGED vars
  <2>1. DOMAIN handler = Worker
    BY DEF BranchInvariant, HandlersKnow
  <2>2. HarmlessStep /\ UNCHANGED <<branch, section>>
    BY <1>3, <2>1 DEF vars, catalogueVars, HarmlessStep
  <2> QED BY <2>2, HarmlessKeeps
<1> QED BY <1>1, <1>2, <1>3 DEF Next

\* The invariant holds, whatever two admins do to branches, sections and the
\* catalogue at once.
THEOREM BranchesAreKept == Spec => []BranchInvariant
BY BranchesBegin, BranchesStepKeeps, PTL DEF Spec

-----------------------------------------------------------------------------
(* The places that the rest of the system looks up. *)

\* Of some sections one is the first.
LEMMA FirstIsOne ==
    ASSUME NEW some, some \subseteq Nat, some # {}
    PROVE  First(some) \in some /\ \A t \in some : First(some) <= t
<1>1. PICK R : R = OpToRel(<, Nat)
  OBVIOUS
<1>2. IsWellFoundedOn(R, Nat)
  BY <1>1, NatLessThanWellFounded
<1>3. PICK s \in some : \A t \in some : <<t, s>> \notin R
  BY <1>2, WFMin
<1>4. \A t \in Nat : t < s => <<t, s>> \in R
  BY <1>1, <1>3 DEF OpToRel
<1>5. \A t \in some : s <= t
  <2> TAKE t \in some
  <2>1. s \in Nat /\ t \in Nat
    OBVIOUS
  <2>2. ~(t < s)
    BY <1>3, <1>4, <2>1
  <2> QED BY <2>1, <2>2
<1> QED BY <1>3, <1>5 DEF First

LEMMA PlacesAreFound ==
    ASSUME BranchInvariant, NEW b, NEW kinds, NEW open, open = Open(InBranch(b, kinds)), open # {}
    PROVE  First(open) \in open /\ First(open) # None /\ \A t \in open : First(open) <= t
<1>1. open \subseteq Sections
  BY DEF Open, InBranch
<1>2. open \subseteq Nat
  BY <1>1 DEF BranchInvariant, Rows
<1>3. First(open) \in open /\ \A t \in open : First(open) <= t
  BY <1>2, FirstIsOne
<1>4. First(open) \in Nat
  BY <1>2, <1>3
<1> QED BY <1>3, <1>4 DEF None

LEMMA OneStoreStands ==
    ASSUME BranchInvariant
    PROVE  OneStore
<1> SUFFICES ASSUME NEW b \in DOMAIN branch
             PROVE  Cardinality(Stores(b)) = 1 /\ homeSectionFor("storekeeper", b) \in Stores(b)
  BY DEF OneStore
<1>1. PICK s \in Sections : StoreOf(s, b)
  BY DEF BranchInvariant, StoresStand
<1>2. Stores(b) = {s}
  BY <1>1 DEF StoreOf, Stores, Open
<1>3. PICK open : open = Open(InBranch(b, kindsOwnedBy("storekeeper")))
  OBVIOUS
<1>4. kindsOwnedBy("storekeeper") = {"STORE", "QUARANTINE"}
  BY DEF kindsOwnedBy, Kinds, OwnedBy
<1>5. s \in open
  BY <1>1, <1>3, <1>4 DEF StoreOf, Open, InBranch
<1>6. First(open) \in open /\ First(open) <= s
  BY <1>3, <1>5, PlacesAreFound
<1>7. s <= First(open)
  BY <1>1, <1>3, <1>6 DEF StoreOf, Open, InBranch
<1>8. First(open) = s
  <2>1. s \in Nat /\ First(open) \in Sections
    BY <1>3, <1>6 DEF Open, InBranch, BranchInvariant, Rows
  <2>2. First(open) \in Nat
    BY <2>1 DEF BranchInvariant, Rows
  <2> QED BY <1>6, <1>7, <2>1, <2>2
<1>9. homeSectionFor("storekeeper", b) = First(open)
  BY <1>3, <1>4, <1>5 DEF homeSectionFor
<1> QED BY <1>2, <1>8, <1>9, FS_Singleton

LEMMA HomelessAreWarned ==
    ASSUME BranchInvariant
    PROVE  WarnsWhenHomeless
<1> SUFFICES ASSUME NEW b \in DOMAIN branch, NEW role \in Role
             PROVE  /\ noSectionWarning(role, b) <=> homeSectionFor(role, b) = None
                    /\ homeSectionFor(role, b) \in sectionsForUser(role, b) \cup {None}
                    /\ noSectionWarning(role, b) <=>
                         \E row \in usersWithNoSection : row.role = role /\ row.branch = b
  BY DEF WarnsWhenHomeless
<1>1. PICK wanted : wanted = IF kindsOwnedBy(role) # {} THEN kindsOwnedBy(role) ELSE {"STORE"}
  OBVIOUS
<1>2. PICK open : open = Open(InBranch(b, wanted))
  OBVIOUS
<1>3. homeSectionFor(role, b) = IF open = {} THEN None ELSE First(open)
  BY <1>1, <1>2 DEF homeSectionFor
<1>4. kindsOwnedBy(role) = {} => open # {}
  <2>1. PICK s \in Sections : StoreOf(s, b)
    BY DEF BranchInvariant, StoresStand
  <2> QED BY <1>1, <1>2, <2>1 DEF StoreOf, Open, InBranch
<1>5. open # {} => First(open) \in open /\ First(open) # None
  BY <1>2, PlacesAreFound
<1>6. noSectionWarning(role, b) <=> open = {}
  BY <1>1, <1>2, <1>4 DEF noSectionWarning, sectionsOwnedBy
<1>7. homeSectionFor(role, b) \in sectionsForUser(role, b) \cup {None}
  <2>1. wanted \subseteq kindsVisibleTo(role)
    BY <1>1 DEF kindsVisibleTo, kindsOwnedBy, Kinds, OwnedBy, Role
  <2>2. open \subseteq sectionsForUser(role, b)
    BY <1>2, <2>1 DEF Open, InBranch, sectionsForUser
  <2> QED BY <1>3, <1>5, <2>2
<1>8. noSectionWarning(role, b) <=>
        \E row \in usersWithNoSection : row.role = role /\ row.branch = b
  <2>1. ASSUME noSectionWarning(role, b)
        PROVE  \E row \in usersWithNoSection : row.role = role /\ row.branch = b
    <3>1. PICK at : at = <<role, b>>
      OBVIOUS
    <3>2. /\ at \in Role \X DOMAIN branch /\ at[1] = role /\ at[2] = b
          /\ kindsOwnedBy(at[1]) # {} /\ Open(sectionsOwnedBy(at[1], at[2])) = {}
      BY <2>1, <3>1 DEF noSectionWarning
    <3>3. PICK row : row = [role |-> at[1], branch |-> at[2],
                            reason |-> IF sectionsOwnedBy(at[1], at[2]) = {} THEN "never added"
                                       ELSE "switched off"]
      OBVIOUS
    <3>4. row.role = role /\ row.branch = b
      BY <3>2, <3>3
    <3>5. row \in usersWithNoSection
      BY <3>2, <3>3 DEF usersWithNoSection
    <3> QED BY <3>4, <3>5
  <2>2. ASSUME NEW row \in usersWithNoSection, row.role = role, row.branch = b
        PROVE  noSectionWarning(role, b)
    <3>1. PICK at : /\ kindsOwnedBy(at[1]) # {} /\ Open(sectionsOwnedBy(at[1], at[2])) = {}
                    /\ row = [role |-> at[1], branch |-> at[2],
                              reason |-> IF sectionsOwnedBy(at[1], at[2]) = {} THEN "never added"
                                         ELSE "switched off"]
      BY ZenonT(30) DEF usersWithNoSection
    <3>2. row.role = at[1] /\ row.branch = at[2]
      BY <3>1
    <3> QED BY <2>2, <3>1, <3>2 DEF noSectionWarning
  <2> QED BY <2>1, <2>2
<1> QED BY <1>3, <1>5, <1>6, <1>7, <1>8

LEMMA QuarantineKept ==
    ASSUME BranchInvariant
    PROVE  QuarantineIsKept
<1> SUFFICES ASSUME NEW b \in DOMAIN branch, NEW role \in Role \ {"admin", "management"},
                    assertSectionAllowed(role, b, quarantineSectionFor(b))
             PROVE  role \in whoCanUse("QUARANTINE")
  BY DEF QuarantineIsKept
<1>1. PICK open : open = Open(InBranch(b, {"QUARANTINE"}))
  OBVIOUS
<1>2. quarantineSectionFor(b) = IF open = {} THEN None ELSE First(open)
  BY <1>1 DEF quarantineSectionFor
<1>3. quarantineSectionFor(b) \in Sections /\ section[quarantineSectionFor(b)].kind \in kindsVisibleTo(role)
  BY DEF assertSectionAllowed, sectionsForUser, InBranch
<1>4. quarantineSectionFor(b) \in open
  <2>1. None \notin Sections
    BY DEF None, BranchInvariant, Rows
  <2> QED BY <1>1, <1>2, <1>3, <2>1, PlacesAreFound
<1>5. "QUARANTINE" \in kindsVisibleTo(role)
  BY <1>1, <1>3, <1>4 DEF Open, InBranch
<1> QED BY <1>5 DEF kindsVisibleTo, kindsOwnedBy, Kinds, OwnedBy, Role, whoCanUse

\* However two admins create and switch branches and sections at once, each branch
\* keeps the one store that half the system looks up, some branch stays open unless
\* two switches overlapped, the two warnings fire exactly when the server would
\* find no section for a role, and the quarantine is closed to the kitchens.
THEOREM EveryPlaceIsFound == Spec => []EveryoneHasAPlace
<1>1. BranchInvariant => EveryoneHasAPlace
  BY OneStoreStands, HomelessAreWarned, QuarantineKept DEF EveryoneHasAPlace, BranchInvariant
<1> QED BY <1>1, BranchesAreKept, PTL

-----------------------------------------------------------------------------
(* Catalogue: what is changed while it is used. *)

\* What a handler of the catalogue is about to do.
PatchesCategory(h) == h.pc = "write" /\ h.op = "category"
AddsItem(h) == h.pc = "insert" /\ h.op = "item"
PatchesItem(h) == h.pc = "moved?" \/ (h.pc = "write" /\ h.op = "item")
AddsPack(h) == h.pc = "insert" /\ h.op = "addpack"
PatchesPack(h) == h.pc = "write" /\ h.op = "pack"
Tidies(h) == h.pc \in {"clear", "heir"}
AddsSupplier(h) == h.pc = "insert" /\ h.op = "supplier"
PatchesSupplier(h) == h.pc = "write" /\ h.op = "supplier"
Uses(h) == h.pc = "write" /\ h.op \in {"order", "delivery"}

ItemRows == [category : DOMAIN category, unit : Unit, active : BOOLEAN]
PackRows == [item : DOMAIN item, size : Sizes, default : BOOLEAN, active : BOOLEAN]

CatalogueRows ==
    /\ category \in [DOMAIN category -> BOOLEAN]
    /\ item \in [DOMAIN item -> ItemRows] /\ IsFiniteSet(DOMAIN item)
    /\ pack \in [DOMAIN pack -> PackRows]
    /\ supplier \in [DOMAIN supplier -> [name : SupplierName, active : BOOLEAN]]
    /\ order \in [Order -> {NoOrder} \cup
                     [status : {"requested", "approved", "ordered", "done"}, supplier : DOMAIN supplier]]
    /\ \A u \in used : /\ u.pack \in DOMAIN pack /\ u.item \in DOMAIN item
                       /\ u.item = pack[u.pack].item

\* What a handler holds, whoever comes in between: rows are never deleted, and a
\* pack never changes its item.
Sound(h) ==
    /\ {"pc", "about"} \subseteq DOMAIN h
    /\ PatchesCategory(h) => h.of \in DOMAIN category \cap h.about /\ h.active \in {"on", "off"}
    /\ AddsItem(h) => /\ h.category \in DOMAIN category \cap h.about
                      /\ h.unit \in Unit /\ h.size \in Sizes
    /\ PatchesItem(h) => /\ {"op", "of", "row", "body"} \subseteq DOMAIN h /\ h.op = "item"
                         /\ h.of \in DOMAIN item \cap h.about
                         /\ h.row \in ItemRows /\ h.body \in ItemBodies
                         /\ Or(h.body.category, h.row.category) \in DOMAIN category \cap h.about
                         /\ h.row.category \in h.about
    /\ AddsPack(h) => h.item \in DOMAIN item \cap h.about /\ h.size \in Sizes /\ h.default \in BOOLEAN
    /\ PatchesPack(h) => /\ h.of \in DOMAIN pack
                         /\ h.row \in PackRows /\ h.body \in PackBodies
                         /\ h.row.item = pack[h.of].item /\ h.row.item \in h.about
    /\ Tidies(h) => h.of \in DOMAIN pack /\ pack[h.of].item \in h.about
    /\ h.pc = "clear" => h.heir = FALSE
    /\ AddsSupplier(h) => h.name \in SupplierName
    /\ PatchesSupplier(h) => h.of \in DOMAIN supplier \cap h.about /\ h.active \in {"on", "off"}
    /\ Uses(h) => /\ h.line.pack \in DOMAIN pack /\ h.line.item \in DOMAIN item \cap h.about
                  /\ h.line.item = pack[h.line.pack].item /\ h.line.how = h.op
                  /\ h.supplier \in DOMAIN supplier \cap h.about

\* What a handler has found out, about things no other handler was about at once.
Finds(h) ==
    /\ PatchesCategory(h) /\ h.active = "off" /\ h.of \notin raced =>
         \A i \in itemsOffered : item[i].category # h.of
    /\ AddsItem(h) /\ h.category \notin raced => category[h.category]
    /\ PatchesItem(h) /\ h.of \notin raced =>
         /\ h.row = item[h.of]
         /\ h.pc = "write" /\ h.body.unit \notin {Keep, h.row.unit} => ~itemHasMoved(h.of)
         /\ h.body.active = "on" => h.of \in astray
         /\ h.body.category \notin {Keep} \cup raced /\ h.of \notin astray => category[h.body.category]
    /\ PatchesPack(h) /\ h.row.item \notin raced =>
         /\ h.row = pack[h.of]
         /\ h.body.size \notin {Same, h.row.size} => ~packHasBeenUsed(h.of)
         /\ h.body.active = "off" => ActivePacks(h.row.item) \ {h.of} # {}
         /\ h.body.default /\ ~h.row.active => h.row.item \in astray
    /\ h.pc = "heir" /\ pack[h.of].item \notin raced => Heirs(pack[h.of].item, h.of) # {}
    /\ h.pc = "clear" /\ pack[h.of].item \notin raced \cup astray => pack[h.of].default /\ pack[h.of].active
    /\ PatchesSupplier(h) /\ h.active = "off" /\ h.of \notin raced \cup astray =>
         \A o \in Order : order[o].status \notin {"none", "done"} => order[o].supplier # h.of
    /\ Uses(h) /\ h.line.item \notin raced =>
         h.line.size = pack[h.line.pack].size /\ h.line.unit = item[h.line.item].unit
    /\ Uses(h) /\ h.supplier \notin raced => supplier[h.supplier].active

\* A thing that is not on record as raced is in one handler's hands at most.
InOneHand ==
    \A v, w \in Worker : v # w => handler[v].about \cap handler[w].about \subseteq raced

\* The one default pack of an item, which is still sold.
DefaultOf(p, i) ==
    p \in PacksOf(i) /\ pack[p].active /\ \A q \in PacksOf(i) : pack[q].default <=> q = p

BeingTidied(i) == \E w \in Worker : Tidies(handler[w]) /\ pack[handler[w].of].item = i

DefaultsStand ==
    \A i \in itemsOffered \ (raced \cup astray) : BeingTidied(i) \/ \E p \in DOMAIN pack : DefaultOf(p, i)

CategoriesServe ==
    \A i \in itemsOffered :
        {i, item[i].category} \cap (raced \cup astray) = {} => category[item[i].category]

SuppliersServe ==
    \A o \in Order : order[o].status \notin {"none", "done"} /\ order[o].supplier \notin raced \cup astray
                       => supplier[order[o].supplier].active

HandlersFind ==
    /\ DOMAIN handler = Worker
    /\ \A w \in Worker : Sound(handler[w]) /\ Finds(handler[w])

CatalogueInvariant ==
    /\ CatalogueRows /\ HandlersFind /\ InOneHand
    /\ PastStandsAsRead /\ DefaultsStand /\ CategoriesServe /\ SuppliersServe

-----------------------------------------------------------------------------
(* What one handler's step leaves to the others. *)

\* No row goes, and no pack changes its item.
TablesGrow ==
    /\ DOMAIN category \subseteq DOMAIN category' /\ DOMAIN item \subseteq DOMAIN item'
    /\ DOMAIN pack \subseteq DOMAIN pack' /\ DOMAIN supplier \subseteq DOMAIN supplier'
    /\ \A p \in DOMAIN pack : pack'[p].item = pack[p].item

\* A step changes rows only of the things it is about, and what is new belongs to
\* one of them.
Confined(A) ==
    /\ \A c \in DOMAIN category \ A : category'[c] = category[c]
    /\ \A i \in DOMAIN item \ A : item'[i] = item[i]
    /\ \A i \in DOMAIN item' : (i \in DOMAIN item /\ item'[i] = item[i]) \/ item'[i].category \in A
    /\ \A p \in DOMAIN pack' : \/ p \in DOMAIN pack /\ pack'[p] = pack[p]
                               \/ pack'[p].item \in A \cup (DOMAIN item' \ DOMAIN item)
    /\ \A s \in DOMAIN supplier \ A : supplier'[s] = supplier[s]
    /\ \A o \in Order : \/ order'[o] = order[o]
                        \/ order'[o].supplier \in A
                        \/ order[o].status \notin {"none", "done"} /\ order'[o].supplier = order[o].supplier
    /\ \A u \in used' : u \in used \/ u.item \in A

LEMMA PacksStay ==
    ASSUME CatalogueRows, TablesGrow, NEW A, Confined(A), NEW i, i \in DOMAIN item \ A
    PROVE  /\ PacksOf(i)' = PacksOf(i)
           /\ \A p \in PacksOf(i) : pack'[p] = pack[p]
           /\ ActivePacks(i)' = ActivePacks(i)
<1>1. \A p \in PacksOf(i) : p \in DOMAIN pack' /\ pack'[p].item = i /\ pack'[p] = pack[p]
  BY DEF PacksOf, TablesGrow, Confined
<1>2. \A p \in PacksOf(i)' : p \in PacksOf(i)
  BY DEF PacksOf, Confined
<1>3. PacksOf(i)' = PacksOf(i)
  BY <1>1, <1>2 DEF PacksOf
<1> QED BY <1>1, <1>3 DEF ActivePacks

LEMMA SoundOn ==
    ASSUME CatalogueRows, TablesGrow, NEW h, Sound(h)
    PROVE  Sound(h)'
<1>1. \A row \in ItemRows : row \in ItemRows'
  BY DEF ItemRows, TablesGrow
<1>2. \A row \in PackRows : row \in PackRows'
  BY DEF PackRows, TablesGrow
<1>3. PatchesItem(h)' => /\ {"op", "of", "row", "body"} \subseteq DOMAIN h /\ h.op = "item"
                         /\ h.of \in DOMAIN item' \cap h.about
                         /\ h.row \in ItemRows' /\ h.body \in ItemBodies
                         /\ Or(h.body.category, h.row.category) \in DOMAIN category' \cap h.about
                         /\ h.row.category \in h.about
  BY <1>1 DEF Sound, TablesGrow, PatchesItem
<1>4. PatchesPack(h)' => /\ h.of \in DOMAIN pack'
                         /\ h.row \in PackRows' /\ h.body \in PackBodies
                         /\ h.row.item = pack'[h.of].item /\ h.row.item \in h.about
  BY <1>2 DEF Sound, TablesGrow, PatchesPack
<1>5. /\ Tidies(h) => h.of \in DOMAIN pack' /\ pack'[h.of].item \in h.about
      /\ Uses(h) => /\ h.line.pack \in DOMAIN pack' /\ h.line.item \in DOMAIN item' \cap h.about
                    /\ h.line.item = pack'[h.line.pack].item /\ h.line.how = h.op
                    /\ h.supplier \in DOMAIN supplier' \cap h.about
  BY DEF Sound, TablesGrow
<1>6. /\ PatchesCategory(h) => h.of \in DOMAIN category' \cap h.about /\ h.active \in {"on", "off"}
      /\ AddsItem(h) => /\ h.category \in DOMAIN category' \cap h.about
                        /\ h.unit \in Unit /\ h.size \in Sizes
      /\ AddsPack(h) => h.item \in DOMAIN item' \cap h.about /\ h.size \in Sizes /\ h.default \in BOOLEAN
      /\ PatchesSupplier(h) => h.of \in DOMAIN supplier' \cap h.about /\ h.active \in {"on", "off"}
  BY DEF Sound, TablesGrow
<1>7. {"pc", "about"} \subseteq DOMAIN h /\ (h.pc = "clear" => h.heir = FALSE)
      /\ (AddsSupplier(h) => h.name \in SupplierName)
  BY DEF Sound
<1> QED BY <1>3, <1>4, <1>5, <1>6, <1>7 DEF Sound, PatchesItem, PatchesPack, Tidies, Uses,
             PatchesCategory, AddsItem, AddsPack, PatchesSupplier, AddsSupplier

\* What one handler has found out stands whatever another does, unless the thing
\* they were both about is on record.
LEMMA FindsOn ==
    ASSUME CatalogueRows, CatalogueRows', TablesGrow, NEW A, Confined(A), NEW h, Sound(h), Finds(h),
           h.about \cap A \subseteq raced, raced \subseteq raced', astray \subseteq astray'
    PROVE  Finds(h)'
<1>1. ASSUME PatchesCategory(h), h.active = "off", h.of \notin raced'
      PROVE  \A i \in itemsOffered' : item'[i].category # h.of
  <2>1. h.of \notin A
    BY <1>1 DEF Sound
  <2>2. \A i \in itemsOffered : item[i].category # h.of
    BY <1>1 DEF Finds
  <2> QED BY <2>1, <2>2 DEF itemsOffered, Confined
<1>2. ASSUME AddsItem(h), h.category \notin raced' PROVE category'[h.category]
  <2>1. h.category \in DOMAIN category \ A /\ category[h.category]
    BY <1>2 DEF Sound, Finds
  <2> QED BY <2>1 DEF Confined
<1>3. ASSUME PatchesItem(h), h.of \notin raced'
      PROVE  /\ h.row = item'[h.of]
             /\ h.pc = "write" /\ h.body.unit \notin {Keep, h.row.unit} => ~itemHasMoved(h.of)'
             /\ h.body.active = "on" => h.of \in astray'
             /\ h.body.category \notin {Keep} \cup raced' /\ h.of \notin astray'
                  => category'[h.body.category]
  <2>1. h.of \in DOMAIN item \ A /\ h.of \notin raced
    BY <1>3 DEF Sound
  <2>2. /\ h.row = item[h.of]
        /\ h.pc = "write" /\ h.body.unit \notin {Keep, h.row.unit} => ~itemHasMoved(h.of)
        /\ h.body.active = "on" => h.of \in astray
        /\ h.body.category \notin {Keep} \cup raced /\ h.of \notin astray => category[h.body.category]
    BY <1>3, <2>1 DEF Finds
  <2>3. h.row = item'[h.of]
    BY <2>1, <2>2 DEF Confined
  <2>4. itemHasMoved(h.of)' => itemHasMoved(h.of)
    BY <2>1 DEF itemHasMoved, Confined
  <2>5. ASSUME h.body.category \notin {Keep} \cup raced', h.of \notin astray'
        PROVE  category'[h.body.category]
    <3>1. h.body.category \in DOMAIN category \cap h.about
      BY <1>3, <2>5 DEF Sound, Or
    <3>2. h.body.category \notin A /\ category[h.body.category]
      BY <2>2, <2>5, <3>1
    <3> QED BY <3>1, <3>2 DEF Confined
  <2> QED BY <2>2, <2>3, <2>4, <2>5
<1>4. ASSUME PatchesPack(h), h.row.item \notin raced'
      PROVE  /\ h.row = pack'[h.of]
             /\ h.body.size \notin {Same, h.row.size} => ~packHasBeenUsed(h.of)'
             /\ h.body.active = "off" => ActivePacks(h.row.item)' \ {h.of} # {}
             /\ h.body.default /\ ~h.row.active => h.row.item \in astray'
  <2>1. /\ h.row.item \in DOMAIN item \ A /\ h.row.item \notin raced
        /\ h.of \in DOMAIN pack /\ h.row.item = pack[h.of].item
    BY <1>4 DEF Sound, PackRows
  <2>2. /\ h.row = pack[h.of]
        /\ h.body.size \notin {Same, h.row.size} => ~packHasBeenUsed(h.of)
        /\ h.body.active = "off" => ActivePacks(h.row.item) \ {h.of} # {}
        /\ h.body.default /\ ~h.row.active => h.row.item \in astray
    BY <1>4, <2>1 DEF Finds
  <2>3. pack'[h.of] = pack[h.of] /\ ActivePacks(h.row.item)' = ActivePacks(h.row.item)
    BY <2>1, PacksStay DEF PacksOf
  <2>4. packHasBeenUsed(h.of)' => packHasBeenUsed(h.of)
    <3> SUFFICES ASSUME NEW u \in used', u.pack = h.of, u \notin used PROVE FALSE
      BY DEF packHasBeenUsed
    <3>1. u.item \in A
      BY DEF Confined
    <3>2. u.item = pack'[h.of].item
      BY DEF CatalogueRows
    <3> QED BY <2>1, <2>3, <3>1, <3>2
  <2> QED BY <2>2, <2>3, <2>4
<1>5. ASSUME h.pc = "heir", pack'[h.of].item \notin raced'
      PROVE  Heirs(pack[h.of].item, h.of)' # {}
  <2>1. h.of \in DOMAIN pack /\ pack'[h.of].item = pack[h.of].item /\ pack[h.of].item \in h.about
    BY <1>5 DEF Sound, Tidies, TablesGrow
  <2>2. PICK i : i = pack[h.of].item
    OBVIOUS
  <2>3. i \in DOMAIN item \ A /\ i \notin raced /\ Heirs(i, h.of) # {}
    BY <1>5, <2>1, <2>2 DEF Finds, CatalogueRows, PackRows
  <2>4. Heirs(i, h.of)' = Heirs(i, h.of)
    BY <2>3, PacksStay DEF Heirs
  <2> QED BY <2>1, <2>2, <2>3, <2>4
<1>6. ASSUME h.pc = "clear", pack'[h.of].item \notin raced' \cup astray'
      PROVE  pack'[h.of].default /\ pack'[h.of].active
  <2>1. h.of \in DOMAIN pack /\ pack'[h.of].item = pack[h.of].item /\ pack[h.of].item \in h.about
    BY <1>6 DEF Sound, Tidies, TablesGrow
  <2>2. pack[h.of].item \in DOMAIN item \ A /\ pack[h.of].item \notin raced \cup astray
    BY <1>6, <2>1 DEF CatalogueRows, PackRows
  <2>3. pack[h.of].default /\ pack[h.of].active
    BY <1>6, <2>2 DEF Finds
  <2>4. pack'[h.of] = pack[h.of]
    BY <2>1, <2>2, PacksStay DEF PacksOf
  <2> QED BY <2>3, <2>4
<1>7. ASSUME PatchesSupplier(h), h.active = "off", h.of \notin raced' \cup astray'
      PROVE  \A o \in Order : order'[o].status \notin {"none", "done"} => order'[o].supplier # h.of
  <2>1. h.of \notin A
    BY <1>7 DEF Sound
  <2>2. \A o \in Order : order[o].status \notin {"none", "done"} => order[o].supplier # h.of
    BY <1>7 DEF Finds
  <2> QED BY <2>1, <2>2 DEF Confined
<1>8. ASSUME Uses(h), h.line.item \notin raced'
      PROVE  h.line.size = pack'[h.line.pack].size /\ h.line.unit = item'[h.line.item].unit
  <2>1. /\ h.line.item \in DOMAIN item \ A /\ h.line.item \notin raced
        /\ h.line.pack \in PacksOf(h.line.item)
    BY <1>8 DEF Sound, PacksOf
  <2>2. h.line.size = pack[h.line.pack].size /\ h.line.unit = item[h.line.item].unit
    BY <1>8, <2>1 DEF Finds
  <2>3. pack'[h.line.pack] = pack[h.line.pack] /\ item'[h.line.item] = item[h.line.item]
    BY <2>1, PacksStay DEF Confined
  <2> QED BY <2>2, <2>3
<1>9. ASSUME Uses(h), h.supplier \notin raced' PROVE supplier'[h.supplier].active
  <2>1. h.supplier \in DOMAIN supplier \ A /\ supplier[h.supplier].active
    BY <1>9 DEF Sound, Finds
  <2> QED BY <2>1 DEF Confined
<1>10. Finds(h)' <=>
         /\ (PatchesCategory(h) /\ h.active = "off" /\ h.of \notin raced')
              => \A i \in itemsOffered' : item'[i].category # h.of
         /\ (AddsItem(h) /\ h.category \notin raced') => category'[h.category]
         /\ (PatchesItem(h) /\ h.of \notin raced') =>
             /\ h.row = item'[h.of]
             /\ h.pc = "write" /\ h.body.unit \notin {Keep, h.row.unit} => ~itemHasMoved(h.of)'
             /\ h.body.active = "on" => h.of \in astray'
             /\ h.body.category \notin {Keep} \cup raced' /\ h.of \notin astray'
                  => category'[h.body.category]
         /\ (PatchesPack(h) /\ h.row.item \notin raced') =>
             /\ h.row = pack'[h.of]
             /\ h.body.size \notin {Same, h.row.size} => ~packHasBeenUsed(h.of)'
             /\ h.body.active = "off" => ActivePacks(h.row.item)' \ {h.of} # {}
             /\ h.body.default /\ ~h.row.active => h.row.item \in astray'
         /\ (h.pc = "heir" /\ pack'[h.of].item \notin raced') => Heirs(pack[h.of].item, h.of)' # {}
         /\ (h.pc = "clear" /\ pack'[h.of].item \notin raced' \cup astray')
              => pack'[h.of].default /\ pack'[h.of].active
         /\ (PatchesSupplier(h) /\ h.active = "off" /\ h.of \notin raced' \cup astray')
              => \A o \in Order : order'[o].status \notin {"none", "done"} => order'[o].supplier # h.of
         /\ (Uses(h) /\ h.line.item \notin raced')
              => h.line.size = pack'[h.line.pack].size /\ h.line.unit = item'[h.line.item].unit
         /\ (Uses(h) /\ h.supplier \notin raced') => supplier'[h.supplier].active
  BY DEF Finds, PatchesCategory, AddsItem, PatchesItem, PatchesPack, PatchesSupplier, Uses
<1> HIDE DEF CatalogueRows, TablesGrow, Confined
<1> QED BY <1>1, <1>2, <1>3, <1>4, <1>5, <1>6, <1>7, <1>8, <1>9, <1>10

-----------------------------------------------------------------------------
(* One handler's step. *)

\* Worker w goes on as h; what it has changed is its own.
Goes(w, h) ==
    /\ handler' = [handler EXCEPT ![w] = h]
    /\ raced \subseteq raced' /\ astray \subseteq astray'
    /\ \A v \in Worker \ {w} : handler[v].about \cap h.about \subseteq raced'
    /\ Sound(h)' /\ Finds(h)'

LEMMA HandlersGo ==
    ASSUME CatalogueRows, HandlersFind, InOneHand, NEW w \in Worker, NEW h, Goes(w, h),
           TablesGrow, Confined(handler[w].about), CatalogueRows'
    PROVE  HandlersFind' /\ InOneHand'
<1>1. /\ DOMAIN handler' = Worker /\ handler'[w] = h
      /\ \A v \in Worker \ {w} : handler'[v] = handler[v]
  BY DEF Goes, HandlersFind
<1>2. \A v \in Worker \ {w} : Sound(handler[v])' /\ Finds(handler[v])'
  <2> SUFFICES ASSUME NEW v \in Worker \ {w} PROVE Sound(handler[v])' /\ Finds(handler[v])'
    OBVIOUS
  <2>1. PICK g : g = handler[v]
    OBVIOUS
  <2>2. Sound(g) /\ Finds(g) /\ g.about \cap handler[w].about \subseteq raced
    BY <2>1 DEF HandlersFind, InOneHand
  <2>3. Sound(g)' /\ Finds(g)'
    BY <2>2, SoundOn, FindsOn DEF Goes
  <2>4. handler'[v] = g
    BY <1>1, <2>1
  <2> QED BY <2>3, <2>4
<1>3. \A v \in Worker : Sound(handler[v])' /\ Finds(handler[v])'
  <2>1. Sound(handler[w])' /\ Finds(handler[w])'
    BY <1>1 DEF Goes
  <2> QED BY <1>2, <2>1
<1>4. InOneHand'
  BY <1>1 DEF Goes, InOneHand
<1> QED BY <1>1, <1>3, <1>4 DEF HandlersFind

\* The properties go on for whatever the step is not about.
LEMMA PastGoesOn ==
    ASSUME CatalogueRows, PastStandsAsRead, TablesGrow, NEW A, Confined(A), raced \subseteq raced',
           \A u \in used' : u.item \in A \ raced' =>
               u.size = pack'[u.pack].size /\ (u.how = "delivery" => u.unit = item'[u.item].unit)
    PROVE  PastStandsAsRead'
<1> SUFFICES ASSUME NEW u \in used', u.item \notin raced' \cup A
             PROVE  u.size = pack'[u.pack].size /\ (u.how = "delivery" => u.unit = item'[u.item].unit)
  BY DEF PastStandsAsRead
<1>1. u \in used /\ u.item \in DOMAIN item \ A /\ u.pack \in PacksOf(u.item)
  BY DEF Confined, CatalogueRows, PacksOf
<1>2. u.size = pack[u.pack].size /\ (u.how = "delivery" => u.unit = item[u.item].unit)
  BY <1>1 DEF PastStandsAsRead
<1>3. pack'[u.pack] = pack[u.pack] /\ item'[u.item] = item[u.item]
  BY <1>1, PacksStay DEF Confined
<1> QED BY <1>2, <1>3

LEMMA TidiedStill ==
    ASSUME HandlersFind, TablesGrow, NEW w \in Worker, NEW h, Goes(w, h),
           NEW i, BeingTidied(i), ~(Tidies(handler[w]) /\ pack[handler[w].of].item = i)
    PROVE  BeingTidied(i)'
<1>1. PICK v \in Worker : Tidies(handler[v]) /\ pack[handler[v].of].item = i
  BY DEF BeingTidied
<1>2. handler[v].of \in DOMAIN pack
  BY <1>1 DEF HandlersFind, Sound
<1>3. handler'[v] = handler[v]
  BY <1>1 DEF Goes, HandlersFind
<1>4. pack'[handler[v].of].item = i
  BY <1>1, <1>2 DEF TablesGrow
<1>5. Tidies(handler[v])'
  BY <1>1, <1>3 DEF Tidies
<1> QED BY <1>3, <1>4, <1>5 DEF BeingTidied

LEMMA DefaultKept ==
    ASSUME CatalogueRows, HandlersFind, DefaultsStand, TablesGrow,
           NEW w \in Worker, NEW h, Goes(w, h),
           NEW i, i \in itemsOffered \ (raced' \cup astray'),
           ~(Tidies(handler[w]) /\ pack[handler[w].of].item = i),
           PacksOf(i)' = PacksOf(i), \A p \in PacksOf(i) : pack'[p] = pack[p]
    PROVE  BeingTidied(i)' \/ \E p \in DOMAIN pack' : DefaultOf(p, i)'
<1>1. i \in itemsOffered \ (raced \cup astray)
  BY DEF Goes
<1>2. BeingTidied(i) => BeingTidied(i)'
  BY TidiedStill
<1>3. ASSUME NEW p \in DOMAIN pack, DefaultOf(p, i)
      PROVE  p \in DOMAIN pack' /\ DefaultOf(p, i)'
  BY <1>3 DEF DefaultOf, TablesGrow
<1> QED BY <1>1, <1>2, <1>3 DEF DefaultsStand

LEMMA DefaultsGoOn ==
    ASSUME CatalogueRows, HandlersFind, DefaultsStand, TablesGrow, CatalogueRows',
           NEW w \in Worker, NEW h, Goes(w, h), Confined(handler[w].about),
           \A i \in itemsOffered' \ (raced' \cup astray') :
             i \in handler[w].about \/ i \notin DOMAIN item =>
               BeingTidied(i)' \/ \E p \in DOMAIN pack' : DefaultOf(p, i)'
    PROVE  DefaultsStand'
<1> SUFFICES ASSUME NEW i \in itemsOffered' \ (raced' \cup astray'),
                    i \notin handler[w].about, i \in DOMAIN item
             PROVE  BeingTidied(i)' \/ \E p \in DOMAIN pack' : DefaultOf(p, i)'
  BY DEF DefaultsStand
<1>1. i \in itemsOffered
  BY DEF itemsOffered, Confined
<1>2. PacksOf(i)' = PacksOf(i) /\ \A p \in PacksOf(i) : pack'[p] = pack[p]
  BY PacksStay
<1>3. ~(Tidies(handler[w]) /\ pack[handler[w].of].item = i)
  BY DEF HandlersFind, Sound
<1> QED BY <1>1, <1>2, <1>3, DefaultKept

LEMMA CategoriesGoOn ==
    ASSUME CatalogueRows, CategoriesServe, NEW A, Confined(A),
           raced \subseteq raced', astray \subseteq astray',
           \A i \in itemsOffered' :
             {i, item'[i].category} \cap (raced' \cup astray') = {} /\ item'[i].category \in A
               => category'[item'[i].category]
    PROVE  CategoriesServe'
<1> SUFFICES ASSUME NEW i \in itemsOffered', {i, item'[i].category} \cap (raced' \cup astray') = {},
                    item'[i].category \notin A
             PROVE  category'[item'[i].category]
  BY DEF CategoriesServe
<1>1. i \in DOMAIN item /\ item'[i] = item[i]
  BY DEF itemsOffered, Confined
<1>2. category[item[i].category] /\ item[i].category \in DOMAIN category
  BY <1>1 DEF CategoriesServe, itemsOffered, CatalogueRows, ItemRows
<1> QED BY <1>1, <1>2 DEF Confined

LEMMA SuppliersGoOn ==
    ASSUME CatalogueRows, CatalogueRows', SuppliersServe, NEW A, Confined(A),
           raced \subseteq raced', astray \subseteq astray',
           \A o \in Order :
             order'[o].status \notin {"none", "done"} /\ order'[o].supplier \in A \ (raced' \cup astray')
               => supplier'[order'[o].supplier].active
    PROVE  SuppliersServe'
<1> SUFFICES ASSUME NEW o \in Order, order'[o].status \notin {"none", "done"},
                    order'[o].supplier \notin A \cup raced' \cup astray'
             PROVE  supplier'[order'[o].supplier].active
  BY DEF SuppliersServe
<1>1. order[o].status \notin {"none", "done"} /\ order'[o].supplier = order[o].supplier
  BY DEF Confined
<1>2. order[o].supplier \in DOMAIN supplier
  BY <1>1 DEF CatalogueRows, NoOrder
<1>3. supplier[order[o].supplier].active
  BY <1>1 DEF SuppliersServe
<1> QED BY <1>1, <1>2, <1>3 DEF Confined

-----------------------------------------------------------------------------
(* Steps that change no table of the catalogue. *)

LEMMA QuietStepKeeps ==
    ASSUME CatalogueInvariant, UNCHANGED tables, NEW w \in Worker, NEW h, Goes(w, h),
           Tidies(handler[w]) => handler[w].about \subseteq raced'
    PROVE  CatalogueInvariant'
<1>1. /\ category' = category /\ item' = item /\ pack' = pack /\ supplier' = supplier
      /\ order' = order /\ used' = used
  BY DEF tables
<1>2. TablesGrow /\ \A A : Confined(A)
  BY <1>1 DEF TablesGrow, Confined
<1>3. CatalogueRows'
  BY <1>1 DEF CatalogueInvariant, CatalogueRows, ItemRows, PackRows
<1>4. HandlersFind' /\ InOneHand'
  BY <1>2, <1>3, HandlersGo DEF CatalogueInvariant
<1>5. PastStandsAsRead' /\ CategoriesServe' /\ SuppliersServe'
  BY <1>1 DEF CatalogueInvariant, PastStandsAsRead, CategoriesServe, SuppliersServe, itemsOffered, Goes
<1>6. DefaultsStand'
  <2> SUFFICES ASSUME NEW i \in itemsOffered \ (raced' \cup astray'), i \in handler[w].about
               PROVE  BeingTidied(i)' \/ \E p \in DOMAIN pack' : DefaultOf(p, i)'
    BY <1>1, <1>2, <1>3, DefaultsGoOn DEF itemsOffered, CatalogueInvariant
  <2>1. i \notin raced \cup astray
    BY DEF Goes
  <2>2. CASE BeingTidied(i)
    <3>1. PICK v \in Worker : Tidies(handler[v]) /\ pack[handler[v].of].item = i
      BY <2>2 DEF BeingTidied
    <3>2. i \in handler[v].about
      BY <3>1 DEF CatalogueInvariant, HandlersFind, Sound
    <3>3. v # w
      BY <3>1
    <3>4. handler'[v] = handler[v]
      BY <3>3 DEF Goes, CatalogueInvariant, HandlersFind
    <3> QED BY <1>1, <3>1, <3>4 DEF BeingTidied, Tidies
  <2>3. ASSUME NEW p \in DOMAIN pack, DefaultOf(p, i) PROVE DefaultOf(p, i)'
    BY <1>1, <2>3 DEF DefaultOf, PacksOf
  <2> QED BY <1>1, <2>1, <2>2, <2>3 DEF CatalogueInvariant, DefaultsStand
<1> QED BY <1>3, <1>4, <1>5, <1>6 DEF CatalogueInvariant

LEMMA CatalogueUnchanged ==
    ASSUME CatalogueInvariant, UNCHANGED catalogueVars
    PROVE  CatalogueInvariant'
<1>1. /\ category' = category /\ item' = item /\ pack' = pack /\ supplier' = supplier
      /\ order' = order /\ used' = used /\ handler' = handler /\ raced' = raced /\ astray' = astray
  BY DEF catalogueVars
<1>2. CatalogueRows' /\ InOneHand'
  BY <1>1 DEF CatalogueInvariant, CatalogueRows, ItemRows, PackRows, InOneHand
<1>3. TablesGrow /\ Confined({})
  BY <1>1 DEF TablesGrow, Confined
<1>4. \A h : Sound(h) /\ Finds(h) => Sound(h)' /\ Finds(h)'
  BY <1>1, <1>2, <1>3, SoundOn, FindsOn DEF CatalogueInvariant
<1>5. HandlersFind'
  BY <1>1, <1>4 DEF CatalogueInvariant, HandlersFind
<1>6. PastStandsAsRead' /\ CategoriesServe' /\ SuppliersServe'
  BY <1>1 DEF CatalogueInvariant, PastStandsAsRead, CategoriesServe, SuppliersServe, itemsOffered
<1>7. DefaultsStand'
  BY <1>1 DEF CatalogueInvariant, DefaultsStand, itemsOffered, BeingTidied, Tidies, DefaultOf, PacksOf
<1> QED BY <1>2, <1>5, <1>6, <1>7 DEF CatalogueInvariant

LEMMA IdleFinds == Sound(Idle)' /\ Finds(Idle)' /\ ~Tidies(Idle) /\ Idle.about = {}
BY DEF Idle, Sound, Finds, PatchesCategory, AddsItem, PatchesItem, AddsPack, PatchesPack, Tidies,
       AddsSupplier, PatchesSupplier, Uses

LEMMA StartKeeps ==
    ASSUME CatalogueInvariant, NEW w \in Worker, NEW h, Start(w, h), Sound(h)', Finds(h)',
           astray \subseteq astray'
    PROVE  CatalogueInvariant'
<1>1. /\ handler[w] = Idle /\ handler' = [handler EXCEPT ![w] = h] /\ UNCHANGED tables
      /\ raced' = raced \cup UNION {handler[v].about \cap h.about : v \in Worker}
  BY DEF Start, Busy
<1>2. \A v \in Worker \ {w} : handler[v].about \cap h.about \subseteq raced'
  BY <1>1
<1>3. Goes(w, h)
  BY <1>1, <1>2 DEF Goes
<1>4. ~Tidies(handler[w])
  BY <1>1, IdleFinds
<1> QED BY <1>1, <1>3, <1>4, QuietStepKeeps

LEMMA EndKeeps ==
    ASSUME CatalogueInvariant, NEW w \in Worker, End(w), UNCHANGED tables, raced \subseteq raced',
           astray \subseteq astray', Tidies(handler[w]) => handler[w].about \subseteq raced'
    PROVE  CatalogueInvariant'
<1>1. Goes(w, Idle)
  BY IdleFinds DEF Goes, End
<1> QED BY <1>1, QuietStepKeeps

\* What a handler does to branches and sections is nothing to the catalogue.
LEMMA BranchesLeaveCatalogue ==
    ASSUME CatalogueInvariant, BranchesNext
    PROVE  CatalogueInvariant'
<1>1. ASSUME NEW b \in Branch, AddBranch(b) PROVE CatalogueInvariant'
  <2>1. UNCHANGED catalogueVars
    BY <1>1 DEF AddBranch
  <2> QED BY <2>1, CatalogueUnchanged
<1>2. ASSUME NEW w \in Worker, NEW b \in Branch, NEW active, StartPatchBranch(w, b, active)
      PROVE  CatalogueInvariant'
  <2>1. PICK h : h = [op |-> "branch", pc |-> "write", about |-> DOMAIN branch, of |-> b, active |-> active]
    OBVIOUS
  <2>2. Start(w, h) /\ astray' = astray
    BY <1>2, <2>1 DEF StartPatchBranch
  <2>3. Sound(h)' /\ Finds(h)'
    BY <2>1 DEF Sound, Finds, PatchesCategory, AddsItem, PatchesItem, AddsPack, PatchesPack, Tidies,
                AddsSupplier, PatchesSupplier, Uses
  <2> QED BY <2>2, <2>3, StartKeeps
<1>3. ASSUME NEW w \in Worker, NEW b \in Branch, NEW kind, StartAddSection(w, b, kind)
      PROVE  CatalogueInvariant'
  <2>1. PICK h : h = [op |-> "section", pc |-> "insert", about |-> {}, of |-> b, kind |-> kind]
    OBVIOUS
  <2>2. Start(w, h) /\ astray' = astray
    BY <1>3, <2>1 DEF StartAddSection
  <2>3. Sound(h)' /\ Finds(h)'
    BY <2>1 DEF Sound, Finds, PatchesCategory, AddsItem, PatchesItem, AddsPack, PatchesPack, Tidies,
                AddsSupplier, PatchesSupplier, Uses
  <2> QED BY <2>2, <2>3, StartKeeps
<1>4. ASSUME NEW w \in Worker, NEW s \in Sections, NEW active, StartPatchSection(w, s, active)
      PROVE  CatalogueInvariant'
  <2>1. PICK h : h = [op |-> "switch", pc |-> "write", about |-> {}, of |-> s, active |-> active]
    OBVIOUS
  <2>2. Start(w, h) /\ astray' = astray
    BY <1>4, <2>1 DEF StartPatchSection
  <2>3. Sound(h)' /\ Finds(h)'
    BY <2>1 DEF Sound, Finds, PatchesCategory, AddsItem, PatchesItem, AddsPack, PatchesPack, Tidies,
                AddsSupplier, PatchesSupplier, Uses
  <2> QED BY <2>2, <2>3, StartKeeps
<1>5. ASSUME NEW w \in Worker, WritePatchBranch(w) \/ WriteAddSection(w) \/ WritePatchSection(w)
      PROVE  CatalogueInvariant'
  <2>1. Finish(w) /\ UNCHANGED tables /\ handler[w].pc \in {"write", "insert"}
    BY <1>5 DEF WritePatchBranch, WriteAddSection, WritePatchSection
  <2> QED BY <2>1, EndKeeps DEF Finish, Tidies
<1>6. ASSUME NEW w \in Worker, Drop(w) PROVE CatalogueInvariant'
  BY <1>6, EndKeeps DEF Drop
<1> QED BY <1>1, <1>2, <1>3, <1>4, <1>5, <1>6 DEF BranchesNext

-----------------------------------------------------------------------------
(* A handler's checks. *)

LEMMA NobodyFiledUnder ==
    ASSUME CatalogueRows, NEW c, itemCount(c) = 0
    PROVE  \A i \in itemsOffered : item[i].category # c
<1>1. PICK filed : filed = {i \in itemsOffered : item[i].category = c}
  OBVIOUS
<1>2. IsFiniteSet(filed)
  <2>1. filed \subseteq DOMAIN item /\ IsFiniteSet(DOMAIN item)
    BY <1>1 DEF itemsOffered, CatalogueRows
  <2> QED BY <2>1, FS_Subset
<1>3. Cardinality(filed) = 0
  BY <1>1 DEF itemCount
<1>4. filed = {}
  BY <1>2, <1>3, FS_EmptySet
<1> QED BY <1>1, <1>4

LEMMA StartPatchCategoryKeeps ==
    ASSUME CatalogueInvariant, NEW w \in Worker, NEW c \in Category, NEW active \in {"on", "off"},
           StartPatchCategory(w, c, active)
    PROVE  CatalogueInvariant'
<1>1. PICK h : h = [op |-> "category", pc |-> "write", about |-> {c}, of |-> c, active |-> active]
  OBVIOUS
<1>2. /\ Start(w, h) /\ astray' = astray /\ c \in DOMAIN category
      /\ active = "off" => itemCount(c) = 0
  BY <1>1 DEF StartPatchCategory
<1>3. UNCHANGED tables
  BY <1>2 DEF Start
<1>4. Sound(h)'
  BY <1>1, <1>2, <1>3 DEF tables, Sound, PatchesCategory, AddsItem, PatchesItem, AddsPack, PatchesPack,
                          Tidies, AddsSupplier, PatchesSupplier, Uses
<1>5. active = "off" => \A i \in itemsOffered' : item'[i].category # c
  BY <1>2, <1>3, NobodyFiledUnder DEF tables, itemsOffered, CatalogueInvariant
<1>6. Finds(h)'
  BY <1>1, <1>5 DEF Finds, PatchesCategory, AddsItem, PatchesItem, PatchesPack, PatchesSupplier, Uses
<1> QED BY <1>2, <1>4, <1>6, StartKeeps

LEMMA StartAddItemKeeps ==
    ASSUME CatalogueInvariant, NEW w \in Worker, NEW c \in Category, NEW unit \in Unit,
           NEW size \in Sizes, StartAddItem(w, c, unit, size)
    PROVE  CatalogueInvariant'
<1>1. PICK h : h = [op |-> "item", pc |-> "insert", about |-> {c}, category |-> c, unit |-> unit,
                    size |-> size]
  OBVIOUS
<1>2. Start(w, h) /\ astray' = astray /\ c \in DOMAIN category /\ category[c]
  BY <1>1 DEF StartAddItem
<1>3. category' = category
  BY <1>2 DEF Start, tables
<1>4. Sound(h)' /\ Finds(h)'
  BY <1>1, <1>2, <1>3 DEF Sound, Finds, PatchesCategory, AddsItem, PatchesItem, AddsPack, PatchesPack,
                          Tidies, AddsSupplier, PatchesSupplier, Uses
<1> QED BY <1>2, <1>4, StartKeeps

LEMMA StartPatchItemKeeps ==
    ASSUME CatalogueInvariant, NEW w \in Worker, NEW i \in Item, NEW body \in ItemBodies,
           StartPatchItem(w, i, body)
    PROVE  CatalogueInvariant'
<1>1. PICK h : h = [op |-> "item", about |-> {i, item[i].category, Or(body.category, item[i].category)},
                    of |-> i, body |-> body, row |-> item[i],
                    pc |-> IF body.unit \notin {Keep, item[i].unit} THEN "moved?" ELSE "write"]
  OBVIOUS
<1>2. /\ Start(w, h) /\ i \in DOMAIN item /\ body.category \in DOMAIN category \cup {Keep}
      /\ astray' = astray \cup
           {x \in {i} : body.active = "on" \/ (body.category # Keep /\ ~category[body.category])}
  BY <1>1 DEF StartPatchItem
<1>3. /\ category' = category /\ item' = item
  BY <1>2 DEF Start, tables
<1>4. item[i] \in ItemRows /\ item[i].category \in DOMAIN category
  BY <1>2 DEF CatalogueInvariant, CatalogueRows, ItemRows
<1>5. PatchesItem(h) /\ h.op = "item" /\ h.pc \in {"moved?", "write"}
  BY <1>1 DEF PatchesItem
<1>6. Or(h.body.category, h.row.category) \in DOMAIN category \cap h.about
  BY <1>1, <1>2, <1>4 DEF Or
<1>7. Sound(h)'
  <2>1. /\ {"pc", "about", "op", "of", "row", "body"} \subseteq DOMAIN h
        /\ h.row.category \in h.about /\ h.of \in DOMAIN item' \cap h.about
    BY <1>1, <1>2, <1>3
  <2>2. h.row \in ItemRows' /\ h.body \in ItemBodies
    BY <1>1, <1>3, <1>4 DEF ItemRows
  <2> QED BY <1>3, <1>5, <1>6, <2>1, <2>2 DEF Sound, PatchesCategory, AddsItem, AddsPack, PatchesPack,
               Tidies, AddsSupplier, PatchesSupplier, Uses
<1>8. /\ h.row = item'[h.of]
      /\ ~(h.pc = "write" /\ h.body.unit \notin {Keep, h.row.unit})
      /\ h.body.active = "on" => h.of \in astray'
      /\ h.body.category # Keep /\ h.of \notin astray' => category'[h.body.category]
  BY <1>1, <1>2, <1>3
<1>9. Finds(h)'
  BY <1>5, <1>8 DEF Finds, PatchesCategory, AddsItem, PatchesPack, PatchesSupplier, Uses
<1> QED BY <1>2, <1>7, <1>9, StartKeeps

LEMMA StartAddPackKeeps ==
    ASSUME CatalogueInvariant, NEW w \in Worker, NEW i \in Item, NEW size \in Sizes,
           NEW default \in BOOLEAN, StartAddPack(w, i, size, default)
    PROVE  CatalogueInvariant'
<1>1. PICK h : h = [op |-> "addpack", pc |-> "insert", about |-> {i}, item |-> i, size |-> size,
                    default |-> default]
  OBVIOUS
<1>2. Start(w, h) /\ astray' = astray /\ i \in DOMAIN item
  BY <1>1 DEF StartAddPack
<1>3. item' = item
  BY <1>2 DEF Start, tables
<1>4. Sound(h)' /\ Finds(h)'
  BY <1>1, <1>2, <1>3 DEF Sound, Finds, PatchesCategory, AddsItem, PatchesItem, AddsPack, PatchesPack,
                          Tidies, AddsSupplier, PatchesSupplier, Uses
<1> QED BY <1>2, <1>4, StartKeeps

LEMMA StartPatchPackKeeps ==
    ASSUME CatalogueInvariant, NEW w \in Worker, NEW p \in DOMAIN pack, NEW body \in PackBodies,
           StartPatchPack(w, p, body)
    PROVE  CatalogueInvariant'
<1>1. PICK row : row = pack[p]
  OBVIOUS
<1>2. PICK h : h = [op |-> "pack", pc |-> "write", about |-> {row.item}, of |-> p, body |-> body, row |-> row]
  OBVIOUS
<1>3. /\ Start(w, h) /\ astray' = astray \cup {x \in {row.item} : body.default /\ ~row.active}
      /\ body.size \notin {Same, row.size} => ~packHasBeenUsed(p)
      /\ body.active = "off" => ActivePacks(row.item) \ {p} # {}
  BY <1>1, <1>2 DEF StartPatchPack
<1>4. pack' = pack /\ item' = item /\ used' = used
  BY <1>3 DEF Start, tables
<1>5. row \in PackRows /\ row \in PackRows'
  BY <1>1, <1>4 DEF CatalogueInvariant, CatalogueRows, PackRows
<1>6. /\ h.pc = "write" /\ h.op = "pack" /\ {"pc", "about"} \subseteq DOMAIN h
      /\ h.of = p /\ h.body = body /\ h.row = row /\ h.about = {row.item}
  BY <1>2
<1>7. Sound(h)'
  BY <1>1, <1>4, <1>5, <1>6 DEF Sound, PatchesCategory, AddsItem, PatchesItem, AddsPack, PatchesPack,
                                Tidies, AddsSupplier, PatchesSupplier, Uses
<1>8. /\ packHasBeenUsed(p)' = packHasBeenUsed(p)
      /\ ActivePacks(row.item)' = ActivePacks(row.item)
  BY <1>4 DEF packHasBeenUsed, ActivePacks, PacksOf
<1>9. /\ h.row = pack'[h.of]
      /\ h.body.size \notin {Same, h.row.size} => ~packHasBeenUsed(h.of)'
      /\ h.body.active = "off" => ActivePacks(h.row.item)' \ {h.of} # {}
      /\ h.body.default /\ ~h.row.active => h.row.item \in astray'
  BY <1>1, <1>3, <1>4, <1>6, <1>8
<1>10. Finds(h)'
  BY <1>6, <1>9 DEF Finds, PatchesCategory, AddsItem, PatchesItem, PatchesSupplier, Uses
<1> QED BY <1>3, <1>7, <1>10, StartKeeps

LEMMA StartAddSupplierKeeps ==
    ASSUME CatalogueInvariant, NEW w \in Worker, NEW name \in SupplierName, StartAddSupplier(w, name)
    PROVE  CatalogueInvariant'
<1>1. PICK h : h = [op |-> "supplier", pc |-> "insert", about |-> {name}, name |-> name]
  OBVIOUS
<1>2. Start(w, h) /\ astray' = astray
  BY <1>1 DEF StartAddSupplier
<1>3. Sound(h)' /\ Finds(h)'
  BY <1>1 DEF Sound, Finds, PatchesCategory, AddsItem, PatchesItem, AddsPack, PatchesPack,
              Tidies, AddsSupplier, PatchesSupplier, Uses
<1> QED BY <1>2, <1>3, StartKeeps

LEMMA StartPatchSupplierKeeps ==
    ASSUME CatalogueInvariant, NEW w \in Worker, NEW s \in Supplier, NEW active \in {"on", "off"},
           StartPatchSupplier(w, s, active)
    PROVE  CatalogueInvariant'
<1>1. PICK h : h = [op |-> "supplier", pc |-> "write", about |-> {s}, of |-> s, active |-> active]
  OBVIOUS
<1>2. /\ Start(w, h) /\ s \in DOMAIN supplier /\ (active = "off" => OpenOrders(s) = {})
      /\ astray' = astray \cup
           {x \in {s} : active = "off" /\ \E o \in Order : order[o].status = "requested" /\ order[o].supplier = s}
  BY <1>1 DEF StartPatchSupplier
<1>3. supplier' = supplier /\ order' = order
  BY <1>2 DEF Start, tables
<1>4. Sound(h)'
  BY <1>1, <1>2, <1>3 DEF Sound, PatchesCategory, AddsItem, PatchesItem, AddsPack, PatchesPack,
                          Tidies, AddsSupplier, PatchesSupplier, Uses
<1>5. ASSUME active = "off", s \notin astray', NEW o \in Order, order'[o].status \notin {"none", "done"}
      PROVE  order'[o].supplier # s
  <2>1. order[o].status \in {"requested", "approved", "ordered"}
    BY <1>3, <1>5 DEF CatalogueInvariant, CatalogueRows, NoOrder
  <2> QED BY <1>2, <1>3, <1>5, <2>1 DEF OpenOrders
<1>6. Finds(h)'
  BY <1>1, <1>5 DEF Finds, PatchesCategory, AddsItem, PatchesItem, PatchesPack, PatchesSupplier, Uses
<1> QED BY <1>2, <1>4, <1>6, StartKeeps

LEMMA StartUseKeeps ==
    ASSUME CatalogueInvariant, NEW w \in Worker, NEW p \in DOMAIN pack, NEW s \in Supplier,
           NEW how \in {"order", "delivery"}, StartUse(w, how, p, s)
    PROVE  CatalogueInvariant'
<1>1. PICK row : row = pack[p]
  OBVIOUS
<1>2. PICK line : line = [how |-> how, pack |-> p, size |-> row.size,
                          item |-> row.item, unit |-> item[row.item].unit]
  OBVIOUS
<1>3. PICK h : h = [op |-> how, pc |-> "write", about |-> {row.item, s}, supplier |-> s, line |-> line]
  OBVIOUS
<1>4. Start(w, h) /\ astray' = astray /\ s \in DOMAIN supplier /\ supplier[s].active
  BY <1>1, <1>2, <1>3 DEF StartUse, suppliersOffered
<1>5. pack' = pack /\ item' = item /\ supplier' = supplier
  BY <1>4 DEF Start, tables
<1>6. row.item \in DOMAIN item
  BY <1>1 DEF CatalogueInvariant, CatalogueRows, PackRows
<1>7. Sound(h)'
  BY <1>1, <1>2, <1>3, <1>4, <1>5, <1>6 DEF Sound, PatchesCategory, AddsItem, PatchesItem, AddsPack,
       PatchesPack, Tidies, AddsSupplier, PatchesSupplier, Uses
<1>8. /\ h.line.size = pack'[h.line.pack].size /\ h.line.unit = item'[h.line.item].unit
      /\ supplier'[h.supplier].active
  BY <1>1, <1>2, <1>3, <1>4, <1>5
<1>9. Finds(h)'
  BY <1>3, <1>8 DEF Finds, PatchesCategory, AddsItem, PatchesItem, PatchesPack, PatchesSupplier, Uses
<1> QED BY <1>4, <1>7, <1>9, StartKeeps

LEMMA LookMovedKeeps ==
    ASSUME CatalogueInvariant, NEW w \in Worker, LookMoved(w)
    PROVE  CatalogueInvariant'
<1>1. PICK g : g = handler[w]
  OBVIOUS
<1>2. g.pc = "moved?" /\ UNCHANGED tables /\ raced' = raced /\ astray' = astray /\ ~Tidies(g)
  BY <1>1 DEF LookMoved, Tidies
<1>3. CASE itemHasMoved(g.of)
  BY <1>1, <1>2, <1>3, EndKeeps DEF LookMoved
<1>4. CASE ~itemHasMoved(g.of)
  <2>1. PICK h : h = [g EXCEPT !.pc = "write"]
    OBVIOUS
  <2>2. handler' = [handler EXCEPT ![w] = h]
    BY <1>1, <1>2, <1>4, <2>1 DEF LookMoved, At
  <2>3. Sound(g) /\ Finds(g)
    BY <1>1 DEF CatalogueInvariant, HandlersFind
  <2>4. PatchesItem(g) /\ {"pc", "about", "op", "of", "row", "body"} \subseteq DOMAIN g /\ g.op = "item"
    BY <1>2, <2>3 DEF Sound, PatchesItem
  <2>5. /\ h.pc = "write" /\ h.op = "item" /\ PatchesItem(h) /\ DOMAIN h = DOMAIN g
        /\ h.about = g.about /\ h.of = g.of /\ h.row = g.row /\ h.body = g.body
    BY <2>1, <2>4 DEF PatchesItem
  <2>6. Sound(h)
    BY <2>3, <2>4, <2>5 DEF Sound, PatchesCategory, AddsItem, AddsPack, PatchesPack, Tidies,
                            AddsSupplier, PatchesSupplier, Uses
  <2>7. Finds(h)
    BY <1>4, <2>3, <2>4, <2>5 DEF Finds, PatchesCategory, AddsItem, PatchesPack, PatchesSupplier, Uses
  <2>8. /\ category' = category /\ item' = item /\ pack' = pack /\ supplier' = supplier
        /\ order' = order /\ used' = used
    BY <1>2 DEF tables
  <2>9. TablesGrow /\ Confined({}) /\ CatalogueRows'
    BY <2>8 DEF TablesGrow, Confined, CatalogueInvariant, CatalogueRows, ItemRows, PackRows
  <2>10. Sound(h)' /\ Finds(h)'
    BY <1>2, <2>6, <2>7, <2>9, SoundOn, FindsOn DEF CatalogueInvariant
  <2>11. \A v \in Worker \ {w} : handler[v].about \cap h.about \subseteq raced'
    BY <1>1, <1>2, <2>5 DEF CatalogueInvariant, InOneHand
  <2> QED BY <1>1, <1>2, <2>2, <2>10, <2>11, QuietStepKeeps DEF Goes
<1> QED BY <1>3, <1>4

-----------------------------------------------------------------------------
(* What handlers write. *)

LEMMA FinishGoes ==
    ASSUME CatalogueInvariant, NEW w \in Worker, Finish(w)
    PROVE  Goes(w, Idle) /\ raced' = raced /\ astray' = astray
BY IdleFinds DEF Goes, Finish, End

LEMMA WritePatchCategoryKeeps ==
    ASSUME CatalogueInvariant, NEW w \in Worker, WritePatchCategory(w)
    PROVE  CatalogueInvariant'
<1>1. PICK h : h = handler[w]
  OBVIOUS
<1>2. /\ PatchesCategory(h) /\ category' = [category EXCEPT ![h.of] = Switched(h.active, category[h.of])]
      /\ item' = item /\ pack' = pack /\ supplier' = supplier /\ order' = order /\ used' = used
      /\ Finish(w) /\ ~Tidies(h)
  BY <1>1 DEF WritePatchCategory, PatchesCategory, Tidies
<1>3. Goes(w, Idle) /\ raced' = raced /\ astray' = astray
  BY <1>2, FinishGoes
<1>4. /\ h.of \in DOMAIN category \cap h.about /\ h.active \in {"on", "off"}
      /\ h.active = "off" /\ h.of \notin raced => \A i \in itemsOffered : item[i].category # h.of
  BY <1>1, <1>2 DEF CatalogueInvariant, HandlersFind, Sound, Finds
<1>5. TablesGrow /\ Confined(h.about)
  BY <1>2, <1>4 DEF TablesGrow, Confined
<1>6. CatalogueRows'
  <2>1. Switched(h.active, category[h.of]) \in BOOLEAN
    BY <1>4 DEF Switched, Keep
  <2> QED BY <1>2, <2>1 DEF CatalogueInvariant, CatalogueRows, ItemRows, PackRows
<1>7. CategoriesServe'
  <2> SUFFICES ASSUME NEW i \in itemsOffered,
                      {i, item[i].category} \cap (raced' \cup astray') = {}, item[i].category \in h.about
               PROVE  category'[item[i].category]
    BY <1>2, <1>3, <1>5, CategoriesGoOn DEF CatalogueInvariant, itemsOffered
  <2>1. category[item[i].category] /\ item[i].category \in DOMAIN category
    BY <1>3 DEF CatalogueInvariant, CategoriesServe, CatalogueRows, ItemRows, itemsOffered
  <2>2. CASE item[i].category = h.of
    <3>1. h.active = "on"
      BY <1>3, <1>4, <2>2
    <3> QED BY <1>2, <1>4, <2>2, <3>1 DEF Switched, Keep
  <2>3. CASE item[i].category # h.of
    BY <1>2, <2>1, <2>3
  <2> QED BY <2>2, <2>3
<1>8. DefaultsStand'
  <2>1. \A i \in itemsOffered' : /\ i \in itemsOffered /\ PacksOf(i)' = PacksOf(i)
                                 /\ \A p \in PacksOf(i) : pack'[p] = pack[p]
    BY <1>2 DEF itemsOffered, PacksOf
  <2> QED BY <1>1, <1>2, <1>3, <1>5, <2>1, DefaultKept DEF CatalogueInvariant, DefaultsStand
<1>9. PastStandsAsRead' /\ SuppliersServe'
  BY <1>2, <1>3 DEF CatalogueInvariant, PastStandsAsRead, SuppliersServe
<1>10. HandlersFind' /\ InOneHand'
  BY <1>1, <1>3, <1>5, <1>6, HandlersGo DEF CatalogueInvariant
<1> QED BY <1>6, <1>7, <1>8, <1>9, <1>10 DEF CatalogueInvariant

LEMMA WriteAddItemKeeps ==
    ASSUME CatalogueInvariant, NEW w \in Worker, NEW i \in Item, NEW p \in Pack, WriteAddItem(w, i, p)
    PROVE  CatalogueInvariant'
<1>1. PICK h : h = handler[w]
  OBVIOUS
<1>2. PICK row : row = [category |-> h.category, unit |-> h.unit, active |-> TRUE]
  OBVIOUS
<1>3. PICK sold : sold = [item |-> i, size |-> h.size, default |-> TRUE, active |-> TRUE]
  OBVIOUS
<1>4. /\ AddsItem(h) /\ i \notin DOMAIN item /\ p \notin DOMAIN pack
      /\ item' = WithRow(item, i, row) /\ pack' = WithRow(pack, p, sold)
      /\ category' = category /\ supplier' = supplier /\ order' = order /\ used' = used
      /\ Finish(w) /\ ~Tidies(h)
  BY <1>1, <1>2, <1>3 DEF WriteAddItem, AddsItem, Tidies
<1>5. Goes(w, Idle) /\ raced' = raced /\ astray' = astray
  BY <1>4, FinishGoes
<1>6. /\ h.category \in DOMAIN category \cap h.about /\ h.unit \in Unit /\ h.size \in Sizes
      /\ h.category \notin raced => category[h.category]
  BY <1>1, <1>4 DEF CatalogueInvariant, HandlersFind, Sound, Finds
<1>7. /\ DOMAIN item' = DOMAIN item \cup {i} /\ item'[i] = row
      /\ \A j \in DOMAIN item : item'[j] = item[j]
      /\ DOMAIN pack' = DOMAIN pack \cup {p} /\ pack'[p] = sold
      /\ \A q \in DOMAIN pack : pack'[q] = pack[q]
  BY <1>4 DEF WithRow
<1>8. TablesGrow /\ Confined(h.about)
  <2>1. row.category = h.category /\ row.active /\ sold.item = i /\ sold.active /\ sold.default
    BY <1>2, <1>3
  <2>2. TablesGrow
    BY <1>4, <1>7 DEF TablesGrow
  <2>3. \A j \in DOMAIN item' : (j \in DOMAIN item /\ item'[j] = item[j]) \/ item'[j].category \in h.about
    BY <1>6, <1>7, <2>1
  <2>4. \A q \in DOMAIN pack' : (q \in DOMAIN pack /\ pack'[q] = pack[q]) \/ pack'[q].item = i
    BY <1>7, <2>1
  <2>5. i \in DOMAIN item' \ DOMAIN item
    BY <1>4, <1>7
  <2> QED BY <1>4, <1>7, <2>2, <2>3, <2>4, <2>5 DEF Confined
<1>9. CatalogueRows'
  <2>1. row \in ItemRows /\ ItemRows' = ItemRows
    BY <1>2, <1>4, <1>6 DEF ItemRows
  <2>2. item' \in [DOMAIN item' -> ItemRows']
    BY <1>4, <1>7, <2>1 DEF CatalogueInvariant, CatalogueRows, WithRow
  <2>3. IsFiniteSet(DOMAIN item')
    BY <1>7, FS_AddElement DEF CatalogueInvariant, CatalogueRows
  <2>4. sold \in PackRows' /\ \A q \in DOMAIN pack : pack[q] \in PackRows'
    BY <1>3, <1>6, <1>7 DEF PackRows, CatalogueInvariant, CatalogueRows
  <2>5. pack' \in [DOMAIN pack' -> PackRows']
    BY <1>4, <1>7, <2>4 DEF WithRow
  <2> QED BY <1>4, <1>7, <2>2, <2>3, <2>5 DEF CatalogueInvariant, CatalogueRows
<1>10. \A q \in DOMAIN pack : pack[q].item \in DOMAIN item
  BY DEF CatalogueInvariant, CatalogueRows, PackRows
<1>11. CategoriesServe'
  <2> SUFFICES ASSUME NEW j \in itemsOffered',
                      {j, item'[j].category} \cap (raced' \cup astray') = {}, item'[j].category \in h.about
               PROVE  category'[item'[j].category]
    BY <1>5, <1>8, CategoriesGoOn DEF CatalogueInvariant
  <2>1. CASE j = i
    <3>1. item'[j].category = h.category
      BY <1>2, <1>7, <2>1
    <3> QED BY <1>4, <1>5, <1>6, <3>1
  <2>2. CASE j # i
    BY <1>4, <1>5, <1>7, <2>2 DEF CatalogueInvariant, CategoriesServe, itemsOffered
  <2> QED BY <2>1, <2>2
<1>12. DefaultsStand'
  <2>1. DefaultOf(p, i)'
    <3>1. pack'[p].item = i /\ pack'[p].active /\ pack'[p].default
      BY <1>3, <1>7
    <3>2. PacksOf(i)' = {p}
      BY <1>4, <1>7, <1>10, <3>1 DEF PacksOf
    <3> QED BY <3>1, <3>2 DEF DefaultOf
  <2>2. \A j \in itemsOffered' \ {i} : /\ j \in itemsOffered /\ PacksOf(j)' = PacksOf(j)
                                       /\ \A q \in PacksOf(j) : pack'[q] = pack[q]
    BY <1>3, <1>7 DEF itemsOffered, PacksOf
  <2>3. \A j \in itemsOffered' \ (raced' \cup astray') :
          j # i => (BeingTidied(j)' \/ \E q \in DOMAIN pack' : DefaultOf(q, j)')
    BY <1>1, <1>4, <1>5, <1>8, <2>2, DefaultKept DEF CatalogueInvariant
  <2> QED BY <1>7, <2>1, <2>3 DEF DefaultsStand
<1>13. PastStandsAsRead' /\ SuppliersServe'
  BY <1>4, <1>5, <1>7 DEF CatalogueInvariant, PastStandsAsRead, SuppliersServe, CatalogueRows
<1>14. HandlersFind' /\ InOneHand'
  BY <1>1, <1>5, <1>8, <1>9, HandlersGo DEF CatalogueInvariant
<1> QED BY <1>9, <1>11, <1>12, <1>13, <1>14 DEF CatalogueInvariant

LEMMA WritePatchItemKeeps ==
    ASSUME CatalogueInvariant, NEW w \in Worker, WritePatchItem(w)
    PROVE  CatalogueInvariant'
<1>1. PICK h : h = handler[w]
  OBVIOUS
<1>2. PICK row : row = [category |-> Or(h.body.category, h.row.category),
                        unit |-> Or(h.body.unit, h.row.unit),
                        active |-> Switched(h.body.active, h.row.active)]
  OBVIOUS
<1>3. /\ PatchesItem(h) /\ h.pc = "write" /\ item' = [item EXCEPT ![h.of] = row]
      /\ category' = category /\ pack' = pack /\ supplier' = supplier /\ order' = order /\ used' = used
      /\ Finish(w) /\ ~Tidies(h)
  BY <1>1, <1>2 DEF WritePatchItem, PatchesItem, Tidies
<1>4. Goes(w, Idle) /\ raced' = raced /\ astray' = astray
  BY <1>3, FinishGoes
<1>5. /\ h.of \in DOMAIN item \cap h.about /\ h.row \in ItemRows /\ h.body \in ItemBodies
      /\ row.category \in DOMAIN category \cap h.about /\ h.row.category \in h.about
  BY <1>1, <1>2, <1>3 DEF CatalogueInvariant, HandlersFind, Sound
<1>6. h.of \notin raced =>
         /\ h.row = item[h.of]
         /\ h.body.unit \notin {Keep, h.row.unit} => ~itemHasMoved(h.of)
         /\ h.body.active = "on" => h.of \in astray
         /\ h.body.category \notin {Keep} \cup raced /\ h.of \notin astray => category[h.body.category]
  BY <1>1, <1>3 DEF CatalogueInvariant, HandlersFind, Finds
<1>7. DOMAIN item' = DOMAIN item /\ item'[h.of] = row /\ \A j \in DOMAIN item \ {h.of} : item'[j] = item[j]
  BY <1>3, <1>5
<1>8. h.body.active \in {"on", "off", Keep}
  BY <1>5 DEF ItemBodies
<1>9. TablesGrow /\ Confined(h.about)
  BY <1>3, <1>5, <1>7 DEF TablesGrow, Confined
<1>10. CatalogueRows'
  <2>1. row.unit \in Unit
    BY <1>2, <1>5 DEF Or, ItemBodies, ItemRows
  <2>2. row.active \in BOOLEAN
    BY <1>2, <1>5, <1>8 DEF Switched, ItemRows
  <2>3. row \in ItemRows /\ ItemRows' = ItemRows /\ PackRows' = PackRows
    BY <1>2, <1>3, <1>5, <1>7, <2>1, <2>2 DEF ItemRows, PackRows
  <2>4. item' \in [DOMAIN item' -> ItemRows']
    BY <1>3, <1>7, <2>3 DEF CatalogueInvariant, CatalogueRows
  <2> QED BY <1>3, <1>7, <2>3, <2>4 DEF CatalogueInvariant, CatalogueRows
<1>11. h.of \notin raced \cup astray /\ row.active => item[h.of].active
  BY <1>2, <1>6, <1>8 DEF Switched
<1>12. CategoriesServe'
  <2> SUFFICES ASSUME NEW j \in itemsOffered',
                      {j, item'[j].category} \cap (raced' \cup astray') = {}, item'[j].category \in h.about
               PROVE  category'[item'[j].category]
    BY <1>4, <1>9, CategoriesGoOn DEF CatalogueInvariant
  <2>1. CASE j = h.of
    <3>1. h.of \notin raced \cup astray /\ row.category \notin raced \cup astray /\ row.active
      BY <1>4, <1>7, <2>1 DEF itemsOffered
    <3>2. CASE h.body.category = Keep
      <4>1. row.category = item[h.of].category /\ h.of \in itemsOffered
        BY <1>2, <1>5, <1>6, <1>11, <3>1, <3>2 DEF Or, itemsOffered
      <4> QED BY <1>3, <1>7, <2>1, <3>1, <4>1 DEF CatalogueInvariant, CategoriesServe
    <3>3. CASE h.body.category # Keep
      <4>1. row.category = h.body.category
        BY <1>2, <3>3 DEF Or
      <4> QED BY <1>3, <1>6, <1>7, <2>1, <3>1, <3>3, <4>1
    <3> QED BY <3>2, <3>3
  <2>2. CASE j # h.of
    BY <1>3, <1>4, <1>7, <2>2 DEF CatalogueInvariant, CategoriesServe, itemsOffered
  <2> QED BY <2>1, <2>2
<1>13. DefaultsStand'
  <2>1. \A j \in itemsOffered' \ (raced' \cup astray') :
          /\ j \in itemsOffered /\ PacksOf(j)' = PacksOf(j)
          /\ \A p \in PacksOf(j) : pack'[p] = pack[p]
    BY <1>3, <1>4, <1>7, <1>11 DEF itemsOffered, PacksOf
  <2> QED BY <1>1, <1>3, <1>4, <1>9, <2>1, DefaultKept DEF CatalogueInvariant, DefaultsStand
<1>14. PastStandsAsRead'
  <2> SUFFICES ASSUME NEW u \in used, u.item \notin raced
               PROVE  u.size = pack[u.pack].size /\ (u.how = "delivery" => u.unit = item'[u.item].unit)
    BY <1>3, <1>4 DEF PastStandsAsRead
  <2>1. u.size = pack[u.pack].size /\ (u.how = "delivery" => u.unit = item[u.item].unit)
    BY DEF CatalogueInvariant, PastStandsAsRead
  <2>2. ASSUME u.item = h.of, u.how = "delivery" PROVE row.unit = item[h.of].unit
    <3>1. itemHasMoved(h.of)
      BY <2>2 DEF itemHasMoved
    <3> QED BY <1>2, <1>6, <2>2, <3>1 DEF Or
  <2>3. u.item \in DOMAIN item
    BY DEF CatalogueInvariant, CatalogueRows
  <2> QED BY <1>7, <2>1, <2>2, <2>3
<1>15. SuppliersServe'
  BY <1>3, <1>4 DEF CatalogueInvariant, SuppliersServe
<1>16. HandlersFind' /\ InOneHand'
  BY <1>1, <1>4, <1>9, <1>10, HandlersGo DEF CatalogueInvariant
<1> QED BY <1>10, <1>12, <1>13, <1>14, <1>15, <1>16 DEF CatalogueInvariant

\* A step that writes packs and nothing else: the sizes in the past stay, and every
\* item the handler is about is left in order or to a tidier.
LEMMA PacksWritten ==
    ASSUME CatalogueInvariant, NEW w \in Worker, NEW h, Goes(w, h),
           UNCHANGED <<category, item, supplier, order, used, raced, astray>>,
           DOMAIN pack \subseteq DOMAIN pack', pack' \in [DOMAIN pack' -> PackRows],
           \A p \in DOMAIN pack : pack'[p].item = pack[p].item,
           \A p \in DOMAIN pack' :
             (p \in DOMAIN pack /\ pack'[p] = pack[p]) \/ pack'[p].item \in handler[w].about,
           \A p \in DOMAIN pack : packHasBeenUsed(p) /\ pack[p].item \notin raced
                                    => pack'[p].size = pack[p].size,
           \A i \in (itemsOffered \cap handler[w].about) \ (raced \cup astray) :
             \/ /\ ~(Tidies(handler[w]) /\ pack[handler[w].of].item = i)
                /\ PacksOf(i)' = PacksOf(i) /\ \A p \in PacksOf(i) : pack'[p] = pack[p]
             \/ BeingTidied(i)' \/ \E p \in DOMAIN pack' : DefaultOf(p, i)'
    PROVE  CatalogueInvariant'
<1>1. /\ category' = category /\ item' = item /\ supplier' = supplier /\ order' = order /\ used' = used
      /\ raced' = raced /\ astray' = astray
  OBVIOUS
<1>2. TablesGrow /\ Confined(handler[w].about)
  BY <1>1 DEF TablesGrow, Confined
<1>3. CatalogueRows'
  <2>1. \A u \in used' : /\ u.pack \in DOMAIN pack' /\ u.item \in DOMAIN item'
                         /\ u.item = pack'[u.pack].item
    BY <1>1 DEF CatalogueInvariant, CatalogueRows
  <2>2. ItemRows' = ItemRows /\ PackRows' = PackRows
    BY <1>1 DEF ItemRows, PackRows
  <2> QED BY <1>1, <2>1, <2>2 DEF CatalogueInvariant, CatalogueRows
<1>4. HandlersFind' /\ InOneHand'
  BY <1>2, <1>3, HandlersGo DEF CatalogueInvariant
<1>5. CategoriesServe' /\ SuppliersServe'
  BY <1>1 DEF CatalogueInvariant, CategoriesServe, SuppliersServe, itemsOffered
<1>6. PastStandsAsRead'
  <2> SUFFICES ASSUME NEW u \in used, u.item \notin raced
               PROVE  u.size = pack'[u.pack].size /\ (u.how = "delivery" => u.unit = item[u.item].unit)
    BY <1>1 DEF PastStandsAsRead
  <2>1. u.size = pack[u.pack].size /\ (u.how = "delivery" => u.unit = item[u.item].unit)
    BY DEF CatalogueInvariant, PastStandsAsRead
  <2>2. u.pack \in DOMAIN pack /\ pack[u.pack].item = u.item /\ packHasBeenUsed(u.pack)
    BY DEF CatalogueInvariant, CatalogueRows, packHasBeenUsed
  <2> QED BY <2>1, <2>2
<1>7. DefaultsStand'
  <2>1. itemsOffered' = itemsOffered
    BY <1>1 DEF itemsOffered
  <2>2. itemsOffered \subseteq DOMAIN item
    BY DEF itemsOffered
  <2>3. \A i \in itemsOffered' \ (raced' \cup astray') :
          i \in handler[w].about => BeingTidied(i)' \/ \E p \in DOMAIN pack' : DefaultOf(p, i)'
    BY <1>1, <1>2, <2>1, DefaultKept DEF CatalogueInvariant
  <2> QED BY <1>2, <1>3, <2>1, <2>2, <2>3, DefaultsGoOn DEF CatalogueInvariant
<1> QED BY <1>3, <1>4, <1>5, <1>6, <1>7 DEF CatalogueInvariant

\* A handler that goes on to tidy up keeps what it is about.
LEMMA TidierGoes ==
    ASSUME CatalogueInvariant, NEW w \in Worker, NEW g,
           handler' = [handler EXCEPT ![w] = g], raced' = raced, astray' = astray,
           {"pc", "about"} \subseteq DOMAIN g, g.about = handler[w].about,
           g.of \in DOMAIN pack', pack'[g.of].item \in g.about,
           \/ /\ g.pc = "clear" /\ g.heir = FALSE
              /\ pack'[g.of].item \notin raced \cup astray => pack'[g.of].default /\ pack'[g.of].active
           \/ /\ g.pc = "heir"
              /\ pack'[g.of].item \notin raced => Heirs(pack[g.of].item, g.of)' # {}
    PROVE  Goes(w, g) /\ BeingTidied(pack[g.of].item)'
<1>1. Sound(g)'
  BY DEF Sound, PatchesCategory, AddsItem, PatchesItem, AddsPack, PatchesPack, Tidies, AddsSupplier,
         PatchesSupplier, Uses
<1>2. Finds(g)'
  BY DEF Finds, PatchesCategory, AddsItem, PatchesItem, PatchesPack, PatchesSupplier, Uses
<1>3. Goes(w, g)
  BY <1>1, <1>2 DEF Goes, CatalogueInvariant, InOneHand
<1>4. handler'[w] = g
  BY DEF CatalogueInvariant, HandlersFind
<1> QED BY <1>3, <1>4 DEF BeingTidied, Tidies

LEMMA WriteAddPackKeeps ==
    ASSUME CatalogueInvariant, NEW w \in Worker, NEW p \in Pack, WriteAddPack(w, p)
    PROVE  CatalogueInvariant'
<1>1. PICK h : h = handler[w]
  OBVIOUS
<1>2. PICK row : row = [item |-> h.item, size |-> h.size, default |-> h.default, active |-> TRUE]
  OBVIOUS
<1>3. PICK g : g = IF h.default THEN [pc |-> "clear", about |-> h.about, of |-> p, heir |-> FALSE] ELSE Idle
  OBVIOUS
<1>4. /\ AddsPack(h) /\ ~Tidies(h) /\ p \notin DOMAIN pack /\ pack' = WithRow(pack, p, row)
      /\ handler' = [handler EXCEPT ![w] = g]
      /\ UNCHANGED <<category, item, supplier, order, used, raced, astray>>
  BY <1>1, <1>2, <1>3 DEF WriteAddPack, AddsPack, Tidies
<1>5. h.item \in DOMAIN item \cap h.about /\ h.size \in Sizes /\ h.default \in BOOLEAN
  BY <1>1, <1>4 DEF CatalogueInvariant, HandlersFind, Sound
<1>6. /\ DOMAIN pack' = DOMAIN pack \cup {p} /\ pack'[p] = row
      /\ \A q \in DOMAIN pack : pack'[q] = pack[q]
  BY <1>4 DEF WithRow
<1>7. row.item = h.item /\ row.default = h.default /\ row.active /\ row \in PackRows
  BY <1>2, <1>5 DEF PackRows
<1>8. pack' \in [DOMAIN pack' -> PackRows]
  BY <1>4, <1>6, <1>7 DEF WithRow, CatalogueInvariant, CatalogueRows
<1>9. CASE h.default
  <2>1. /\ g.pc = "clear" /\ g.heir = FALSE /\ g.about = handler[w].about /\ g.of = p
        /\ {"pc", "about"} \subseteq DOMAIN g
    BY <1>1, <1>3, <1>9
  <2>2. Goes(w, g) /\ BeingTidied(pack[g.of].item)'
    BY <1>1, <1>4, <1>5, <1>6, <1>7, <1>9, <2>1, TidierGoes
  <2>3. BeingTidied(h.item)'
    <3>1. handler'[w] = g
      BY <1>4 DEF CatalogueInvariant, HandlersFind
    <3> QED BY <1>6, <1>7, <2>1, <3>1 DEF BeingTidied, Tidies
  <2>4. \A i \in DOMAIN item \ {h.item} : PacksOf(i)' = PacksOf(i) /\ \A q \in PacksOf(i) : pack'[q] = pack[q]
    BY <1>6, <1>7 DEF PacksOf
  <2> QED BY <1>1, <1>4, <1>5, <1>6, <1>7, <1>8, <2>2, <2>3, <2>4, PacksWritten DEF itemsOffered
<1>10. CASE ~h.default
  <2>1. Goes(w, Idle)
    BY <1>3, <1>4, <1>10, IdleFinds DEF Goes
  <2>2. TablesGrow
    BY <1>4, <1>6 DEF TablesGrow
  <2>3. \A i, q : DefaultOf(q, i) => DefaultOf(q, i)'
    BY <1>4, <1>6, <1>7, <1>10 DEF DefaultOf, PacksOf
  <2>4. \A i \in itemsOffered \ (raced \cup astray) :
          BeingTidied(i)' \/ \E q \in DOMAIN pack' : DefaultOf(q, i)'
    BY <1>1, <1>4, <1>6, <2>1, <2>2, <2>3, TidiedStill DEF CatalogueInvariant, DefaultsStand
  <2> QED BY <1>1, <1>4, <1>5, <1>6, <1>7, <1>8, <2>1, <2>4, PacksWritten
<1> QED BY <1>5, <1>9, <1>10

LEMMA WritePatchPackKeeps ==
    ASSUME CatalogueInvariant, NEW w \in Worker, WritePatchPack(w)
    PROVE  CatalogueInvariant'
<1>1. PICK h : h = handler[w]
  OBVIOUS
<1>2. PICK handsOn : handsOn = (h.body.active = "off" /\ h.row.default)
  OBVIOUS
<1>3. PICK row : row = [item |-> h.row.item, size |-> Resized(h.body.size, h.row.size),
                        default |-> h.body.default \/ h.row.default,
                        active |-> Switched(h.body.active, h.row.active)]
  OBVIOUS
<1>4. PICK g : g = IF h.body.default THEN [pc |-> "clear", about |-> h.about, of |-> h.of, heir |-> handsOn]
                   ELSE IF handsOn THEN [pc |-> "heir", about |-> h.about, of |-> h.of]
                   ELSE Idle
  OBVIOUS
<1>5. /\ PatchesPack(h) /\ ~Tidies(h) /\ pack' = [pack EXCEPT ![h.of] = row]
      /\ handler' = [handler EXCEPT ![w] = g]
      /\ UNCHANGED <<category, item, supplier, order, used, raced, astray>>
  BY <1>1, <1>2, <1>3, <1>4 DEF WritePatchPack, PatchesPack, Tidies
<1>6. /\ h.of \in DOMAIN pack /\ h.row \in PackRows /\ h.body \in PackBodies
      /\ h.row.item = pack[h.of].item /\ h.row.item \in h.about
  BY <1>1, <1>5 DEF CatalogueInvariant, HandlersFind, Sound
<1>7. h.row.item \notin raced =>
        /\ h.row = pack[h.of]
        /\ h.body.size \notin {Same, h.row.size} => ~packHasBeenUsed(h.of)
        /\ h.body.active = "off" => ActivePacks(h.row.item) \ {h.of} # {}
        /\ h.body.default /\ ~h.row.active => h.row.item \in astray
  BY <1>1, <1>5 DEF CatalogueInvariant, HandlersFind, Finds
<1>8. /\ h.body.default => h.body.active = Keep
      /\ h.body.active \in {"on", "off", Keep} /\ h.body.default \in BOOLEAN
      /\ h.body.size \in Sizes \cup {Same}
  <2>1. PICK b : b = h.body
    OBVIOUS
  <2>2. CASE \E n \in Sizes : b = [size |-> n, default |-> FALSE, active |-> Keep]
    BY <2>1, <2>2
  <2>3. CASE \E a \in {"on", "off"} : b = [size |-> Same, default |-> FALSE, active |-> a]
    BY <2>1, <2>3
  <2>4. CASE b = [size |-> Same, default |-> TRUE, active |-> Keep]
    BY <2>1, <2>4
  <2> QED BY <1>6, <2>1, <2>2, <2>3, <2>4 DEF PackBodies
<1>9. /\ DOMAIN pack' = DOMAIN pack /\ pack'[h.of] = row
      /\ \A q \in DOMAIN pack \ {h.of} : pack'[q] = pack[q]
  BY <1>5, <1>6
<1>10. /\ row.item = h.row.item /\ row.size = Resized(h.body.size, h.row.size)
       /\ row.active = Switched(h.body.active, h.row.active)
  BY <1>3
<1>11. row.default <=> h.body.default \/ h.row.default
  BY <1>3
<1>12. row \in PackRows
  <2>1. Resized(h.body.size, h.row.size) \in Sizes
    BY <1>6, <1>8 DEF Resized, PackRows
  <2>2. Switched(h.body.active, h.row.active) \in BOOLEAN
    BY <1>6, <1>8 DEF Switched, PackRows
  <2>3. (h.body.default \/ h.row.default) \in BOOLEAN /\ h.row.item \in DOMAIN item
    BY <1>6 DEF PackRows
  <2> QED BY <1>3, <2>1, <2>2, <2>3 DEF PackRows
<1>13. pack' \in [DOMAIN pack' -> PackRows]
  BY <1>5, <1>12 DEF CatalogueInvariant, CatalogueRows
<1>14. \A q \in DOMAIN pack : packHasBeenUsed(q) /\ pack[q].item \notin raced => pack'[q].size = pack[q].size
  <2>1. packHasBeenUsed(h.of) /\ h.row.item \notin raced => row.size = pack[h.of].size
    BY <1>7, <1>10 DEF Resized
  <2> QED BY <1>6, <1>9, <2>1
<1>15. \A i \in DOMAIN item \ {h.row.item} : PacksOf(i)' = PacksOf(i) /\ \A q \in PacksOf(i) : pack'[q] = pack[q]
  BY <1>6, <1>9, <1>10 DEF PacksOf
<1>16. TablesGrow
  BY <1>5, <1>6, <1>9, <1>10 DEF TablesGrow
<1>17. CASE h.body.default \/ handsOn
  <2>1. ASSUME h.body.default
        PROVE  /\ g.pc = "clear" /\ g.heir = FALSE
               /\ h.row.item \notin raced \cup astray => row.default /\ row.active
    <3>1. handsOn = FALSE
      BY <1>2, <1>8, <2>1 DEF Keep
    <3>2. g.pc = "clear" /\ g.heir = FALSE
      BY <1>4, <2>1, <3>1
    <3>3. h.row.item \notin raced \cup astray => row.default /\ row.active
      BY <1>7, <1>8, <1>10, <1>11, <2>1 DEF Switched
    <3> QED BY <3>2, <3>3
  <2>2. ASSUME ~h.body.default
        PROVE  /\ g.pc = "heir"
               /\ h.row.item \notin raced => Heirs(h.row.item, h.of)' # {}
    <3>1. handsOn /\ h.body.active = "off"
      BY <1>2, <1>17, <2>2
    <3>2. g.pc = "heir"
      BY <1>4, <2>2, <3>1
    <3>3. \A q \in ActivePacks(h.row.item) \ {h.of} : q \in Heirs(h.row.item, h.of)'
      BY <1>9 DEF ActivePacks, PacksOf, Heirs
    <3> QED BY <1>7, <3>1, <3>2, <3>3
  <2>3. g.about = h.about /\ g.of = h.of /\ {"pc", "about"} \subseteq DOMAIN g
    BY <1>4, <1>17
  <2>4. Goes(w, g) /\ BeingTidied(pack[g.of].item)'
    <3>1. pack'[g.of].item = h.row.item /\ g.of \in DOMAIN pack'
      BY <1>6, <1>9, <1>10, <2>3
    <3>2. Heirs(pack[g.of].item, g.of)' = Heirs(h.row.item, h.of)'
      BY <1>9, <1>10, <2>3 DEF Heirs, ActivePacks, PacksOf
    <3> QED BY <1>1, <1>5, <1>6, <1>9, <2>1, <2>2, <2>3, <3>1, <3>2, TidierGoes
  <2>5. BeingTidied(h.row.item)'
    <3>1. handler'[w] = g
      BY <1>5 DEF CatalogueInvariant, HandlersFind
    <3> QED BY <1>9, <1>10, <2>1, <2>2, <2>3, <3>1 DEF BeingTidied, Tidies
  <2> QED BY <1>1, <1>5, <1>6, <1>9, <1>10, <1>13, <1>14, <1>15, <2>4, <2>5, PacksWritten DEF itemsOffered
<1>18. CASE ~h.body.default /\ ~handsOn
  <2>1. Goes(w, Idle)
    BY <1>4, <1>5, <1>18, IdleFinds DEF Goes
  <2>2. ASSUME NEW q, DefaultOf(q, h.row.item), h.row.item \notin raced
        PROVE  DefaultOf(q, h.row.item)'
    <3>1. row.default <=> pack[h.of].default
      BY <1>7, <1>11, <1>18, <2>2
    <3>2. q = h.of => row.active
      BY <1>2, <1>6, <1>7, <1>8, <1>10, <1>18, <2>2 DEF DefaultOf, PacksOf, Switched
    <3> QED BY <1>6, <1>9, <1>10, <2>2, <3>1, <3>2 DEF DefaultOf, PacksOf
  <2>3. \A i \in itemsOffered \ (raced \cup astray) : i = h.row.item =>
          BeingTidied(i)' \/ \E q \in DOMAIN pack' : DefaultOf(q, i)'
    BY <1>1, <1>5, <1>9, <1>16, <2>1, <2>2, TidiedStill DEF CatalogueInvariant, DefaultsStand
  <2> QED BY <1>1, <1>5, <1>6, <1>9, <1>10, <1>13, <1>14, <1>15, <2>1, <2>3, PacksWritten DEF itemsOffered
<1> QED BY <1>17, <1>18

LEMMA ClearOthersKeeps ==
    ASSUME CatalogueInvariant, NEW w \in Worker, ClearOthers(w)
    PROVE  CatalogueInvariant'
<1>1. PICK h : h = handler[w]
  OBVIOUS
<1>2. PICK i : i = pack[h.of].item
  OBVIOUS
<1>3. h.pc = "clear" /\ h.heir = FALSE /\ h.of \in DOMAIN pack /\ i \in h.about
  BY <1>1, <1>2 DEF ClearOthers, CatalogueInvariant, HandlersFind, Sound, Tidies
<1>4. /\ pack' = ClearedBut(i, h.of) /\ handler' = [handler EXCEPT ![w] = Idle]
      /\ UNCHANGED <<category, item, supplier, order, used, raced, astray>>
  BY <1>1, <1>2, <1>3 DEF ClearOthers, End
<1>5. i \notin raced \cup astray => pack[h.of].default /\ pack[h.of].active
  BY <1>1, <1>2, <1>3 DEF CatalogueInvariant, HandlersFind, Finds
<1>6. \A q \in DOMAIN pack : pack[q] \in PackRows
  BY DEF CatalogueInvariant, CatalogueRows
<1>7. \A q \in DOMAIN pack :
        IF pack[q].item = i /\ q # h.of
        THEN /\ pack'[q].item = i /\ pack'[q].size = pack[q].size /\ pack'[q].default = FALSE
             /\ pack'[q] \in PackRows
        ELSE pack'[q] = pack[q]
  BY <1>4, <1>6 DEF ClearedBut, PackRows
<1>8. DOMAIN pack' = DOMAIN pack /\ pack' \in [DOMAIN pack' -> PackRows]
  BY <1>4, <1>6, <1>7 DEF ClearedBut
<1>9. i \notin raced \cup astray => DefaultOf(h.of, i)'
  BY <1>2, <1>3, <1>5, <1>7, <1>8 DEF DefaultOf, PacksOf
<1>10. \A j : j # i => PacksOf(j)' = PacksOf(j) /\ \A q \in PacksOf(j) : pack'[q] = pack[q]
  BY <1>7, <1>8 DEF PacksOf
<1>11. Goes(w, Idle)
  BY <1>4, IdleFinds DEF Goes
<1>12. \A q \in DOMAIN pack : pack'[q].item = pack[q].item /\ pack'[q].size = pack[q].size
  BY <1>7
<1> QED BY <1>1, <1>2, <1>3, <1>4, <1>7, <1>8, <1>9, <1>10, <1>11, <1>12, PacksWritten

LEMMA HandOnKeeps ==
    ASSUME CatalogueInvariant, NEW w \in Worker, HandOn(w)
    PROVE  CatalogueInvariant'
<1>1. PICK h : h = handler[w]
  OBVIOUS
<1>2. PICK i : i = pack[h.of].item
  OBVIOUS
<1>3. h.pc = "heir" /\ h.of \in DOMAIN pack /\ i \in h.about
  BY <1>1, <1>2 DEF HandOn, CatalogueInvariant, HandlersFind, Sound, Tidies
<1>4. UNCHANGED <<category, item, supplier, order, used, raced, astray>>
  BY DEF HandOn
<1>5. i \notin raced => Heirs(i, h.of) # {}
  BY <1>1, <1>2, <1>3 DEF CatalogueInvariant, HandlersFind, Finds
<1>6. CASE Heirs(i, h.of) = {} /\ End(w) /\ UNCHANGED pack
  <2>1. i \in raced
    BY <1>5, <1>6
  <2>2. Goes(w, Idle)
    BY <1>4, <1>6, IdleFinds DEF Goes, End
  <2>3. \A j : PacksOf(j)' = PacksOf(j) /\ \A q \in PacksOf(j) : pack'[q] = pack[q]
    BY <1>6 DEF PacksOf
  <2> QED BY <1>1, <1>2, <1>4, <1>6, <2>1, <2>2, <2>3, PacksWritten DEF CatalogueInvariant, CatalogueRows
<1>7. ASSUME NEW heir \in Heirs(i, h.of), pack' = [pack EXCEPT ![heir].default = TRUE],
             handler' = [handler EXCEPT ![w] = [pc |-> "clear", about |-> h.about, of |-> heir, heir |-> FALSE]]
      PROVE  CatalogueInvariant'
  <2>1. PICK g : g = [pc |-> "clear", about |-> h.about, of |-> heir, heir |-> FALSE]
    OBVIOUS
  <2>2. heir \in DOMAIN pack /\ pack[heir].item = i /\ pack[heir].active /\ pack[heir] \in PackRows
    BY <1>7 DEF Heirs, ActivePacks, PacksOf, CatalogueInvariant, CatalogueRows
  <2>3. pack' = [pack EXCEPT ![heir] = [pack[heir] EXCEPT !.default = TRUE]]
    BY <1>7
  <2>4. /\ pack'[heir].item = i /\ pack'[heir].size = pack[heir].size /\ pack'[heir].active
        /\ pack'[heir].default /\ pack'[heir] \in PackRows
    <3>1. PICK row : row = pack[heir]
      OBVIOUS
    <3>2. PICK new : new = [row EXCEPT !.default = TRUE]
      OBVIOUS
    <3>3. /\ new.item = row.item /\ new.size = row.size /\ new.active = row.active /\ new.default
          /\ new \in PackRows
      BY <2>2, <3>1, <3>2 DEF PackRows
    <3>4. pack'[heir] = new
      BY <2>2, <2>3, <3>1, <3>2
    <3> QED BY <2>2, <3>1, <3>3, <3>4
  <2>5. DOMAIN pack' = DOMAIN pack /\ \A q \in DOMAIN pack \ {heir} : pack'[q] = pack[q]
    BY <2>3
  <2>6. pack' \in [DOMAIN pack' -> PackRows]
    BY <2>3, <2>4, <2>5 DEF CatalogueInvariant, CatalogueRows
  <2>7. Goes(w, g) /\ BeingTidied(pack[g.of].item)'
    <3>1. {"pc", "about"} \subseteq DOMAIN g /\ g.pc = "clear" /\ g.heir = FALSE /\ g.of = heir
      BY <2>1
    <3>2. handler' = [handler EXCEPT ![w] = g] /\ g.about = handler[w].about
      BY <1>1, <1>7, <2>1
    <3>3. g.of \in DOMAIN pack' /\ pack'[g.of].item \in g.about
      BY <1>1, <1>3, <2>2, <2>4, <2>5, <3>1, <3>2
    <3>4. pack'[g.of].item \notin raced \cup astray => pack'[g.of].default /\ pack'[g.of].active
      BY <2>4, <3>1
    <3>5. raced' = raced /\ astray' = astray
      BY <1>4
    <3>6. \/ /\ g.pc = "clear" /\ g.heir = FALSE
             /\ pack'[g.of].item \notin raced \cup astray => pack'[g.of].default /\ pack'[g.of].active
          \/ /\ g.pc = "heir"
             /\ pack'[g.of].item \notin raced => Heirs(pack[g.of].item, g.of)' # {}
      BY <3>1, <3>4
    <3> QED BY <3>1, <3>2, <3>3, <3>5, <3>6, TidierGoes
  <2>8. BeingTidied(i)'
    <3>1. handler'[w] = g
      BY <1>7, <2>1 DEF CatalogueInvariant, HandlersFind
    <3> QED BY <2>1, <2>4, <3>1 DEF BeingTidied, Tidies
  <2>9. \A j : j # i => PacksOf(j)' = PacksOf(j) /\ \A q \in PacksOf(j) : pack'[q] = pack[q]
    BY <2>2, <2>4, <2>5 DEF PacksOf
  <2>10. \A q \in DOMAIN pack : pack'[q].item = pack[q].item /\ pack'[q].size = pack[q].size
    BY <2>2, <2>4, <2>5
  <2> QED BY <1>1, <1>2, <1>3, <1>4, <2>4, <2>5, <2>6, <2>7, <2>8, <2>9, <2>10, PacksWritten
<1> QED BY <1>1, <1>2, <1>6, <1>7 DEF HandOn

LEMMA WriteAddSupplierKeeps ==
    ASSUME CatalogueInvariant, NEW w \in Worker, NEW s \in Supplier, WriteAddSupplier(w, s)
    PROVE  CatalogueInvariant'
<1>1. PICK h : h = handler[w]
  OBVIOUS
<1>2. PICK row : row = [name |-> h.name, active |-> TRUE]
  OBVIOUS
<1>3. /\ AddsSupplier(h) /\ ~Tidies(h) /\ s \notin DOMAIN supplier /\ supplier' = WithRow(supplier, s, row)
      /\ Finish(w) /\ UNCHANGED <<category, item, pack, order, used>>
  BY <1>1, <1>2 DEF WriteAddSupplier, AddsSupplier, Tidies
<1>4. Goes(w, Idle) /\ raced' = raced /\ astray' = astray
  BY <1>3, FinishGoes
<1>5. h.name \in SupplierName
  BY <1>1, <1>3 DEF CatalogueInvariant, HandlersFind, Sound
<1>6. /\ DOMAIN supplier' = DOMAIN supplier \cup {s}
      /\ \A t \in DOMAIN supplier : supplier'[t] = supplier[t]
  BY <1>3 DEF WithRow
<1>7. \A A : TablesGrow /\ Confined(A)
  BY <1>3, <1>6 DEF TablesGrow, Confined
<1>8. CatalogueRows'
  <2>1. row \in [name : SupplierName, active : BOOLEAN]
    BY <1>2, <1>5
  <2>2. supplier' \in [DOMAIN supplier' -> [name : SupplierName, active : BOOLEAN]]
    BY <1>3, <1>6, <2>1 DEF WithRow, CatalogueInvariant, CatalogueRows
  <2>3. order \in [Order -> {NoOrder} \cup
             [status : {"requested", "approved", "ordered", "done"}, supplier : DOMAIN supplier']]
    BY <1>6 DEF CatalogueInvariant, CatalogueRows
  <2>4. ItemRows' = ItemRows /\ PackRows' = PackRows
    BY <1>3 DEF ItemRows, PackRows
  <2> QED BY <1>3, <2>2, <2>3, <2>4 DEF CatalogueInvariant, CatalogueRows
<1>9. HandlersFind' /\ InOneHand'
  BY <1>1, <1>4, <1>7, <1>8, HandlersGo DEF CatalogueInvariant
<1>10. PastStandsAsRead' /\ CategoriesServe'
  BY <1>3, <1>4 DEF CatalogueInvariant, PastStandsAsRead, CategoriesServe, itemsOffered
<1>11. SuppliersServe'
  <2>1. Confined({})
    BY <1>7
  <2> QED BY <1>4, <1>8, <2>1, SuppliersGoOn DEF CatalogueInvariant
<1>12. DefaultsStand'
  <2>1. \A i \in itemsOffered' : /\ i \in itemsOffered /\ PacksOf(i)' = PacksOf(i)
                                 /\ \A p \in PacksOf(i) : pack'[p] = pack[p]
    BY <1>3 DEF itemsOffered, PacksOf
  <2> QED BY <1>1, <1>3, <1>4, <1>7, <2>1, DefaultKept DEF CatalogueInvariant, DefaultsStand
<1> QED BY <1>8, <1>9, <1>10, <1>11, <1>12 DEF CatalogueInvariant

LEMMA WritePatchSupplierKeeps ==
    ASSUME CatalogueInvariant, NEW w \in Worker, WritePatchSupplier(w)
    PROVE  CatalogueInvariant'
<1>1. PICK h : h = handler[w]
  OBVIOUS
<1>2. /\ PatchesSupplier(h) /\ ~Tidies(h)
      /\ supplier' = [supplier EXCEPT ![h.of].active = Switched(h.active, supplier[h.of].active)]
      /\ Finish(w) /\ UNCHANGED <<category, item, pack, order, used>>
  BY <1>1 DEF WritePatchSupplier, PatchesSupplier, Tidies
<1>3. Goes(w, Idle) /\ raced' = raced /\ astray' = astray
  BY <1>2, FinishGoes
<1>4. /\ h.of \in DOMAIN supplier \cap h.about /\ h.active \in {"on", "off"}
      /\ h.active = "off" /\ h.of \notin raced \cup astray =>
           \A o \in Order : order[o].status \notin {"none", "done"} => order[o].supplier # h.of
  BY <1>1, <1>2 DEF CatalogueInvariant, HandlersFind, Sound, Finds
<1>5. PICK new : new = Switched(h.active, supplier[h.of].active)
  OBVIOUS
<1>6. new \in BOOLEAN /\ (h.active = "on" => new = TRUE)
  BY <1>4, <1>5 DEF Switched, Keep
<1>7. supplier' = [supplier EXCEPT ![h.of] = [supplier[h.of] EXCEPT !.active = new]]
  BY <1>2, <1>5
<1>8. supplier[h.of] \in [name : SupplierName, active : BOOLEAN]
  BY <1>4 DEF CatalogueInvariant, CatalogueRows
<1>9. /\ DOMAIN supplier' = DOMAIN supplier /\ supplier'[h.of].active = new
      /\ supplier'[h.of] \in [name : SupplierName, active : BOOLEAN]
      /\ \A t \in DOMAIN supplier \ {h.of} : supplier'[t] = supplier[t]
  BY <1>4, <1>6, <1>7, <1>8
<1>10. TablesGrow /\ Confined(h.about)
  BY <1>2, <1>4, <1>9 DEF TablesGrow, Confined
<1>11. CatalogueRows'
  <2>1. supplier' \in [DOMAIN supplier' -> [name : SupplierName, active : BOOLEAN]]
    BY <1>7, <1>9 DEF CatalogueInvariant, CatalogueRows
  <2>2. ItemRows' = ItemRows /\ PackRows' = PackRows
    BY <1>2 DEF ItemRows, PackRows
  <2> QED BY <1>2, <1>9, <2>1, <2>2 DEF CatalogueInvariant, CatalogueRows
<1>12. HandlersFind' /\ InOneHand'
  BY <1>1, <1>3, <1>10, <1>11, HandlersGo DEF CatalogueInvariant
<1>13. PastStandsAsRead' /\ CategoriesServe'
  BY <1>2, <1>3 DEF CatalogueInvariant, PastStandsAsRead, CategoriesServe, itemsOffered
<1>14. SuppliersServe'
  <2> SUFFICES ASSUME NEW o \in Order, order[o].status \notin {"none", "done"},
                      order[o].supplier \notin raced \cup astray
               PROVE  supplier'[order[o].supplier].active
    BY <1>2, <1>3 DEF SuppliersServe
  <2>1. supplier[order[o].supplier].active /\ order[o].supplier \in DOMAIN supplier
    BY DEF CatalogueInvariant, SuppliersServe, CatalogueRows, NoOrder
  <2> QED BY <1>4, <1>6, <1>9, <2>1
<1>15. DefaultsStand'
  <2>1. \A i \in itemsOffered' : /\ i \in itemsOffered /\ PacksOf(i)' = PacksOf(i)
                                 /\ \A p \in PacksOf(i) : pack'[p] = pack[p]
    BY <1>2 DEF itemsOffered, PacksOf
  <2> QED BY <1>1, <1>2, <1>3, <1>10, <2>1, DefaultKept DEF CatalogueInvariant, DefaultsStand
<1> QED BY <1>11, <1>12, <1>13, <1>14, <1>15 DEF CatalogueInvariant

\* A delivery or an order writes the line it has read, and an order itself.
LEMMA WriteUseKeeps ==
    ASSUME CatalogueInvariant, NEW w \in Worker,
           WriteDelivery(w) \/ \E o \in Order : WriteOrder(w, o)
    PROVE  CatalogueInvariant'
<1>1. PICK h : h = handler[w]
  OBVIOUS
<1>2. /\ Uses(h) /\ ~Tidies(h) /\ used' = used \cup {h.line}
      /\ Finish(w) /\ UNCHANGED <<category, item, pack, supplier>>
  BY <1>1 DEF WriteDelivery, WriteOrder, Uses, Tidies
<1>3. order' = order \/ \E o \in Order :
        order' = [order EXCEPT ![o] = [status |-> "requested", supplier |-> h.supplier]]
  BY <1>1 DEF WriteDelivery, WriteOrder
<1>4. Goes(w, Idle) /\ raced' = raced /\ astray' = astray
  BY <1>2, FinishGoes
<1>5. /\ h.line.pack \in DOMAIN pack /\ h.line.item \in DOMAIN item \cap h.about
      /\ h.line.item = pack[h.line.pack].item
      /\ h.supplier \in DOMAIN supplier \cap h.about
  BY <1>1, <1>2 DEF CatalogueInvariant, HandlersFind, Sound
<1>6. /\ h.line.item \notin raced =>
           h.line.size = pack[h.line.pack].size /\ h.line.unit = item[h.line.item].unit
      /\ h.supplier \notin raced => supplier[h.supplier].active
  BY <1>1, <1>2 DEF CatalogueInvariant, HandlersFind, Finds
<1>7. \A o \in Order : order'[o] = order[o] \/ order'[o] = [status |-> "requested", supplier |-> h.supplier]
  BY <1>3 DEF CatalogueInvariant, CatalogueRows
<1>8. TablesGrow /\ Confined(h.about)
  BY <1>2, <1>5, <1>7 DEF TablesGrow, Confined
<1>9. CatalogueRows'
  <2>1. [status |-> "requested", supplier |-> h.supplier]
          \in [status : {"requested", "approved", "ordered", "done"}, supplier : DOMAIN supplier]
    BY <1>5
  <2>2. order' \in [Order -> {NoOrder} \cup
             [status : {"requested", "approved", "ordered", "done"}, supplier : DOMAIN supplier]]
    BY <1>3, <2>1 DEF CatalogueInvariant, CatalogueRows
  <2>3. ItemRows' = ItemRows /\ PackRows' = PackRows
    BY <1>2 DEF ItemRows, PackRows
  <2>4. \A u \in used' : /\ u.pack \in DOMAIN pack' /\ u.item \in DOMAIN item'
                         /\ u.item = pack'[u.pack].item
    BY <1>2, <1>5 DEF CatalogueInvariant, CatalogueRows
  <2> QED BY <1>2, <2>2, <2>3, <2>4 DEF CatalogueInvariant, CatalogueRows
<1>10. HandlersFind' /\ InOneHand'
  BY <1>1, <1>4, <1>8, <1>9, HandlersGo DEF CatalogueInvariant
<1>11. PastStandsAsRead'
  BY <1>2, <1>4, <1>6 DEF CatalogueInvariant, PastStandsAsRead
<1>12. CategoriesServe'
  BY <1>2, <1>4 DEF CatalogueInvariant, CategoriesServe, itemsOffered
<1>13. SuppliersServe'
  BY <1>2, <1>4, <1>6, <1>7 DEF CatalogueInvariant, SuppliersServe
<1>14. DefaultsStand'
  <2>1. \A i \in itemsOffered' : /\ i \in itemsOffered /\ PacksOf(i)' = PacksOf(i)
                                 /\ \A p \in PacksOf(i) : pack'[p] = pack[p]
    BY <1>2 DEF itemsOffered, PacksOf
  <2> QED BY <1>1, <1>2, <1>4, <1>8, <2>1, DefaultKept DEF CatalogueInvariant, DefaultsStand
<1> QED BY <1>9, <1>10, <1>11, <1>12, <1>13, <1>14 DEF CatalogueInvariant

\* What nobody's handler does in two steps: a category added, an order decided.
LEMMA OneStepKeeps ==
    ASSUME CatalogueInvariant,
           \/ \E c \in Category : AddCategory(c)
           \/ \E o \in Order, status \in {"approved", "ordered", "done"} : Decide(o, status)
    PROVE  CatalogueInvariant'
<1>1. /\ item' = item /\ pack' = pack /\ supplier' = supplier /\ used' = used /\ handler' = handler
      /\ raced \subseteq raced' /\ astray' = astray
  BY DEF AddCategory, Decide
<1>2. /\ DOMAIN category \subseteq DOMAIN category' /\ category' \in [DOMAIN category' -> BOOLEAN]
      /\ \A c \in DOMAIN category : category'[c] = category[c]
  BY DEF AddCategory, Decide, WithRow, CatalogueInvariant, CatalogueRows
<1>3. \A o \in Order : order'[o] = order[o] \/
        (order[o].status \notin {"none", "done"} /\ order'[o].supplier = order[o].supplier)
  <2>1. ASSUME NEW o \in Order, NEW status \in {"approved", "ordered", "done"}, Decide(o, status)
        PROVE  /\ order[o].status \notin {"none", "done"} /\ order'[o].supplier = order[o].supplier
               /\ \A x \in Order \ {o} : order'[x] = order[x]
    <3>1. order[o].status \in {"requested", "approved", "ordered"}
      BY <2>1 DEF Decide
    <3>2. order[o] \in [status : {"requested", "approved", "ordered", "done"}, supplier : DOMAIN supplier]
      BY <3>1 DEF CatalogueInvariant, CatalogueRows, NoOrder
    <3>3. order' = [order EXCEPT ![o] = [order[o] EXCEPT !.status = status]]
      BY <2>1 DEF Decide
    <3> QED BY <3>1, <3>2, <3>3 DEF CatalogueInvariant, CatalogueRows
  <2>2. ASSUME NEW c \in Category, AddCategory(c) PROVE order' = order
    BY <2>2 DEF AddCategory
  <2> QED BY <2>1, <2>2
<1>4. TablesGrow /\ Confined({})
  BY <1>1, <1>2, <1>3 DEF TablesGrow, Confined
<1>5. CatalogueRows'
  <2>1. order' \in [Order -> {NoOrder} \cup
             [status : {"requested", "approved", "ordered", "done"}, supplier : DOMAIN supplier]]
    <3>1. ASSUME NEW o \in Order, NEW status \in {"approved", "ordered", "done"}, Decide(o, status)
          PROVE  order' \in [Order -> {NoOrder} \cup
             [status : {"requested", "approved", "ordered", "done"}, supplier : DOMAIN supplier]]
      <4>1. order[o] \in [status : {"requested", "approved", "ordered", "done"}, supplier : DOMAIN supplier]
        BY <3>1 DEF Decide, CatalogueInvariant, CatalogueRows, NoOrder
      <4>2. [order[o] EXCEPT !.status = status]
              \in [status : {"requested", "approved", "ordered", "done"}, supplier : DOMAIN supplier]
        BY <4>1
      <4>3. order' = [order EXCEPT ![o] = [order[o] EXCEPT !.status = status]]
        BY <3>1 DEF Decide
      <4> QED BY <4>2, <4>3 DEF CatalogueInvariant, CatalogueRows
    <3>2. ASSUME NEW c \in Category, AddCategory(c) PROVE order' = order
      BY <3>2 DEF AddCategory
    <3> QED BY <3>1, <3>2 DEF CatalogueInvariant, CatalogueRows
  <2>2. item' \in [DOMAIN item' -> ItemRows'] /\ PackRows' = PackRows
    BY <1>1, <1>2 DEF CatalogueInvariant, CatalogueRows, ItemRows, PackRows
  <2> QED BY <1>1, <1>2, <2>1, <2>2 DEF CatalogueInvariant, CatalogueRows
<1>6. HandlersFind' /\ InOneHand'
  <2>1. \A h : Sound(h) /\ Finds(h) => Sound(h)' /\ Finds(h)'
    BY <1>1, <1>4, <1>5, SoundOn, FindsOn DEF CatalogueInvariant
  <2> QED BY <1>1, <2>1 DEF CatalogueInvariant, HandlersFind, InOneHand
<1>7. PastStandsAsRead' /\ DefaultsStand'
  BY <1>1 DEF CatalogueInvariant, PastStandsAsRead, DefaultsStand, itemsOffered, BeingTidied, Tidies,
              DefaultOf, PacksOf
<1>8. CategoriesServe' /\ SuppliersServe'
  BY <1>1, <1>4, <1>5, CategoriesGoOn, SuppliersGoOn DEF CatalogueInvariant
<1> QED BY <1>5, <1>6, <1>7, <1>8 DEF CatalogueInvariant

-----------------------------------------------------------------------------
(* The invariant. *)

LEMMA CatalogueBegins ==
    ASSUME Init
    PROVE  CatalogueInvariant
<1>1. /\ category = [c \in FirstCategories |-> TRUE] /\ item = FirstItems /\ pack = FirstPacks
      /\ supplier = FirstSuppliers /\ order = [o \in Order |-> NoOrder] /\ used = {}
      /\ handler = [w \in Worker |-> Idle]
  BY DEF Init, CatalogueInit
<1>2. CatalogueRows
  BY <1>1, FirstRowsAssumption DEF CatalogueRows, ItemRows, PackRows
<1>3. HandlersFind /\ InOneHand
  <2>1. \A w \in Worker : handler[w] = Idle
    BY <1>1
  <2>2. Sound(Idle) /\ Finds(Idle) /\ Idle.about = {}
    BY DEF Idle, Sound, Finds, PatchesCategory, AddsItem, PatchesItem, AddsPack, PatchesPack, Tidies,
           AddsSupplier, PatchesSupplier, Uses
  <2> QED BY <1>1, <2>1, <2>2 DEF HandlersFind, InOneHand
<1>4. PastStandsAsRead /\ CategoriesServe /\ SuppliersServe
  <2>1. \A i \in DOMAIN FirstItems : FirstItems[i].category \in FirstCategories
    BY FirstRowsAssumption
  <2> QED BY <1>1, <2>1 DEF PastStandsAsRead, CategoriesServe, SuppliersServe, itemsOffered, NoOrder
<1>5. DefaultsStand
  BY <1>1, FirstRowsAssumption DEF DefaultsStand, DefaultOf, PacksOf, itemsOffered
<1> QED BY <1>2, <1>3, <1>4, <1>5 DEF CatalogueInvariant

LEMMA CatalogueStepKeeps ==
    ASSUME CatalogueInvariant, [Next]_vars
    PROVE  CatalogueInvariant'
<1>1. CASE CatalogueNext
  <2>1. ASSUME NEW w \in Worker, Drop(w) PROVE CatalogueInvariant'
    BY <2>1, EndKeeps DEF Drop
  <2> QED BY <1>1, <2>1, StartPatchCategoryKeeps, StartAddItemKeeps, WriteAddItemKeeps, StartPatchItemKeeps,
             StartAddPackKeeps, WriteAddPackKeeps, StartPatchPackKeeps, StartPatchSupplierKeeps,
             StartUseKeeps, WriteUseKeeps, StartAddSupplierKeeps, WriteAddSupplierKeeps,
             WritePatchCategoryKeeps, LookMovedKeeps, WritePatchItemKeeps, WritePatchPackKeeps,
             ClearOthersKeeps, HandOnKeeps, WritePatchSupplierKeeps, OneStepKeeps DEF CatalogueNext
<1>2. CASE BranchesNext
  BY <1>2, BranchesLeaveCatalogue
<1>3. CASE UNCHANGED vars
  BY <1>3, CatalogueUnchanged DEF vars
<1> QED BY <1>1, <1>2, <1>3 DEF Next

\* Whatever two admins and any deliveries and orders do at once, what a handler
\* has found out about an item, a pack, a category or a supplier still stands when
\* it writes, unless the overlap is on record.
THEOREM CatalogueIsKept == Spec => []CatalogueInvariant
BY CatalogueBegins, CatalogueStepKeeps, PTL DEF Spec

\* No change of a unit or of a pack's size reinterprets a delivery or an order,
\* unless it overlapped with it.
THEOREM PastIsReadAsItWas == Spec => []PastStandsAsRead
<1>1. CatalogueInvariant => PastStandsAsRead
  BY DEF CatalogueInvariant
<1> QED BY <1>1, CatalogueIsKept, PTL

LEMMA DefaultIsOne ==
    ASSUME CatalogueInvariant
    PROVE  OneDefaultPack
<1> SUFFICES ASSUME NEW i \in itemsOffered, i \notin raced \cup astray,
                    \A w \in Worker : i \notin handler[w].about
             PROVE  /\ Cardinality({p \in ActivePacks(i) : pack[p].default}) = 1
                    /\ i \notin itemsWithoutPack \cup itemsWithoutDefaultPack
  BY DEF OneDefaultPack
<1>1. ~BeingTidied(i)
  BY DEF BeingTidied, CatalogueInvariant, HandlersFind, Sound
<1>2. PICK p \in DOMAIN pack : DefaultOf(p, i)
  BY <1>1 DEF CatalogueInvariant, DefaultsStand
<1>3. {q \in ActivePacks(i) : pack[q].default} = {p}
  BY <1>2 DEF DefaultOf, ActivePacks
<1>4. p \in ActivePacks(i) /\ pack[p].default
  BY <1>3
<1> QED BY <1>3, <1>4, FS_Singleton DEF itemsWithoutPack, itemsWithoutDefaultPack

\* What the forms offer can be used: an item that is sold has its one default
\* pack, no item is sold under a retired category and no open order waits for a
\* retired supplier, with the stated exceptions.
THEOREM WhatIsOfferedIsUsable == Spec => []OfferedCanBeUsed
<1>1. CatalogueInvariant => RetiredIsOutOfUse
  BY DEF CatalogueInvariant, CategoriesServe, SuppliersServe, RetiredIsOutOfUse, itemsOffered
<1>2. CatalogueInvariant => OfferedCanBeUsed
  BY <1>1, DefaultIsOne DEF OfferedCanBeUsed
<1> QED BY <1>2, CatalogueIsKept, PTL

-----------------------------------------------------------------------------
(* The reports about suppliers and service. *)

\* Prices: what a delivery was judged by is the latest of the rows there were, and
\* rows that deliveries add are never earlier than it.
PriceRows == [price : Amounts, from : Nat, agreed : BOOLEAN]
DeliveryRows == [price : Amounts, last : Amounts \cup {Never}, day : Nat, rows : Nat, warned : BOOLEAN]
IsLatest(n, k) == n \in 1..k /\ \A m \in 1..k : m # n => Before(m, n)
DeliveryHolds(it) ==
    /\ it \in DeliveryRows /\ it.day <= today /\ it.rows <= Len(prices)
    /\ it.warned <=> PriceWarning(it.last, it.price)
    /\ it.last # Never => \E n \in 1..it.rows : IsLatest(n, it.rows) /\ it.last = prices[n].price
    /\ \A n \in 1..Len(prices) : ~prices[n].agreed =>
          IF n <= it.rows THEN prices[n].from <= it.day ELSE prices[n].from >= it.day
    /\ it.price # it.last =>
          /\ it.rows + 1 <= Len(prices)
          /\ prices[it.rows + 1] = [price |-> it.price, from |-> it.day, agreed |-> FALSE]
PricesHold ==
    /\ today \in Nat /\ prices \in Seq(PriceRows) /\ deliveries \in Seq(DeliveryRows)
    /\ \A n \in 1..Len(prices) : ~prices[n].agreed => prices[n].from <= today
    /\ Len(prices) > 0 => \E n \in 1..Len(prices) : IsLatest(n, Len(prices))
    /\ \A d \in 1..Len(deliveries) : DeliveryHolds(deliveries[d])

LEMMA RowsAreRows ==
  ASSUME PricesHold
  PROVE  \A n \in 1..Len(prices) : /\ prices[n] \in PriceRows /\ prices[n].from \in Nat
                                   /\ prices[n].price \in Amounts /\ prices[n].agreed \in BOOLEAN
<1>1. prices \in Seq(PriceRows)
  BY DEF PricesHold
<1>2. \A n \in 1..Len(prices) : prices[n] \in PriceRows
  BY <1>1
<1>3. \A x \in PriceRows : x.from \in Nat /\ x.price \in Amounts /\ x.agreed \in BOOLEAN
  BY DEF PriceRows
<1> QED BY <1>2, <1>3

LEMMA DeliveriesAreRows ==
  ASSUME NEW it, DeliveryHolds(it)
  PROVE  /\ it.price \in Amounts /\ it.last \in Amounts \cup {Never} /\ it.day \in Nat /\ it.rows \in Nat
         /\ it.warned \in BOOLEAN /\ it.price \in Nat /\ (it.last > 0 => it.last \in Nat \ {0} /\ it.last # Never)
<1>1. it \in DeliveryRows
  BY DEF DeliveryHolds
<1>2. /\ it.price \in Amounts /\ it.last \in Amounts \cup {Never} /\ it.day \in Nat /\ it.rows \in Nat
      /\ it.warned \in BOOLEAN
  BY <1>1 DEF DeliveryRows
<1>3. Amounts \subseteq Nat
  BY TradeReportsAssumption
<1>4. it.price \in Nat
  BY <1>2, <1>3
<1>5. ASSUME it.last > 0 PROVE it.last \in Nat \ {0} /\ it.last # Never
  <2>1. it.last # Never
    BY <1>5 DEF Never
  <2>2. it.last \in Nat
    BY <1>2, <1>3, <2>1
  <2> QED BY <1>5, <2>1, <2>2
<1> QED BY <1>2, <1>4, <1>5

LEMMA LatestIsLatest ==
  ASSUME PricesHold
  PROVE  IF Len(prices) = 0 THEN LastPrice = Never
         ELSE IsLatest(Latest, Len(prices)) /\ LastPrice = prices[Latest].price /\ LastPrice \in Amounts
<1>1. CASE Len(prices) = 0
  <2>1. prices = <<>>
    BY <1>1 DEF PricesHold
  <2> QED BY <1>1, <2>1 DEF LastPrice
<1>2. CASE Len(prices) # 0
  <2>1. Len(prices) \in Nat /\ DOMAIN prices = 1..Len(prices) /\ prices # <<>>
    BY <1>2 DEF PricesHold
  <2>2. PICK n \in 1..Len(prices) : IsLatest(n, Len(prices))
    BY <1>2, <2>1 DEF PricesHold
  <2>3. \A m \in DOMAIN prices \ {n} : Before(m, n)
    BY <2>1, <2>2 DEF IsLatest
  <2>4. Latest \in DOMAIN prices /\ \A m \in DOMAIN prices \ {Latest} : Before(m, Latest)
    BY <2>1, <2>3 DEF Latest
  <2>5. IsLatest(Latest, Len(prices))
    BY <2>1, <2>4 DEF IsLatest
  <2>6. prices[Latest] \in PriceRows
    BY <2>1, <2>4 DEF PricesHold
  <2>7. LastPrice = prices[Latest].price
    BY <2>1 DEF LastPrice
  <2> QED BY <1>2, <2>5, <2>6, <2>7 DEF PriceRows
<1> QED BY <1>1, <1>2

\* A row more: from today by a delivery, from any day by the office.
LEMMA RowsAreAdded ==
  ASSUME PricesHold, NEW x \in PriceRows, prices' = Append(prices, x),
         ~x.agreed => x.from = today
  PROVE  /\ prices' \in Seq(PriceRows) /\ Len(prices') = Len(prices) + 1 /\ prices'[Len(prices) + 1] = x
         /\ \A n \in 1..Len(prices) : prices'[n] = prices[n]
         /\ \A n \in 1..Len(prices') : ~prices'[n].agreed => prices'[n].from <= today
         /\ \E n \in 1..Len(prices') : IsLatest(n, Len(prices))'
         /\ \A it : DeliveryHolds(it) /\ today' = today => DeliveryHolds(it)'
<1>0. PICK k \in Nat : k = Len(prices)
  BY DEF PricesHold
<1>1. k = Len(prices) /\ prices' \in Seq(PriceRows) /\ Len(prices') = k + 1 /\ prices'[k + 1] = x
  BY <1>0 DEF PricesHold
<1>2. \A n \in 1..k : prices'[n] = prices[n]
  BY <1>0 DEF PricesHold
<1>3. \A n \in 1..k : prices[n] \in PriceRows /\ prices[n].from \in Nat
  BY <1>0, RowsAreRows
<1>4. x.from \in Nat /\ today \in Nat
  BY DEF PriceRows, PricesHold
<1>5. \A n \in 1..(k + 1) : n \in 1..k \/ n = k + 1
  BY <1>1
<1>6. \A n \in 1..Len(prices') : ~prices'[n].agreed => prices'[n].from <= today
  BY <1>1, <1>2, <1>4, <1>5 DEF PricesHold
<1>7. \A m, n \in 1..k : Before(m, n)' <=> Before(m, n)
  BY <1>2 DEF Before
<1>8. \E n \in 1..(k + 1) : IsLatest(n, k + 1)'
  <2>1. CASE k = 0
    <3>1. IsLatest(1, k + 1)'
      BY <2>1 DEF IsLatest
    <3> QED BY <3>1, <2>1
  <2>2. CASE k # 0
    <3>1. PICK n \in 1..k : IsLatest(n, k)
      BY <1>1, <2>2 DEF PricesHold
    <3>2. \A m \in 1..k : m # n => Before(m, n)
      BY <3>1 DEF IsLatest
    <3>3. CASE prices[n].from <= x.from
      <4>1. \A m \in 1..k : prices[m].from <= prices[n].from
        BY <3>2, <1>3 DEF Before
      <4>2. \A m \in 1..k : Before(m, k + 1)'
        BY <4>1, <3>3, <1>1, <1>2, <1>3, <1>4 DEF Before
      <4>3. IsLatest(k + 1, k + 1)'
        BY <4>2, <1>1, <1>5 DEF IsLatest
      <4> QED BY <4>3, <1>1
    <3>4. CASE x.from < prices[n].from
      <4>1. Before(k + 1, n)'
        BY <3>4, <1>1, <1>2 DEF Before
      <4>2. \A m \in 1..k : m # n => Before(m, n)'
        BY <3>2, <1>7
      <4>3. IsLatest(n, k + 1)'
        BY <4>1, <4>2, <1>1, <1>5 DEF IsLatest
      <4> QED BY <4>3, <1>1
    <3> QED BY <3>3, <3>4, <1>3, <1>4
  <2> QED BY <2>1, <2>2
<1>9. ASSUME NEW it, DeliveryHolds(it), today' = today PROVE DeliveryHolds(it)'
  <2>1. it \in DeliveryRows /\ it.day <= today' /\ it.rows <= Len(prices') /\ it.rows <= k
        /\ it.rows \in Nat /\ it.day \in Nat
    BY <1>1, <1>9 DEF DeliveryHolds, DeliveryRows
  <2>2. it.warned <=> PriceWarning(it.last, it.price)'
    BY <1>9 DEF DeliveryHolds, PriceWarning, Change
  <2>3. ASSUME it.last # Never
        PROVE  \E n \in 1..it.rows : IsLatest(n, it.rows)' /\ it.last = prices'[n].price
    <3>1. PICK n \in 1..it.rows : IsLatest(n, it.rows) /\ it.last = prices[n].price
      BY <1>9, <2>3 DEF DeliveryHolds
    <3>2. \A m \in 1..it.rows : m \in 1..k
      BY <1>1, <2>1
    <3>3. IsLatest(n, it.rows)'
      BY <3>1, <3>2, <1>7 DEF IsLatest
    <3> QED BY <3>1, <3>2, <3>3, <1>2
  <2>4. ASSUME NEW n \in 1..Len(prices'), ~prices'[n].agreed
        PROVE  IF n <= it.rows THEN prices'[n].from <= it.day ELSE prices'[n].from >= it.day
    <3>1. CASE n \in 1..k
      <4>1. n \in 1..Len(prices) /\ ~prices[n].agreed /\ prices'[n] = prices[n]
        BY <3>1, <1>0, <1>2, <2>4
      <4>2. IF n <= it.rows THEN prices[n].from <= it.day ELSE prices[n].from >= it.day
        BY <4>1, <1>9 DEF DeliveryHolds
      <4> QED BY <4>1, <4>2
    <3>2. CASE n = k + 1
      BY <3>2, <1>1, <2>1, <2>4, <1>9
    <3> QED BY <3>1, <3>2, <1>1, <1>5
  <2>5. ASSUME it.price # it.last
        PROVE  /\ it.rows + 1 <= Len(prices')
               /\ prices'[it.rows + 1] = [price |-> it.price, from |-> it.day, agreed |-> FALSE]
    <3>1. it.rows + 1 <= k /\ prices[it.rows + 1] = [price |-> it.price, from |-> it.day, agreed |-> FALSE]
      <4>1. it.price # it.last /\ DeliveryHolds(it)
        BY <1>9, <2>5
      <4> QED BY <4>1, <1>0 DEF DeliveryHolds
    <3>2. it.rows + 1 \in 1..k
      BY <3>1, <2>1, <1>1
    <3> QED BY <3>1, <3>2, <1>1, <1>2, <2>1
  <2> QED BY <2>1, <2>2, <2>3, <2>4, <2>5 DEF DeliveryHolds
<1> QED BY <1>1, <1>2, <1>6, <1>8, <1>9

LEMMA AgreeingKeepsPrices ==
  ASSUME PricesHold, NEW price \in Amounts, NEW from \in 0..LastDay, AgreePrice(price, from), today' = today
  PROVE  PricesHold'
<1>1. PICK x : x = [price |-> price, from |-> from, agreed |-> TRUE]
  OBVIOUS
<1>2. x \in PriceRows /\ x.agreed /\ prices' = Append(prices, x) /\ deliveries' = deliveries
  BY <1>1, TradeReportsAssumption DEF PriceRows, AgreePrice
<1>3. /\ prices' \in Seq(PriceRows) /\ Len(prices') = Len(prices) + 1
      /\ \A n \in 1..Len(prices') : ~prices'[n].agreed => prices'[n].from <= today
      /\ \E n \in 1..Len(prices') : IsLatest(n, Len(prices))'
      /\ \A it : DeliveryHolds(it) => DeliveryHolds(it)'
  BY <1>2, RowsAreAdded
<1> QED BY <1>2, <1>3 DEF PricesHold

LEMMA DeliveringKeepsPrices ==
  ASSUME PricesHold, NEW price \in Amounts, DeliverAt(price), today' = today
  PROVE  PricesHold'
<1>0. PICK k \in Nat : k = Len(prices)
  BY DEF PricesHold
<1>1. PICK it : it = [price |-> price, last |-> LastPrice, day |-> today, rows |-> k,
                      warned |-> PriceWarning(LastPrice, price)]
  OBVIOUS
<1>2. PICK x : x = [price |-> price, from |-> today, agreed |-> FALSE]
  OBVIOUS
<1>3. k = Len(prices) /\ today \in Nat /\ price \in Nat /\ x \in PriceRows /\ ~x.agreed /\ x.from = today
  BY <1>0, <1>2, TradeReportsAssumption DEF PricesHold, PriceRows
<1>4. it.price = price /\ it.last = LastPrice /\ it.day = today /\ it.rows = k
      /\ (it.warned <=> PriceWarning(it.last, it.price)) /\ it \in DeliveryRows
  <2>1. LastPrice \in Amounts \cup {Never}
    BY LatestIsLatest
  <2>2. PriceWarning(LastPrice, price) \in BOOLEAN
    BY DEF PriceWarning
  <2> QED BY <1>1, <1>3, <2>1, <2>2 DEF DeliveryRows
<1>5. deliveries' = Append(deliveries, it)
  BY <1>0, <1>1 DEF DeliverAt
<1>6. deliveries' \in Seq(DeliveryRows) /\ Len(deliveries') = Len(deliveries) + 1
      /\ deliveries'[Len(deliveries) + 1] = it
      /\ \A d \in 1..Len(deliveries) : deliveries'[d] = deliveries[d]
  BY <1>4, <1>5 DEF PricesHold
<1>7. Len(deliveries) \in Nat
  BY DEF PricesHold
<1>8. \A n \in 1..k : ~prices[n].agreed => prices[n].from <= today
  BY <1>0 DEF PricesHold
<1>9. it.last # Never => \E n \in 1..k : IsLatest(n, k) /\ it.last = prices[n].price
  BY <1>0, <1>4, LatestIsLatest DEF IsLatest
<1>10. /\ prices' \in Seq(PriceRows)
       /\ \A n \in 1..Len(prices') : ~prices'[n].agreed => prices'[n].from <= today
       /\ Len(prices') > 0 => \E n \in 1..Len(prices') : IsLatest(n, Len(prices))'
       /\ \A e : DeliveryHolds(e) => DeliveryHolds(e)'
       /\ DeliveryHolds(it)'
  <2>1. CASE price = LastPrice
    <3>1. prices' = prices
      BY <2>1 DEF DeliverAt
    <3>2. \A m, n : Before(m, n)' <=> Before(m, n)
      BY <3>1 DEF Before
    <3>3. \A m, n : IsLatest(m, n)' <=> IsLatest(m, n)
      BY <3>2 DEF IsLatest
    <3>4. \A e : DeliveryHolds(e) => DeliveryHolds(e)'
      BY <3>1, <3>3 DEF DeliveryHolds, PriceWarning, Change
    <3>5. DeliveryHolds(it)
      BY <1>3, <1>4, <1>8, <1>9, <2>1 DEF DeliveryHolds
    <3> QED BY <3>1, <3>3, <3>4, <3>5 DEF PricesHold
  <2>2. CASE price # LastPrice
    <3>1. prices' = Append(prices, x)
      BY <1>2, <2>2 DEF DeliverAt
    <3>2. /\ prices' \in Seq(PriceRows) /\ Len(prices') = k + 1 /\ prices'[k + 1] = x
          /\ \A n \in 1..k : prices'[n] = prices[n]
          /\ \A n \in 1..Len(prices') : ~prices'[n].agreed => prices'[n].from <= today
          /\ \E n \in 1..Len(prices') : IsLatest(n, Len(prices))'
          /\ \A e : DeliveryHolds(e) => DeliveryHolds(e)'
      BY <3>1, <1>3, RowsAreAdded
    <3>3. \A m, n \in 1..k : Before(m, n)' <=> Before(m, n)
      BY <3>2 DEF Before
    <3>4. it.last # Never => \E n \in 1..k : IsLatest(n, k)' /\ it.last = prices'[n].price
      BY <1>9, <3>2, <3>3 DEF IsLatest
    <3>5. \A n \in 1..Len(prices') : ~prices'[n].agreed =>
              IF n <= k THEN prices'[n].from <= today ELSE prices'[n].from >= today
      <4> SUFFICES ASSUME NEW n \in 1..Len(prices'), ~prices'[n].agreed
                   PROVE  IF n <= k THEN prices'[n].from <= today ELSE prices'[n].from >= today
        OBVIOUS
      <4>1. CASE n \in 1..k
        BY <4>1, <3>2, <1>8
      <4>2. CASE n = k + 1
        BY <4>2, <3>2, <1>3
      <4> QED BY <4>1, <4>2, <3>2, <1>3
    <3>6. it.warned <=> PriceWarning(it.last, it.price)'
      BY <1>4 DEF PriceWarning, Change
    <3>7. it.rows + 1 <= Len(prices') /\ prices'[it.rows + 1] = [price |-> it.price, from |-> it.day, agreed |-> FALSE]
      BY <1>2, <1>3, <1>4, <3>2
    <3>8. it.day <= today' /\ it.rows <= Len(prices')
      BY <1>3, <1>4, <3>2
    <3>9. DeliveryHolds(it)'
      BY <1>4, <3>4, <3>5, <3>6, <3>7, <3>8 DEF DeliveryHolds
    <3> QED BY <3>2, <3>9
  <2> QED BY <2>1, <2>2
<1>11. \A d \in 1..Len(deliveries') : DeliveryHolds(deliveries[d])'
  <2> SUFFICES ASSUME NEW d \in 1..Len(deliveries') PROVE DeliveryHolds(deliveries[d])'
    OBVIOUS
  <2>1. CASE d = Len(deliveries) + 1
    BY <2>1, <1>6, <1>10
  <2>2. CASE d \in 1..Len(deliveries)
    <3>1. PICK e : e = deliveries[d]
      OBVIOUS
    <3>2. DeliveryHolds(e)'
      BY <2>2, <3>1, <1>10 DEF PricesHold
    <3> QED BY <2>2, <3>1, <3>2, <1>6
  <2> QED BY <2>1, <2>2, <1>6, <1>7
<1> QED BY <1>3, <1>6, <1>10, <1>11 DEF PricesHold

LEMMA PassingDaysKeepPrices ==
  ASSUME PricesHold, today' \in Nat, today <= today', UNCHANGED <<prices, deliveries>>
  PROVE  PricesHold'
<1>1. \A m, n : Before(m, n)' <=> Before(m, n)
  BY DEF Before
<1>2. \A m, n : IsLatest(m, n)' <=> IsLatest(m, n)
  BY <1>1 DEF IsLatest
<1>3. today \in Nat
  BY DEF PricesHold
<1>4. ASSUME NEW e, DeliveryHolds(e) PROVE DeliveryHolds(e)'
  <2>1. e.day \in Nat /\ e.day <= today'
    BY <1>3, <1>4 DEF DeliveryHolds, DeliveryRows
  <2> QED BY <1>2, <1>4, <2>1 DEF DeliveryHolds, PriceWarning, Change
<1>5. \A n \in 1..Len(prices) : ~prices[n].agreed => prices[n].from <= today'
  <2>1. \A n \in 1..Len(prices) : prices[n].from \in Nat
    BY RowsAreRows
  <2> QED BY <1>3, <2>1 DEF PricesHold
<1>6. \A d \in 1..Len(deliveries) : DeliveryHolds(deliveries[d])'
  <2> SUFFICES ASSUME NEW d \in 1..Len(deliveries) PROVE DeliveryHolds(deliveries[d])'
    OBVIOUS
  <2>1. PICK e : e = deliveries[d]
    OBVIOUS
  <2>2. DeliveryHolds(e)'
    BY <2>1, <1>4 DEF PricesHold
  <2> QED BY <2>1, <2>2
<1> QED BY <1>2, <1>5, <1>6 DEF PricesHold

\* The percentages.
LEMMA Percentages ==
  ASSUME NEW old \in Nat \ {0}, NEW new \in Nat
  PROVE  /\ 100 * Change(old, new) \in Nat
         /\ WarnPct * old \in Nat \ {0} /\ MovePct * old <= WarnPct * old
         /\ Change(old, old) = 0
<1>1. PICK a \in Nat : WarnPct = a + 1
  <2>1. WarnPct - 1 \in Nat /\ WarnPct = (WarnPct - 1) + 1
    BY TradeReportsAssumption
  <2> QED BY <2>1
<1>2. WarnPct * old = a * old + old /\ a * old \in Nat
  BY <1>1
<1>3. PICK b \in Nat : WarnPct = MovePct + b
  <2>1. WarnPct - MovePct \in Nat /\ WarnPct = MovePct + (WarnPct - MovePct)
    BY TradeReportsAssumption
  <2> QED BY <2>1
<1>4. MovePct \in Nat
  BY TradeReportsAssumption
<1>5. WarnPct * old = MovePct * old + b * old /\ b * old \in Nat /\ MovePct * old \in Nat
  BY <1>3, <1>4
<1>6. Change(old, new) \in Nat /\ Change(old, old) = 0
  BY DEF Change
<1> QED BY <1>2, <1>5, <1>6

LEMMA PricesAreReported ==
  ASSUME PricesHold
  PROVE  JumpsAreReported
<1> DEFINE Bent(e) == \/ \E n \in 1..e.rows : prices[n].agreed /\ prices[n].from > e.day
                      \/ \E n \in (e.rows + 1)..Len(prices) : prices[n].agreed /\ prices[n].from < e.day
<1>1. ASSUME NEW it, DeliveryHolds(it), it.last > 0, ~Bent(it), it.warned
      PROVE  [day |-> it.day, previous |-> it.last, price |-> it.price] \in PriceMovement(it.day, it.day)
  <2>1. it.price \in Nat /\ it.last \in Nat \ {0} /\ it.day \in Nat /\ it.rows \in Nat /\ it.last # Never
    BY <1>1, DeliveriesAreRows
  <2>2. 100 * Change(it.last, it.price) >= WarnPct * it.last
    BY <1>1 DEF DeliveryHolds, PriceWarning
  <2>3. it.price # it.last
    <3>1. WarnPct * it.last \in Nat \ {0} /\ Change(it.last, it.last) = 0
      BY <2>1, Percentages
    <3> QED BY <2>2, <3>1
  <2>4. PICK k \in Nat : k = it.rows
    BY <2>1
  <2>5. k + 1 \in 1..Len(prices) /\ Len(prices) \in Nat
    BY <1>1, <2>3, <2>4 DEF DeliveryHolds, PricesHold
  <2>6. prices[k + 1].price = it.price /\ prices[k + 1].from = it.day
    BY <1>1, <2>3, <2>4 DEF DeliveryHolds
  <2>7. \A n \in 1..Len(prices) : prices[n].from \in Nat /\ prices[n].agreed \in BOOLEAN
    BY RowsAreRows
  <2>8. \A n \in 1..k : n \in 1..Len(prices) /\ prices[n].from <= it.day
    <3> SUFFICES ASSUME NEW n \in 1..k PROVE n \in 1..Len(prices) /\ prices[n].from <= it.day
      OBVIOUS
    <3>1. n \in 1..Len(prices)
      BY <2>5
    <3>2. ~prices[n].agreed => prices[n].from <= it.day
      BY <1>1, <2>4, <3>1 DEF DeliveryHolds
    <3>3. prices[n].agreed => ~(prices[n].from > it.day)
      BY <1>1, <2>4
    <3> QED BY <2>1, <2>7, <3>1, <3>2, <3>3
  <2>9. \A n \in (k + 1)..Len(prices) : n \in 1..Len(prices) /\ prices[n].from >= it.day
    <3> SUFFICES ASSUME NEW n \in (k + 1)..Len(prices)
                 PROVE  n \in 1..Len(prices) /\ prices[n].from >= it.day
      OBVIOUS
    <3>1. n \in 1..Len(prices) /\ ~(n <= k)
      BY <2>5
    <3>2. ~prices[n].agreed => prices[n].from >= it.day
      BY <1>1, <2>4, <3>1 DEF DeliveryHolds
    <3>3. prices[n].agreed => ~(prices[n].from < it.day)
      BY <1>1, <2>4
    <3> QED BY <2>1, <2>7, <3>1, <3>2, <3>3
  <2>10. {m \in DOMAIN prices : Before(m, k + 1)} = 1..k
    <3>1. DOMAIN prices = 1..Len(prices)
      BY DEF PricesHold
    <3>2. \A m \in 1..k : m \in DOMAIN prices /\ Before(m, k + 1)
      BY <3>1, <2>1, <2>5, <2>6, <2>7, <2>8 DEF Before
    <3>3. \A m \in (k + 1)..Len(prices) : ~Before(m, k + 1)
      BY <2>1, <2>6, <2>7, <2>9 DEF Before
    <3>4. \A m \in DOMAIN prices : m \in 1..k \/ m \in (k + 1)..Len(prices)
      BY <3>1, <2>5
    <3> QED BY <3>2, <3>3, <3>4
  <2>11. Lag(k + 1) = it.last
    <3>1. PICK n \in 1..k : IsLatest(n, k) /\ it.last = prices[n].price
      BY <1>1, <2>1, <2>4 DEF DeliveryHolds
    <3>2. \A j \in 1..k : j # n => Before(j, n)
      BY <3>1 DEF IsLatest
    <3>3. PICK c : c = CHOOSE m \in 1..k : \A j \in 1..k \ {m} : Before(j, m)
      OBVIOUS
    <3>4. c \in 1..k /\ \A j \in 1..k \ {c} : Before(j, c)
      BY <3>2, <3>3
    <3>5. c = n
      BY <3>2, <3>4, <2>7, <2>8 DEF Before
    <3> QED BY <3>1, <3>3, <3>5, <2>10 DEF Lag
  <2>12. 100 * Change(Lag(k + 1), prices[k + 1].price) >= MovePct * Lag(k + 1)
    <3>1. MovePct * it.last <= WarnPct * it.last /\ 100 * Change(it.last, it.price) \in Nat
          /\ WarnPct * it.last \in Nat
      BY <2>1, Percentages
    <3>2. MovePct * it.last \in Int
      BY <2>1, TradeReportsAssumption
    <3> QED BY <2>2, <2>6, <2>11, <3>1, <3>2
  <2>13. k + 1 \in DOMAIN prices
    BY <2>5 DEF PricesHold
  <2> QED BY <2>1, <2>6, <2>11, <2>12, <2>13 DEF PriceMovement
<1>2. ASSUME NEW it, DeliveryHolds(it), it.last > 0, ~it.warned
      PROVE  100 * Change(it.last, it.price) < WarnPct * it.last
  <2>1. it.price \in Nat /\ it.last \in Nat \ {0}
    BY <1>2, DeliveriesAreRows
  <2>2. 100 * Change(it.last, it.price) \in Nat /\ WarnPct * it.last \in Nat
    BY <2>1, Percentages
  <2> QED BY <1>2, <2>2 DEF DeliveryHolds, PriceWarning
<1>3. \A d \in DOMAIN deliveries : DeliveryHolds(deliveries[d])
  BY DEF PricesHold
<1> QED BY <1>1, <1>2, <1>3 DEF JumpsAreReported

\* Orders, asks and returns: what a row says of how far it has come agrees with itself.
OrderRows == [status : OPEN_STATUSES \cup FINISHED, supplier : Suppliers \cup {Nobody}, raised : Nat,
              needed : Nat \cup {Never}, closed : Nat \cup {Never}, late : BOOLEAN,
              asked : {2}, received : Nat]
OrderHolds(o) ==
    /\ o \in OrderRows /\ o.raised <= today
    /\ o.closed = Never <=> o.status \in OPEN_STATUSES
    /\ o.closed = Never => o.received < o.asked
    /\ o.closed # Never => (o.late <=> o.needed # Never /\ o.closed > o.needed)
AskRows == [status : {"requested", "released", "cancelled"}, at : Nat, asked : {2}, issued : 0..2]
AskHolds(a) == a \in AskRows /\ a.at <= today /\ (a.status = "requested" => a.issued = 0)
Decisions == UNION {[1..n -> {"none", "vendor", "waste"}] : n \in 1..2}
ReturnRows == [status : {"raised", "approved", "sent", "settled"}, supplier : Suppliers, reason : Reasons,
               raised : Nat, decision : Decisions, binned : BOOLEAN,
               outcome : {"none", "credit", "replacement", "written_off"}, credit : Nat]
ReturnHolds(r) ==
    r \in ReturnRows /\ r.raised <= today /\ (r.outcome = "none" <=> r.status # "settled")
OrdersHold  == orders \in Seq(OrderRows) /\ \A o \in 1..Len(orders) : OrderHolds(orders[o])
AsksHold    == asks \in Seq(AskRows) /\ \A a \in 1..Len(asks) : AskHolds(asks[a])
ReturnsHold == returns \in Seq(ReturnRows) /\ \A r \in 1..Len(returns) : ReturnHolds(returns[r])
TradeInvariant == PricesHold /\ OrdersHold /\ AsksHold /\ ReturnsHold

\* How a table changes: a row more, or a row in the place of another.
LEMMA OneRowMore ==
  ASSUME NEW R, NEW s \in Seq(R), NEW x \in R, NEW t, t = Append(s, x)
  PROVE  t \in Seq(R) /\ \A n \in 1..Len(t) : t[n] = x \/ (n \in 1..Len(s) /\ t[n] = s[n])
<1>1. Len(s) \in Nat /\ t \in Seq(R) /\ Len(t) = Len(s) + 1 /\ t[Len(s) + 1] = x
  OBVIOUS
<1>2. \A n \in 1..Len(s) : t[n] = s[n]
  OBVIOUS
<1> QED BY <1>1, <1>2

LEMMA OneRowChanged ==
  ASSUME NEW R, NEW s \in Seq(R), NEW i \in 1..Len(s), NEW x \in R, NEW t, t = [s EXCEPT ![i] = x]
  PROVE  t \in Seq(R) /\ \A n \in 1..Len(t) : t[n] = x \/ (n \in 1..Len(s) /\ t[n] = s[n])
<1>1. Len(s) \in Nat /\ DOMAIN s = 1..Len(s) /\ t \in Seq(R) /\ Len(t) = Len(s)
  OBVIOUS
<1>2. \A n \in 1..Len(s) : t[n] = IF n = i THEN x ELSE s[n]
  OBVIOUS
<1> QED BY <1>1, <1>2

LEMMA OrdersStay ==
  ASSUME OrdersHold, today' = today, NEW x, OrderHolds(x),
         \/ orders' = Append(orders, x)
         \/ \E o \in 1..Len(orders) : orders' = [orders EXCEPT ![o] = x]
  PROVE  OrdersHold'
<1>1. x \in OrderRows /\ orders \in Seq(OrderRows)
  BY DEF OrderHolds, OrdersHold
<1>2. PICK t : t = orders'
  OBVIOUS
<1>3. t \in Seq(OrderRows) /\ \A n \in 1..Len(t) : t[n] = x \/ (n \in 1..Len(orders) /\ t[n] = orders[n])
  BY <1>1, <1>2, OneRowMore, OneRowChanged
<1>4. \A n \in 1..Len(t) : OrderHolds(t[n])
  BY <1>3 DEF OrdersHold
<1>5. \A y : OrderHolds(y)' <=> OrderHolds(y)
  BY DEF OrderHolds
<1> QED BY <1>2, <1>3, <1>4, <1>5 DEF OrdersHold

LEMMA AsksStay ==
  ASSUME AsksHold, today' = today, NEW x, AskHolds(x),
         \/ asks' = Append(asks, x)
         \/ \E a \in 1..Len(asks) : asks' = [asks EXCEPT ![a] = x]
  PROVE  AsksHold'
<1>1. x \in AskRows /\ asks \in Seq(AskRows)
  BY DEF AskHolds, AsksHold
<1>2. PICK t : t = asks'
  OBVIOUS
<1>3. t \in Seq(AskRows) /\ \A n \in 1..Len(t) : t[n] = x \/ (n \in 1..Len(asks) /\ t[n] = asks[n])
  BY <1>1, <1>2, OneRowMore, OneRowChanged
<1>4. \A n \in 1..Len(t) : AskHolds(t[n])
  BY <1>3 DEF AsksHold
<1>5. \A y : AskHolds(y)' <=> AskHolds(y)
  BY DEF AskHolds
<1> QED BY <1>2, <1>3, <1>4, <1>5 DEF AsksHold

LEMMA ReturnsStay ==
  ASSUME ReturnsHold, today' = today, NEW x, ReturnHolds(x),
         \/ returns' = Append(returns, x)
         \/ \E r \in 1..Len(returns) : returns' = [returns EXCEPT ![r] = x]
  PROVE  ReturnsHold'
<1>1. x \in ReturnRows /\ returns \in Seq(ReturnRows)
  BY DEF ReturnHolds, ReturnsHold
<1>2. PICK t : t = returns'
  OBVIOUS
<1>3. t \in Seq(ReturnRows) /\ \A n \in 1..Len(t) : t[n] = x \/ (n \in 1..Len(returns) /\ t[n] = returns[n])
  BY <1>1, <1>2, OneRowMore, OneRowChanged
<1>4. \A n \in 1..Len(t) : ReturnHolds(t[n])
  BY <1>3 DEF ReturnsHold
<1>5. \A y : ReturnHolds(y)' <=> ReturnHolds(y)
  BY DEF ReturnHolds
<1> QED BY <1>2, <1>3, <1>4, <1>5 DEF ReturnsHold

LEMMA LargerThanZero ==
  ASSUME NEW n \in Int
  PROVE  Max({0, n}) = IF n > 0 THEN n ELSE 0
BY DEF Max

LEMMA OrderStepsKeepOrders ==
  ASSUME OrdersHold, today \in Nat, today' = today,
         \/ \E s \in Suppliers \cup {Nobody}, needed \in today..LastDay \cup {Never} : RaiseOrder(s, needed)
         \/ \E o \in DOMAIN orders :
               \/ \E d \in {"approved", "ordered", "rejected", "done"}, s \in Suppliers \cup {Nobody} :
                     DecideOrder(o, d, s)
               \/ \E qty \in 1..2 : ReceiveOrder(o, qty)
  PROVE  OrdersHold'
<1>1. ASSUME NEW s \in Suppliers \cup {Nobody}, NEW needed \in today..LastDay \cup {Never},
             RaiseOrder(s, needed)
      PROVE  OrdersHold'
  <2>1. PICK x : x = [status |-> "requested", supplier |-> s, raised |-> today, needed |-> needed,
                      closed |-> Never, late |-> FALSE, asked |-> 2, received |-> 0]
    OBVIOUS
  <2>2. needed \in Nat \cup {Never}
    BY TradeReportsAssumption
  <2>3. OrderHolds(x)
    BY <2>1, <2>2 DEF OrderHolds, OrderRows, OPEN_STATUSES, FINISHED
  <2> QED BY <1>1, <2>1, <2>3, OrdersStay DEF RaiseOrder
<1>2. ASSUME NEW o \in DOMAIN orders PROVE o \in 1..Len(orders) /\ OrderHolds(orders[o]) /\ orders[o] \in OrderRows
  BY <1>2 DEF OrdersHold, OrderHolds
<1>3. ASSUME NEW o \in DOMAIN orders, orders[o].status \in OPEN_STATUSES
      PROVE  DaysLate(o) > 0 <=> (orders[o].needed # Never /\ today > orders[o].needed)
  <2>1. orders[o].needed \in Nat \cup {Never}
    BY <1>2 DEF OrderRows
  <2>2. CASE orders[o].needed # Never
    <3>1. today - orders[o].needed \in Int
      BY <2>1, <2>2
    <3> QED BY <2>1, <2>2, <3>1, LargerThanZero DEF DaysLate
  <2>3. CASE orders[o].needed = Never
    BY <2>3 DEF DaysLate
  <2> QED BY <2>2, <2>3
<1>4. ASSUME NEW o \in DOMAIN orders, NEW d \in {"approved", "ordered", "rejected", "done"},
             NEW s \in Suppliers \cup {Nobody}, DecideOrder(o, d, s)
      PROVE  OrdersHold'
  <2>1. PICK y : y = orders[o]
    OBVIOUS
  <2>2. PICK named : named = IF s = Nobody THEN y.supplier ELSE s
    OBVIOUS
  <2>3. PICK x : x = [y EXCEPT !.status = d, !.supplier = named,
                          !.closed = IF d \in FINISHED THEN today ELSE Never,
                          !.late = d \in FINISHED /\ DaysLate(o) > 0]
    OBVIOUS
  <2>4. y \in OrderRows /\ OrderHolds(y) /\ y.status \in OPEN_STATUSES
    BY <1>2, <1>4, <2>1 DEF DecideOrder
  <2>5. orders' = [orders EXCEPT ![o] = x]
    BY <1>4, <2>1, <2>2, <2>3 DEF DecideOrder
  <2>6. x \in OrderRows /\ x.status = d /\ x.raised = y.raised /\ x.needed = y.needed
        /\ x.received = y.received /\ x.asked = y.asked
        /\ x.closed = (IF d \in FINISHED THEN today ELSE Never)
        /\ (x.late <=> d \in FINISHED /\ DaysLate(o) > 0)
    <3>1. (d \in FINISHED /\ DaysLate(o) > 0) \in BOOLEAN
      OBVIOUS
    <3>2. named \in Suppliers \cup {Nobody} /\ d \in OPEN_STATUSES \cup FINISHED
      BY <2>2, <2>4 DEF OrderRows, OPEN_STATUSES, FINISHED
    <3> QED BY <2>3, <2>4, <3>1, <3>2 DEF OrderRows
  <2>7. d \in FINISHED <=> d \notin OPEN_STATUSES
    BY DEF FINISHED, OPEN_STATUSES
  <2>8. Never \notin Nat
    BY DEF Never
  <2>9. y.closed = Never /\ y.received < y.asked /\ y.raised <= today
    BY <2>4 DEF OrderHolds
  <2>10. DaysLate(o) > 0 <=> (y.needed # Never /\ today > y.needed)
    BY <1>3, <2>1, <2>4
  <2>11. OrderHolds(x)
    BY <2>6, <2>7, <2>8, <2>9, <2>10 DEF OrderHolds
  <2> QED BY <1>2, <2>5, <2>11, OrdersStay
<1>5. ASSUME NEW o \in DOMAIN orders, NEW qty \in 1..2, ReceiveOrder(o, qty)
      PROVE  OrdersHold'
  <2>1. PICK y : y = orders[o]
    OBVIOUS
  <2>2. PICK received : received = y.received + qty
    OBVIOUS
  <2>3. PICK x : x = [y EXCEPT !.received = received,
                          !.status = IF received >= y.asked THEN "done" ELSE "ordered",
                          !.closed = IF received >= y.asked THEN today ELSE @,
                          !.late = received >= y.asked /\ DaysLate(o) > 0]
    OBVIOUS
  <2>4. y \in OrderRows /\ OrderHolds(y) /\ y.status \in OPEN_STATUSES
    BY <1>2, <1>5, <2>1 DEF ReceiveOrder, RECEIVABLE, OPEN_STATUSES
  <2>5. orders' = [orders EXCEPT ![o] = x]
    BY <1>5, <2>1, <2>2, <2>3 DEF ReceiveOrder
  <2>6. received \in Nat /\ y.asked = 2
    BY <2>2, <2>4 DEF OrderRows
  <2>7. y.closed = Never /\ y.received < y.asked /\ y.raised <= today
    BY <2>4 DEF OrderHolds
  <2>8. x \in OrderRows /\ x.raised = y.raised /\ x.needed = y.needed
        /\ x.received = received /\ x.asked = y.asked
        /\ x.status = (IF received >= y.asked THEN "done" ELSE "ordered")
        /\ x.closed = (IF received >= y.asked THEN today ELSE Never)
        /\ (x.late <=> received >= y.asked /\ DaysLate(o) > 0)
    <3>1. (received >= y.asked /\ DaysLate(o) > 0) \in BOOLEAN
      OBVIOUS
    <3>2. "done" \in FINISHED /\ "ordered" \in OPEN_STATUSES
      BY DEF FINISHED, OPEN_STATUSES
    <3> QED BY <2>3, <2>4, <2>6, <2>7, <3>1, <3>2 DEF OrderRows
  <2>9. "done" \notin OPEN_STATUSES /\ "ordered" \in OPEN_STATUSES /\ Never \notin Nat
    BY DEF OPEN_STATUSES, Never
  <2>10. DaysLate(o) > 0 <=> (y.needed # Never /\ today > y.needed)
    BY <1>3, <2>1, <2>4
  <2>11. OrderHolds(x)
    BY <2>6, <2>7, <2>8, <2>9, <2>10 DEF OrderHolds
  <2> QED BY <1>2, <2>5, <2>11, OrdersStay
<1> QED BY <1>1, <1>4, <1>5

LEMMA AskStepsKeepAsks ==
  ASSUME AsksHold, today \in Nat, today' = today,
         Ask \/ \E a \in DOMAIN asks : Cancel(a) \/ \E qty \in 0..2 : Release(a, qty)
  PROVE  AsksHold'
<1>1. CASE Ask
  <2>1. PICK x : x = [status |-> "requested", at |-> today, asked |-> 2, issued |-> 0]
    OBVIOUS
  <2>2. AskHolds(x)
    BY <2>1 DEF AskHolds, AskRows
  <2> QED BY <1>1, <2>1, <2>2, AsksStay DEF Ask
<1>2. ASSUME NEW a \in DOMAIN asks PROVE a \in 1..Len(asks) /\ AskHolds(asks[a]) /\ asks[a] \in AskRows
  BY <1>2 DEF AsksHold, AskHolds
<1>3. ASSUME NEW a \in DOMAIN asks, Cancel(a) PROVE AsksHold'
  <2>1. PICK x : x = [asks[a] EXCEPT !.status = "cancelled"]
    OBVIOUS
  <2>2. AskHolds(x)
    BY <1>2, <2>1 DEF AskHolds, AskRows
  <2>3. asks' = [asks EXCEPT ![a] = x]
    BY <1>3, <2>1 DEF Cancel
  <2> QED BY <1>2, <2>2, <2>3, AsksStay
<1>4. ASSUME NEW a \in DOMAIN asks, NEW qty \in 0..2, Release(a, qty) PROVE AsksHold'
  <2>1. PICK x : x = [asks[a] EXCEPT !.status = "released", !.issued = qty]
    OBVIOUS
  <2>2. AskHolds(x)
    BY <1>2, <2>1 DEF AskHolds, AskRows
  <2>3. asks' = [asks EXCEPT ![a] = x]
    BY <1>4, <2>1 DEF Release
  <2> QED BY <1>2, <2>2, <2>3, AsksStay
<1> QED BY <1>1, <1>3, <1>4

LEMMA ReturnStepsKeepReturns ==
  ASSUME ReturnsHold, today \in Nat, today' = today,
         \/ \E s \in Suppliers, c \in Reasons, lines \in 1..2 : RaiseReturn(s, c, lines)
         \/ \E r \in DOMAIN returns :
               \/ \E d \in [DOMAIN returns[r].decision -> {"vendor", "waste"}] : DecideReturn(r, d)
               \/ BinReturn(r) \/ SendReturn(r)
               \/ \E o \in {"credit", "replacement", "written_off"}, v \in {1, 3} : SettleReturn(r, o, v)
  PROVE  ReturnsHold'
<1>1. ASSUME NEW s \in Suppliers, NEW c \in Reasons, NEW lines \in 1..2, RaiseReturn(s, c, lines)
      PROVE  ReturnsHold'
  <2>1. PICK x : x = [status |-> "raised", supplier |-> s, reason |-> c, raised |-> today,
                      decision |-> [l \in 1..lines |-> "none"], binned |-> FALSE,
                      outcome |-> "none", credit |-> 0]
    OBVIOUS
  <2>2. [l \in 1..lines |-> "none"] \in Decisions
    BY DEF Decisions
  <2>3. ReturnHolds(x)
    BY <2>1, <2>2 DEF ReturnHolds, ReturnRows
  <2> QED BY <1>1, <2>1, <2>3, ReturnsStay DEF RaiseReturn
<1>2. ASSUME NEW r \in DOMAIN returns
      PROVE  r \in 1..Len(returns) /\ ReturnHolds(returns[r]) /\ returns[r] \in ReturnRows
  BY <1>2 DEF ReturnsHold, ReturnHolds
<1>3. ASSUME NEW r \in DOMAIN returns, NEW d \in [DOMAIN returns[r].decision -> {"vendor", "waste"}],
             DecideReturn(r, d)
      PROVE  ReturnsHold'
  <2>1. PICK x : x = [returns[r] EXCEPT !.status = "approved", !.decision = d]
    OBVIOUS
  <2>2. d \in Decisions
    <3>1. returns[r].decision \in Decisions
      BY <1>2 DEF ReturnRows
    <3>2. PICK n \in 1..2 : returns[r].decision \in [1..n -> {"none", "vendor", "waste"}]
      BY <3>1 DEF Decisions
    <3>3. d \in [1..n -> {"none", "vendor", "waste"}]
      BY <3>2
    <3> QED BY <3>3 DEF Decisions
  <2>3. returns[r].status # "settled"
    BY <1>3 DEF DecideReturn
  <2>4. ReturnHolds(x)
    BY <1>2, <2>1, <2>2, <2>3 DEF ReturnHolds, ReturnRows
  <2>5. returns' = [returns EXCEPT ![r] = x]
    BY <1>3, <2>1 DEF DecideReturn
  <2> QED BY <1>2, <2>4, <2>5, ReturnsStay
<1>4. ASSUME NEW r \in DOMAIN returns, BinReturn(r) PROVE ReturnsHold'
  <2>1. PICK x : x = [returns[r] EXCEPT !.binned = TRUE,
                          !.status = IF Marked(r, "vendor") = {} THEN "settled" ELSE @,
                          !.outcome = IF Marked(r, "vendor") = {} THEN "written_off" ELSE @]
    OBVIOUS
  <2>2. ReturnHolds(x)
    BY <1>2, <2>1 DEF ReturnHolds, ReturnRows
  <2>3. returns' = [returns EXCEPT ![r] = x]
    BY <1>4, <2>1 DEF BinReturn
  <2> QED BY <1>2, <2>2, <2>3, ReturnsStay
<1>5. ASSUME NEW r \in DOMAIN returns, SendReturn(r) PROVE ReturnsHold'
  <2>1. PICK x : x = [returns[r] EXCEPT !.status = "sent"]
    OBVIOUS
  <2>2. ReturnHolds(x)
    BY <1>2, <1>5, <2>1 DEF ReturnHolds, ReturnRows, SendReturn
  <2>3. returns' = [returns EXCEPT ![r] = x]
    BY <1>5, <2>1 DEF SendReturn
  <2> QED BY <1>2, <2>2, <2>3, ReturnsStay
<1>6. ASSUME NEW r \in DOMAIN returns, NEW o \in {"credit", "replacement", "written_off"}, NEW v \in {1, 3},
             SettleReturn(r, o, v)
      PROVE  ReturnsHold'
  <2>1. PICK x : x = [returns[r] EXCEPT !.status = "settled", !.outcome = o, !.credit = v]
    OBVIOUS
  <2>2. ReturnHolds(x)
    <3>1. PICK y : y = returns[r]
      OBVIOUS
    <3>2. y \in ReturnRows /\ y.raised <= today
      BY <1>2, <3>1 DEF ReturnHolds
    <3>3. o # "none" /\ o \in {"none", "credit", "replacement", "written_off"} /\ v \in Nat
      OBVIOUS
    <3>4. x \in ReturnRows /\ x.raised = y.raised /\ x.status = "settled" /\ x.outcome = o
      BY <2>1, <3>1, <3>2, <3>3 DEF ReturnRows
    <3> QED BY <3>2, <3>3, <3>4 DEF ReturnHolds
  <2>3. returns' = [returns EXCEPT ![r] = x]
    BY <1>6, <2>1 DEF SettleReturn
  <2> QED BY <1>2, <2>2, <2>3, ReturnsStay
<1> QED BY <1>1, <1>3, <1>4, <1>5, <1>6

LEMMA DaysPass ==
  ASSUME TradeInvariant, today' \in Nat, today <= today',
         UNCHANGED <<prices, deliveries, orders, asks, returns>>
  PROVE  TradeInvariant'
<1>1. today \in Nat
  BY DEF TradeInvariant, PricesHold
<1>2. PricesHold'
  BY PassingDaysKeepPrices DEF TradeInvariant
<1>3. ASSUME NEW o, OrderHolds(o) PROVE OrderHolds(o)'
  <2>1. o.raised \in Nat /\ o.raised <= today'
    BY <1>1, <1>3 DEF OrderHolds, OrderRows
  <2> QED BY <1>3, <2>1 DEF OrderHolds
<1>4. ASSUME NEW a, AskHolds(a) PROVE AskHolds(a)'
  <2>1. a.at \in Nat /\ a.at <= today'
    BY <1>1, <1>4 DEF AskHolds, AskRows
  <2> QED BY <1>4, <2>1 DEF AskHolds
<1>5. ASSUME NEW r, ReturnHolds(r) PROVE ReturnHolds(r)'
  <2>1. r.raised \in Nat /\ r.raised <= today'
    BY <1>1, <1>5 DEF ReturnHolds, ReturnRows
  <2> QED BY <1>5, <2>1 DEF ReturnHolds
<1>6. OrdersHold'
  <2>1. \A o \in 1..Len(orders) : OrderHolds(orders[o])'
    <3> SUFFICES ASSUME NEW o \in 1..Len(orders) PROVE OrderHolds(orders[o])'
      OBVIOUS
    <3>1. PICK y : y = orders[o]
      OBVIOUS
    <3>2. OrderHolds(y)'
      BY <1>3, <3>1 DEF TradeInvariant, OrdersHold
    <3> QED BY <3>1, <3>2
  <2> QED BY <2>1 DEF TradeInvariant, OrdersHold
<1>7. AsksHold'
  <2>1. \A a \in 1..Len(asks) : AskHolds(asks[a])'
    <3> SUFFICES ASSUME NEW a \in 1..Len(asks) PROVE AskHolds(asks[a])'
      OBVIOUS
    <3>1. PICK y : y = asks[a]
      OBVIOUS
    <3>2. AskHolds(y)'
      BY <1>4, <3>1 DEF TradeInvariant, AsksHold
    <3> QED BY <3>1, <3>2
  <2> QED BY <2>1 DEF TradeInvariant, AsksHold
<1>8. ReturnsHold'
  <2>1. \A r \in 1..Len(returns) : ReturnHolds(returns[r])'
    <3> SUFFICES ASSUME NEW r \in 1..Len(returns) PROVE ReturnHolds(returns[r])'
      OBVIOUS
    <3>1. PICK y : y = returns[r]
      OBVIOUS
    <3>2. ReturnHolds(y)'
      BY <1>5, <3>1 DEF TradeInvariant, ReturnsHold
    <3> QED BY <3>1, <3>2
  <2> QED BY <2>1 DEF TradeInvariant, ReturnsHold
<1> QED BY <1>2, <1>6, <1>7, <1>8 DEF TradeInvariant

LEMMA TradeStays ==
    /\ TradeInit => TradeInvariant
    /\ TradeInvariant /\ [TradeNext]_tradeVars => TradeInvariant'
<1>1. ASSUME TradeInit PROVE TradeInvariant
  <2>1. prices = <<>> /\ deliveries = <<>> /\ orders = <<>> /\ asks = <<>> /\ returns = <<>> /\ today = 0
    BY <1>1 DEF TradeInit
  <2> QED BY <2>1 DEF TradeInvariant, PricesHold, OrdersHold, AsksHold, ReturnsHold
<1>2. ASSUME TradeInvariant, [TradeNext]_tradeVars PROVE TradeInvariant'
  <2>1. today \in Nat /\ PricesHold /\ OrdersHold /\ AsksHold /\ ReturnsHold
    BY <1>2 DEF TradeInvariant, PricesHold
  <2>2. CASE UNCHANGED tradeVars
    BY <1>2, <2>1, <2>2, DaysPass DEF tradeVars
  <2>3. CASE NextDay
    BY <1>2, <2>1, <2>3, DaysPass DEF NextDay
  <2>4. ASSUME today' = today, UNCHANGED <<orders, asks, returns>>, PricesHold' PROVE TradeInvariant'
    <3>1. OrdersHold'
      BY <2>1, <2>4 DEF OrdersHold, OrderHolds
    <3>2. AsksHold'
      BY <2>1, <2>4 DEF AsksHold, AskHolds
    <3>3. ReturnsHold'
      BY <2>1, <2>4 DEF ReturnsHold, ReturnHolds
    <3> QED BY <2>4, <3>1, <3>2, <3>3 DEF TradeInvariant
  <2>5. ASSUME today' = today, UNCHANGED <<prices, deliveries>> PROVE PricesHold'
    BY <2>1, <2>5, PassingDaysKeepPrices
  <2>6. ASSUME NEW price \in Amounts, Others("price"), UNCHANGED <<orders, asks, returns>>,
               DeliverAt(price) \/ \E from \in 0..LastDay : AgreePrice(price, from)
        PROVE  TradeInvariant'
    <3>1. PricesHold'
      BY <2>1, <2>6, DeliveringKeepsPrices, AgreeingKeepsPrices DEF Others
    <3> QED BY <2>4, <2>6, <3>1 DEF Others
  <2>7. ASSUME Others("order"), UNCHANGED <<prices, deliveries, asks, returns>>,
         \/ \E s \in Suppliers \cup {Nobody}, needed \in today..LastDay \cup {Never} : RaiseOrder(s, needed)
         \/ \E o \in DOMAIN orders :
               \/ \E d \in {"approved", "ordered", "rejected", "done"}, s \in Suppliers \cup {Nobody} :
                     DecideOrder(o, d, s)
               \/ \E qty \in 1..2 : ReceiveOrder(o, qty)
        PROVE  TradeInvariant'
    <3>1. today' = today
      BY <2>7 DEF Others
    <3>2. OrdersHold'
      BY <2>1, <2>7, <3>1, OrderStepsKeepOrders
    <3>3. AsksHold'
      BY <2>1, <2>7, <3>1 DEF AsksHold, AskHolds
    <3>4. ReturnsHold'
      BY <2>1, <2>7, <3>1 DEF ReturnsHold, ReturnHolds
    <3> QED BY <2>5, <2>7, <3>1, <3>2, <3>3, <3>4 DEF TradeInvariant
  <2>8. ASSUME Others("ask"), UNCHANGED <<prices, deliveries, orders, returns>>,
               Ask \/ \E a \in DOMAIN asks : Cancel(a) \/ \E qty \in 0..2 : Release(a, qty)
        PROVE  TradeInvariant'
    <3>1. today' = today
      BY <2>8 DEF Others
    <3>2. AsksHold'
      BY <2>1, <2>8, <3>1, AskStepsKeepAsks
    <3>3. OrdersHold'
      BY <2>1, <2>8, <3>1 DEF OrdersHold, OrderHolds
    <3>4. ReturnsHold'
      BY <2>1, <2>8, <3>1 DEF ReturnsHold, ReturnHolds
    <3> QED BY <2>5, <2>8, <3>1, <3>2, <3>3, <3>4 DEF TradeInvariant
  <2>9. ASSUME Others("return"), UNCHANGED <<prices, deliveries, orders, asks>>,
         \/ \E s \in Suppliers, c \in Reasons, lines \in 1..2 : RaiseReturn(s, c, lines)
         \/ \E r \in DOMAIN returns :
               \/ \E d \in [DOMAIN returns[r].decision -> {"vendor", "waste"}] : DecideReturn(r, d)
               \/ BinReturn(r) \/ SendReturn(r)
               \/ \E o \in {"credit", "replacement", "written_off"}, v \in {1, 3} : SettleReturn(r, o, v)
        PROVE  TradeInvariant'
    <3>1. today' = today
      BY <2>9 DEF Others
    <3>2. ReturnsHold'
      BY <2>1, <2>9, <3>1, ReturnStepsKeepReturns
    <3>3. OrdersHold'
      BY <2>1, <2>9, <3>1 DEF OrdersHold, OrderHolds
    <3>4. AsksHold'
      BY <2>1, <2>9, <3>1 DEF AsksHold, AskHolds
    <3> QED BY <2>5, <2>9, <3>1, <3>2, <3>3, <3>4 DEF TradeInvariant
  <2> QED BY <1>2, <2>2, <2>3, <2>6, <2>7, <2>8, <2>9 DEF TradeNext
<1> QED BY <1>1, <1>2

\* JumpsAreReported, for any prices, percentages and days: a jump the store was warned
\* of is in the price movement report of its day between the same two figures, and a
\* movement listed past the warning mark was warned of, unless the office entered an
\* agreed price with a date beyond the delivery's.
THEOREM JumpsReachTheReport == TradeInit /\ [][TradeNext]_tradeVars => []JumpsAreReported
<1>1. TradeInit => TradeInvariant
  BY TradeStays
<1>2. TradeInvariant /\ [TradeNext]_tradeVars => TradeInvariant'
  BY TradeStays
<1>3. TradeInvariant => JumpsAreReported
  BY PricesAreReported DEF TradeInvariant
<1> QED BY <1>1, <1>2, <1>3, PTL

-----------------------------------------------------------------------------
(* The money of the returns. *)

LEMMA ReturnsCount ==
  ASSUME ReturnsHold
  PROVE  /\ IsFiniteSet(Counted) /\ OpenReturns \subseteq Counted
         /\ \A r \in Counted : /\ returns[r].supplier \in Suppliers /\ returns[r].reason \in Reasons
                               /\ returns[r].credit \in Int
                               /\ Asked(r) \in Int /\ ExpectedCredit(r) \in Int
<1>1. DOMAIN returns = 1..Len(returns) /\ Len(returns) \in Nat
  BY DEF ReturnsHold
<1>2. Counted \subseteq 1..Len(returns) /\ IsFiniteSet(1..Len(returns))
  BY <1>1, FS_Interval DEF Counted
<1>3. OpenReturns \subseteq Counted
  BY DEF OpenReturns, Counted
<1>4. ASSUME NEW r \in Counted
      PROVE  /\ returns[r].supplier \in Suppliers /\ returns[r].reason \in Reasons
             /\ returns[r].credit \in Int /\ Asked(r) \in Int /\ ExpectedCredit(r) \in Int
  <2>1. returns[r] \in ReturnRows
    BY <1>2 DEF ReturnsHold, ReturnHolds
  <2>2. returns[r].supplier \in Suppliers /\ returns[r].reason \in Reasons /\ returns[r].credit \in Int
        /\ returns[r].decision \in Decisions
    BY <2>1 DEF ReturnRows
  <2>3. PICK d : d = returns[r].decision
    OBVIOUS
  <2>4. PICK n \in 1..2 : d \in [1..n -> {"none", "vendor", "waste"}]
    BY <2>2, <2>3 DEF Decisions
  <2>5. Len(d) = n /\ DOMAIN d = 1..n
    <3>1. d \in Seq({"none", "vendor", "waste"})
      BY <2>4
    <3> QED BY <2>4, <3>1
  <2>6. IsFiniteSet(1..n)
    BY FS_Interval
  <2>7. IsFiniteSet(DOMAIN d \ Marked(r, "waste"))
    BY <2>5, <2>6, FS_Subset
  <2>8. Cardinality(DOMAIN d \ Marked(r, "waste")) \in Nat
    BY <2>7, FS_CardinalityType
  <2> QED BY <2>2, <2>3, <2>5, <2>8 DEF Asked, ExpectedCredit, LineCredit
<1> QED BY <1>2, <1>3, <1>4, FS_Subset

Credited(r) == returns[r].status = "settled" /\ returns[r].outcome = "credit"
CreditOf(r) == IF Credited(r) THEN returns[r].credit ELSE 0
NetOf(r)    == Asked(r) - CreditOf(r)

LEMMA CreditsOfPart ==
  ASSUME ReturnsHold, NEW R \in SUBSET Counted
  PROVE  /\ Credits(R) = SumFunction([r \in R |-> CreditOf(r)])
         /\ ReturnedValue(R) = SumFunction([r \in R |-> Asked(r)])
         /\ ReturnedValue(R) - Credits(R) = SumFunction([r \in R |-> NetOf(r)])
         /\ Credits(R) \in Int /\ ReturnedValue(R) \in Int
<1>1. PICK credit : credit = [r \in R |-> returns[r].credit]
  OBVIOUS
<1>2. PICK A : A = {r \in R : Credited(r)}
  OBVIOUS
<1>3. IsFiniteSet(R) /\ credit \in [R -> Int] /\ A \in SUBSET R
  BY <1>1, <1>2, ReturnsCount, FS_Subset
<1>4. SumFunction([r \in A |-> credit[r]]) = SumFunction([r \in R |-> IF r \in A THEN credit[r] ELSE 0])
  BY <1>3, SumFilter
<1>5. [r \in R |-> IF r \in A THEN credit[r] ELSE 0] = [r \in R |-> CreditOf(r)]
  BY <1>1, <1>2 DEF CreditOf
<1>6. [r \in A |-> credit[r]] = [r \in A |-> returns[r].credit]
  BY <1>1, <1>2
<1>7. Credits(R) = SumFunction([r \in A |-> returns[r].credit])
  BY <1>2 DEF Credits, Sum, Credited
<1>8. ReturnedValue(R) = SumFunction([r \in R |-> Asked(r)])
  BY DEF ReturnedValue, Sum
<1>9. PICK f : f = [r \in R |-> Asked(r)]
  OBVIOUS
<1>10. PICK g : g = [r \in R |-> CreditOf(r)]
  OBVIOUS
<1>11. PICK h : h = [r \in R |-> NetOf(r)]
  OBVIOUS
<1>12. \A r \in R : Asked(r) \in Int /\ CreditOf(r) \in Int
  BY ReturnsCount DEF CreditOf
<1>13. f \in [R -> Int] /\ g \in [R -> Int] /\ h \in [R -> Int]
  BY <1>9, <1>10, <1>11, <1>12 DEF NetOf
<1>14. f = [r \in R |-> h[r] + g[r]]
  BY <1>9, <1>10, <1>11, <1>12 DEF NetOf
<1>15. SumFunction(f) = SumFunction(h) + SumFunction(g)
  BY ONLY <1>3, <1>13, <1>14, SumPlus
<1>16. SumFunction(f) \in Int /\ SumFunction(g) \in Int /\ SumFunction(h) \in Int
  BY ONLY <1>3, <1>13, SumType
<1> QED BY <1>4, <1>5, <1>6, <1>7, <1>8, <1>9, <1>10, <1>11, <1>15, <1>16

\* Sorted by whatever, the nets of the classes add up to the net of all.
LEMMA NetByClass ==
  ASSUME ReturnsHold, NEW K, IsFiniteSet(K), NEW key \in [Counted -> K], NEW part,
         part = [k \in K |-> ReturnedValue({r \in Counted : key[r] = k}) - Credits({r \in Counted : key[r] = k})]
  PROVE  SumFunction(part) = SumFunction([r \in Counted |-> NetOf(r)])
<1>1. PICK h : h = [r \in Counted |-> NetOf(r)]
  OBVIOUS
<1>2. \A r \in Counted : NetOf(r) \in Int
  BY ReturnsCount DEF NetOf, CreditOf
<1>3. h \in [Counted -> Int] /\ IsFiniteSet(Counted)
  BY <1>1, <1>2, ReturnsCount
<1>4. \A k \in K : part[k] = SumFunction([x \in {y \in Counted : key[y] = k} |-> h[x]])
  <2> SUFFICES ASSUME NEW k \in K
               PROVE  part[k] = SumFunction([x \in {y \in Counted : key[y] = k} |-> h[x]])
    OBVIOUS
  <2>1. PICK R : R = {y \in Counted : key[y] = k}
    OBVIOUS
  <2>2. R \in SUBSET Counted
    BY <2>1
  <2>3. ReturnedValue(R) - Credits(R) = SumFunction([r \in R |-> NetOf(r)])
    BY <2>2, CreditsOfPart
  <2>4. [r \in R |-> NetOf(r)] = [x \in R |-> h[x]]
    BY <1>1, <2>2
  <2> QED BY <2>1, <2>3, <2>4
<1>5. part = [k \in K |-> SumFunction([x \in {y \in Counted : key[y] = k} |-> h[x]])]
  BY <1>4
<1>6. SumFunction(part) = SumFunction(h)
  BY ONLY <1>3, <1>5, IsFiniteSet(K), key \in [Counted -> K], SumPartition
<1> QED BY <1>1, <1>6

LEMMA MoneyIsKept ==
  ASSUME ReturnsHold
  PROVE  MoneyAddsUp
<1>1. PICK settled : settled = Counted \ OpenReturns
  OBVIOUS
<1>2. Sum(LAMBDA s : ReturnedValue(BySupplier(s)) - Credits(BySupplier(s)), Suppliers)
        = SumFunction([r \in Counted |-> NetOf(r)])
  <2>1. PICK key : key = [r \in Counted |-> returns[r].supplier]
    OBVIOUS
  <2>2. key \in [Counted -> Suppliers]
    BY <2>1, ReturnsCount
  <2>3. \A s \in Suppliers : BySupplier(s) = {r \in Counted : key[r] = s}
    BY <2>1 DEF BySupplier
  <2>4. PICK part : part = [k \in Suppliers |-> ReturnedValue({r \in Counted : key[r] = k})
                                                - Credits({r \in Counted : key[r] = k})]
    OBVIOUS
  <2>5. SumFunction(part) = SumFunction([r \in Counted |-> NetOf(r)])
    BY <2>2, <2>4, NetByClass, TradeReportsAssumption
  <2>6. part = [s \in Suppliers |-> ReturnedValue(BySupplier(s)) - Credits(BySupplier(s))]
    BY <2>3, <2>4
  <2> QED BY <2>5, <2>6 DEF Sum
<1>3. returnsOutstanding = SumFunction([r \in Counted |-> NetOf(r)])
  <2>1. PICK key : key = [r \in Counted |-> returns[r].reason]
    OBVIOUS
  <2>2. key \in [Counted -> Reasons]
    BY <2>1, ReturnsCount
  <2>3. \A c \in Reasons : ByReason(c) = {r \in Counted : key[r] = c}
    BY <2>1 DEF ByReason
  <2>4. PICK part : part = [k \in Reasons |-> ReturnedValue({r \in Counted : key[r] = k})
                                                - Credits({r \in Counted : key[r] = k})]
    OBVIOUS
  <2>5. SumFunction(part) = SumFunction([r \in Counted |-> NetOf(r)])
    BY <2>2, <2>4, NetByClass, TradeReportsAssumption
  <2>6. part = [c \in Reasons |-> ReturnedValue(ByReason(c)) - Credits(ByReason(c))]
    BY <2>3, <2>4
  <2> QED BY <2>5, <2>6 DEF Sum, returnsOutstanding
<1>4. Credits(Counted) = Credits(settled)
  <2>1. {r \in Counted : Credited(r)} = {r \in settled : Credited(r)}
    BY <1>1 DEF Credited, OpenReturns
  <2> QED BY <2>1 DEF Credits, Credited
<1>5. PICK f : f = [r \in Counted |-> Asked(r)]
  OBVIOUS
<1>6. PICK e : e = [r \in Counted |-> ExpectedCredit(r)]
  OBVIOUS
<1>7. PICK w : w = [r \in Counted |-> Asked(r) - ExpectedCredit(r)]
  OBVIOUS
<1>8. f \in [Counted -> Int] /\ e \in [Counted -> Int] /\ w \in [Counted -> Int] /\ IsFiniteSet(Counted)
  BY <1>5, <1>6, <1>7, ReturnsCount
<1>9. f = [r \in Counted |-> e[r] + w[r]]
  BY <1>5, <1>6, <1>7, ReturnsCount
<1>10. SumFunction(f) = SumFunction(e) + SumFunction(w)
  BY ONLY <1>8, <1>9, SumPlus
<1>11. PICK A : A = OpenReturns
  OBVIOUS
<1>12. A \in SUBSET Counted
  BY <1>11, ReturnsCount
<1>13. SumFunction(e) = SumFunction([x \in A |-> e[x]]) + SumFunction([x \in Counted \ A |-> e[x]])
  <2>1. e \in [Counted -> Int] /\ IsFiniteSet(Counted)
    BY <1>8
  <2> QED BY ONLY <2>1, <1>12, SumSplit
<1>14. [x \in A |-> e[x]] = [r \in OpenReturns |-> ExpectedCredit(r)]
       /\ [x \in Counted \ A |-> e[x]] = [r \in settled |-> ExpectedCredit(r)]
  <2>1. [x \in A |-> e[x]] = [r \in OpenReturns |-> ExpectedCredit(r)]
    BY <1>6, <1>11, <1>12
  <2>2. [x \in Counted \ A |-> e[x]] = [r \in settled |-> ExpectedCredit(r)]
    BY <1>1, <1>6, <1>11
  <2> QED BY <2>1, <2>2
<1>15. SumFunction(e) = Sum(ExpectedCredit, OpenReturns) + Sum(ExpectedCredit, settled)
  BY <1>13, <1>14 DEF Sum
<1>16. SumFunction([r \in Counted |-> NetOf(r)]) = SumFunction(f) - Credits(Counted)
       /\ Credits(Counted) \in Int
  BY <1>5, CreditsOfPart
<1>17. SumFunction(e) \in Int /\ SumFunction(w) \in Int
  BY ONLY <1>8, SumType
<1>18. Sum(ExpectedCredit, OpenReturns) \in Int /\ Sum(ExpectedCredit, settled) \in Int
  <2>1. IsFiniteSet(A) /\ IsFiniteSet(Counted \ A) /\ [x \in A |-> e[x]] \in [A -> Int]
        /\ [x \in Counted \ A |-> e[x]] \in [Counted \ A -> Int]
    BY <1>8, <1>12, FS_Subset
  <2>2. SumFunction([x \in A |-> e[x]]) \in Int /\ SumFunction([x \in Counted \ A |-> e[x]]) \in Int
    BY ONLY <2>1, SumType
  <2> QED BY <2>2, <1>14 DEF Sum
<1>19. SumFunction(w) = Sum(LAMBDA r : Asked(r) - ExpectedCredit(r), Counted)
  BY <1>7 DEF Sum
<1>20. returnsOutstanding = Sum(ExpectedCredit, OpenReturns)
               + (Sum(ExpectedCredit, settled) - Credits(settled))
               + Sum(LAMBDA r : Asked(r) - ExpectedCredit(r), Counted)
  <2>1. PICK all, due, met, gone, paid :
          /\ all = SumFunction(f) /\ due = Sum(ExpectedCredit, OpenReturns)
          /\ met = Sum(ExpectedCredit, settled) /\ gone = SumFunction(w) /\ paid = Credits(settled)
    OBVIOUS
  <2>2. due \in Int /\ met \in Int /\ gone \in Int /\ paid \in Int
    BY <2>1, <1>4, <1>16, <1>17, <1>18
  <2>3. all = (due + met) + gone
    BY <2>1, <1>10, <1>15
  <2>4. returnsOutstanding = all - paid
    BY <2>1, <1>3, <1>4, <1>16
  <2>5. returnsOutstanding = due + (met - paid) + gone
    BY ONLY <2>2, <2>3, <2>4
  <2> QED BY <2>1, <2>5, <1>19
<1> QED BY <1>1, <1>2, <1>3, <1>20 DEF MoneyAddsUp, Sum

\* Chase lists.
LEMMA NobodyIsForgotten ==
  ASSUME TradeInvariant
  PROVE  ChasedUntilFinished
<1>1. today \in Nat /\ Window \in Nat
  BY TradeReportsAssumption DEF TradeInvariant, PricesHold
<1>2. ASSUME NEW o \in DOMAIN orders, today - orders[o].raised <= Window
      PROVE  IF orders[o].closed = Never
             THEN o \in OpenPurchaseOrders /\ (OutstandingValue(o) > 0)
             ELSE /\ o \notin OpenPurchaseOrders
                  /\ \A s \in Suppliers : orders[o].supplier = s =>
                        (o \in LateOrders(s)) = orders[o].late
  <2>1. OrderHolds(orders[o])
    BY DEF TradeInvariant, OrdersHold
  <2>2. PICK y : y = orders[o]
    OBVIOUS
  <2>3. OrderHolds(y) /\ y \in OrderRows /\ y.raised \in Nat /\ y.raised <= today
        /\ y.asked = 2 /\ y.received \in Nat /\ y.late \in BOOLEAN
    BY <2>1, <2>2 DEF OrderHolds, OrderRows
  <2>4. y.raised \in InWindow
    BY <1>1, <1>2, <2>2, <2>3 DEF InWindow
  <2>5. CASE y.closed = Never
    <3>1. y.status \in OPEN_STATUSES /\ y.received < y.asked
      BY <2>3, <2>5 DEF OrderHolds
    <3>2. y.asked - y.received \in Int /\ y.asked - y.received > 0
      BY <2>3, <3>1
    <3>3. Max({0, y.asked - y.received}) > 0
      BY <3>2, LargerThanZero
    <3> QED BY <2>2, <2>4, <2>5, <3>1, <3>3 DEF OpenPurchaseOrders, OutstandingValue
  <2>6. CASE y.closed # Never
    <3>1. y.status \notin OPEN_STATUSES /\ (y.late <=> y.needed # Never /\ y.closed > y.needed)
      BY <2>3, <2>6 DEF OrderHolds
    <3>2. \A s \in Suppliers : y.supplier = s => (o \in LateOrders(s) <=> y.late)
      BY <2>2, <2>4, <2>6, <3>1 DEF LateOrders, Ordered
    <3>3. \A s \in Suppliers : y.supplier = s => (o \in LateOrders(s)) = y.late
      BY <2>3, <3>2
    <3> QED BY <2>2, <2>6, <3>1, <3>3 DEF OpenPurchaseOrders
  <2> QED BY <2>2, <2>5, <2>6
<1>3. ASSUME NEW r \in DOMAIN returns, today - returns[r].raised <= Window
      PROVE  (r \in OpenReturns) = (returns[r].outcome = "none")
  <2>1. ReturnHolds(returns[r])
    BY DEF TradeInvariant, ReturnsHold
  <2>2. PICK y : y = returns[r]
    OBVIOUS
  <2>3. y.raised \in Nat /\ y.raised <= today /\ (y.outcome = "none" <=> y.status # "settled")
        /\ y.status \in {"raised", "approved", "sent", "settled"}
    BY <2>1, <2>2 DEF ReturnHolds, ReturnRows
  <2>4. y.raised \in InWindow
    BY <1>1, <1>3, <2>2, <2>3 DEF InWindow
  <2> QED BY <2>2, <2>3, <2>4 DEF OpenReturns
<1>4. ASSUME NEW a \in DOMAIN asks, today - asks[a].at <= Window, asks[a].status # "cancelled"
      PROVE  /\ (a \in StillWaiting) = (asks[a].status = "requested")
             /\ (a \in LinesInFull) # (a \in LinesShort)
             /\ a \in StillWaiting => a \in LinesShort
  <2>1. AskHolds(asks[a])
    BY DEF TradeInvariant, AsksHold
  <2>2. PICK y : y = asks[a]
    OBVIOUS
  <2>3. y.at \in Nat /\ y.at <= today /\ y.asked = 2 /\ y.issued \in 0..2
        /\ (y.status = "requested" => y.issued = 0)
    BY <2>1, <2>2 DEF AskHolds, AskRows
  <2>4. y.at \in InWindow
    BY <1>1, <1>4, <2>2, <2>3 DEF InWindow
  <2>5. a \in Served
    BY <1>4, <2>2, <2>4 DEF Served
  <2> QED BY <2>2, <2>3, <2>5 DEF StillWaiting, LinesInFull, LinesShort
<1> QED BY <1>2, <1>3, <1>4 DEF ChasedUntilFinished

\* TradeAddsUp, for any suppliers, reasons, days and window: the money of the returns
\* adds up alike by supplier and by reason, and the chase lists lose nothing younger
\* than the window.
THEOREM TradeIsAccountedFor == TradeInit /\ [][TradeNext]_tradeVars => []TradeAddsUp
<1>1. TradeInit => TradeInvariant
  BY TradeStays
<1>2. TradeInvariant /\ [TradeNext]_tradeVars => TradeInvariant'
  BY TradeStays
<1>3. TradeInvariant => TradeAddsUp
  BY MoneyIsKept, NobodyIsForgotten DEF TradeInvariant, TradeAddsUp
<1> QED BY <1>1, <1>2, <1>3, PTL

-----------------------------------------------------------------------------
(* The reports about the stock. *)

\* What a line of the ledger, a count and a slip are, and what a line says of its document.
LineRows == [day : Nat, section : Places, qty : Int, doc : AnyDoc, id : Nat, reversal : BOOLEAN]
CountRows == [id : Nat, section : Rooms, day : Nat, expected : Int, counted : Nat \cup {NotCounted},
              stolen : Nat, fresh : Nat, closed : BOOLEAN]
WasteRows == [section : Rooms, at : Nat, id : Nat]
StockRows ==
    /\ now \in 1..LastTick
    /\ ledger \in Seq(LineRows) /\ wastes \in Seq(WasteRows) /\ counts \in Seq(CountRows)
    /\ shelf \in [Places -> Nat] /\ stolen \in [Rooms -> Nat]
    /\ fresh \in [Rooms -> Nat] /\ late \in [Rooms -> Nat]
    /\ disturbed \subseteq Places
SentOut(day) ==
    \E j \in DOMAIN ledger : /\ ledger[j].section = "store" /\ ledger[j].doc = "issue"
                             /\ ledger[j].day = day /\ ledger[j].qty < 0
FoundOff(x) ==
    \E c \in DOMAIN counts : /\ counts[c].id = x.id /\ counts[c].section = x.section
                             /\ counts[c].day = x.day /\ counts[c].closed
                             /\ counts[c].counted \notin {NotCounted, counts[c].expected}
LineHolds(x) ==
    /\ x \in LineRows /\ x.day <= Today
    /\ x.doc = "grn" => x.section = "store"
    /\ x.doc = "issue" => /\ x.section # "quarantine"
                          /\ x.section = "kitchen" => (x.qty > 0 <=> ~x.reversal)
                          /\ x.section = "kitchen" /\ ~x.reversal => SentOut(x.day)
    /\ x.doc = "return" => /\ ~x.reversal /\ x.section # "store"
                           /\ x.section = "kitchen" => x.qty < 0
    /\ x.doc = "wastage" => x.section # "quarantine" /\ (~x.reversal => x.qty = -1)
    /\ x.doc = "count" => /\ x.section # "quarantine" /\ x.qty # 0 /\ FoundOff(x)
                          /\ x.reversal => x.section \in disturbed
LinesHold == \A i \in DOMAIN ledger : LineHolds(ledger[i])

\* Documents do not share a number, and one that is not reversed has one line or two in a row;
\* a count has one.
CountIds == {counts[c].id : c \in DOMAIN counts}
Mine(id) == {i \in DOMAIN ledger : ledger[i].id = id}
DocumentsStand ==
    /\ \E k \in Nat : Docs \cup CountIds = 1..k
    /\ \A i, j \in DOMAIN ledger : ledger[i].id = ledger[j].id => ledger[i].doc = ledger[j].doc
    /\ \A i \in DOMAIN ledger, c \in DOMAIN counts : ledger[i].id = counts[c].id =>
          ledger[i].doc = "count" /\ counts[c].closed
    /\ \A id \in Docs : (\A i \in Mine(id) : ~ledger[i].reversal) =>
          \E f \in Mine(id) : Mine(id) = {f} \/ (Mine(id) = {f, f + 1} /\ ledger[f].doc # "count")
CountsStand ==
    /\ \A c, e \in DOMAIN counts : counts[c].id = counts[e].id => c = e
    /\ \A c, e \in DOMAIN counts : ~counts[c].closed /\ ~counts[e].closed => c = e
    /\ \A c \in DOMAIN counts : counts[c].day <= Today

\* What is missing from the shelf against the books, of a room whose books are straight.
CountHolds(n) ==
    /\ n.section \notin disturbed /\ n.counted # NotCounted => n.expected = n.counted + n.stolen + n.fresh
    /\ n.closed => n.counted # NotCounted
    /\ ~n.closed => /\ n.counted # NotCounted => n.stolen <= stolen[n.section]
                    /\ n.section \notin disturbed =>
                          IF n.counted = NotCounted THEN n.expected = Book(n.section)
                          ELSE n.fresh <= fresh[n.section]
CountsHold == \A c \in DOMAIN counts : CountHolds(counts[c])
ShelvesHold == \A s \in Rooms \ disturbed : Book(s) = shelf[s] + stolen[s] + fresh[s]
LossesHold == \A s \in Rooms \ disturbed, d \in Nat : Adjusted(s, d) + Found(s, d) + Written(s, d) = 0
Slips(s) == {w \in DOMAIN wastes : wastes[w].section = s}
Logged(s) == Total(In(s, Of("wastage", FALSE)))
SlipsHold ==
    /\ \A w \in DOMAIN wastes : wastes[w].at <= Calendar(now)
    /\ \A s \in Rooms : Cardinality(Slips(s)) + Logged(s) = 0
StockInvariant ==
    /\ StockRows /\ LinesHold /\ DocumentsStand /\ CountsStand
    /\ CountsHold /\ ShelvesHold /\ LossesHold /\ SlipsHold

LEMMA DaysAreOrdered ==
  ASSUME NEW t \in Nat \ {0}
  PROVE  /\ Calendar(t) \in Nat /\ BusinessDay(t) \in Nat /\ BusinessDay(t) <= Calendar(t)
         /\ \A u \in Nat \ {0} : t <= u => Calendar(t) <= Calendar(u) /\ BusinessDay(t) <= BusinessDay(u)
BY DEF Calendar, BusinessDay

LEMMA Bounds ==
  ASSUME StockRows
  PROVE  /\ now \in Nat \ {0} /\ Today \in Nat /\ Today <= Calendar(now) /\ Calendar(now) \in Nat
         /\ Calendar(LastTick) \in Nat /\ Calendar(now) <= Calendar(LastTick)
<1>1. now \in Nat \ {0} /\ LastTick \in Nat \ {0} /\ now <= LastTick
  BY StockReportsAssumption DEF StockRows
<1> QED BY <1>1, DaysAreOrdered DEF Today

LEMMA LinesAreLines ==
  ASSUME StockRows
  PROVE  /\ DOMAIN ledger = 1..Len(ledger) /\ Len(ledger) \in Nat /\ IsFiniteSet(DOMAIN ledger)
         /\ \A i \in DOMAIN ledger : /\ ledger[i] \in LineRows /\ ledger[i].day \in Nat
                                     /\ ledger[i].section \in Places /\ ledger[i].qty \in Int
                                     /\ ledger[i].doc \in AnyDoc /\ ledger[i].id \in Nat
                                     /\ ledger[i].reversal \in BOOLEAN
<1>1. ledger \in Seq(LineRows)
  BY DEF StockRows
<1>2. DOMAIN ledger = 1..Len(ledger) /\ Len(ledger) \in Nat
  BY <1>1
<1>3. IsFiniteSet(DOMAIN ledger)
  BY <1>2, FS_Interval
<1>4. \A i \in DOMAIN ledger : ledger[i] \in LineRows
  BY <1>1
<1>5. \A x \in LineRows : /\ x.day \in Nat /\ x.section \in Places /\ x.qty \in Int
                          /\ x.doc \in AnyDoc /\ x.id \in Nat /\ x.reversal \in BOOLEAN
  BY DEF LineRows
<1> QED BY <1>2, <1>3, <1>4, <1>5

LEMMA CountsAreCounts ==
  ASSUME StockRows
  PROVE  /\ DOMAIN counts = 1..Len(counts) /\ Len(counts) \in Nat /\ IsFiniteSet(DOMAIN counts)
         /\ \A c \in DOMAIN counts : /\ counts[c] \in CountRows /\ counts[c].id \in Nat
                                     /\ counts[c].section \in Rooms /\ counts[c].day \in Nat
                                     /\ counts[c].expected \in Int
                                     /\ counts[c].counted \in Nat \cup {NotCounted}
                                     /\ counts[c].stolen \in Nat /\ counts[c].fresh \in Nat
                                     /\ counts[c].closed \in BOOLEAN
<1>1. counts \in Seq(CountRows)
  BY DEF StockRows
<1>2. DOMAIN counts = 1..Len(counts) /\ Len(counts) \in Nat
  BY <1>1
<1>3. IsFiniteSet(DOMAIN counts)
  BY <1>2, FS_Interval
<1>4. \A c \in DOMAIN counts : counts[c] \in CountRows
  BY <1>1
<1>5. \A n \in CountRows : /\ n.id \in Nat /\ n.section \in Rooms /\ n.day \in Nat /\ n.expected \in Int
                           /\ n.counted \in Nat \cup {NotCounted} /\ n.stolen \in Nat /\ n.fresh \in Nat
                           /\ n.closed \in BOOLEAN
  BY DEF CountRows
<1> QED BY <1>2, <1>3, <1>4, <1>5

\* What a set of lines comes to.
LEMMA TotalsAdd ==
  ASSUME StockRows, NEW I \in SUBSET DOMAIN ledger
  PROVE  /\ Total(I) \in Int /\ (I = {} => Total(I) = 0) /\ IsFiniteSet(I)
         /\ \A A \in SUBSET I : Total(I) = Total(A) + Total(I \ A)
<1>1. PICK f : f = [i \in I |-> ledger[i].qty]
  OBVIOUS
<1>2. f \in [I -> Int]
  BY <1>1, LinesAreLines
<1>3. IsFiniteSet(I)
  BY LinesAreLines, FS_Subset
<1>4. Total(I) = SumFunction(f)
  BY <1>1 DEF Total
<1>5. SumFunction(f) \in Int
  BY ONLY <1>2, <1>3, SumType
<1>6. ASSUME NEW A \in SUBSET I PROVE Total(I) = Total(A) + Total(I \ A)
  <2>1. SumFunction(f) = SumFunction([x \in A |-> f[x]]) + SumFunction([x \in I \ A |-> f[x]])
    BY ONLY <1>2, <1>3, <1>6, SumSplit
  <2>2. [x \in A |-> f[x]] = [i \in A |-> ledger[i].qty]
    BY <1>1
  <2>3. [x \in I \ A |-> f[x]] = [i \in I \ A |-> ledger[i].qty]
    BY <1>1
  <2> QED BY <1>4, <2>1, <2>2, <2>3 DEF Total
<1>7. I = {} => Total(I) = 0
  BY <1>2, <1>4, SumEmpty
<1> QED BY <1>3, <1>4, <1>5, <1>6, <1>7

\* The ledger holds nothing but the lines of a room, of the days so far.
LEMMA EveryLineHasItsDay ==
  ASSUME StockRows, LinesHold, NEW s \in Places, NEW to \in Nat, Today <= to
  PROVE  /\ Lines(s, AnyDoc, 0, to) = {i \in DOMAIN ledger : ledger[i].section = s}
         /\ Total(Lines(s, AnyDoc, 0, to)) = Book(s)
<1>1. \A i \in DOMAIN ledger : ledger[i].day \in Nat /\ ledger[i].day <= Today /\ ledger[i].doc \in AnyDoc
  BY LinesAreLines DEF LinesHold, LineHolds
<1>2. Today \in Nat
  BY Bounds
<1>3. \A i \in DOMAIN ledger : ledger[i].day \in 0..to
  BY <1>1, <1>2
<1>4. Lines(s, AnyDoc, 0, to) = {i \in DOMAIN ledger : ledger[i].section = s}
  BY <1>1, <1>3 DEF Lines
<1> QED BY <1>4 DEF Book

\* Where there is no line there is no stock.
LEMMA NothingMovedNothingHeld ==
  ASSUME StockRows, NEW s \in Places
  PROVE  /\ Book(s) \in Int /\ (~Moved(s) => Book(s) = 0) /\ OnHand(s) = Book(s)
<1>1. PICK I : I = {i \in DOMAIN ledger : ledger[i].section = s}
  OBVIOUS
<1>2. I \in SUBSET DOMAIN ledger /\ Book(s) = Total(I) /\ (~Moved(s) => I = {})
  BY <1>1 DEF Book, Moved
<1>3. Book(s) \in Int /\ (~Moved(s) => Book(s) = 0)
  BY <1>2, TotalsAdd
<1> QED BY <1>3 DEF OnHand

LEMMA LastOfDays ==
  ASSUME NEW D, IsFiniteSet(D), D # {}, D \subseteq Int
  PROVE  Max(D) \in D /\ \A d \in D : d <= Max(D)
<1> DEFINE G == {T \in SUBSET D : T = {} \/ \E m \in T : \A d \in T : d <= m}
<1>1. ASSUME NEW T \in SUBSET D, \A U \in SUBSET T : U # T => U \in G PROVE T \in G
  <2>1. CASE T = {}
    BY <2>1
  <2>2. ASSUME NEW x \in T PROVE T \in G
    <3>1. T \ {x} \in G
      BY <1>1, <2>2
    <3>2. CASE T \ {x} = {}
      <4>1. \A d \in T : d = x /\ x \in Int
        BY <3>2
      <4> QED BY <4>1, <2>2
    <3>3. ASSUME NEW m \in T \ {x}, \A d \in T \ {x} : d <= m PROVE T \in G
      <4>1. x \in Int /\ m \in Int /\ \A d \in T : d \in Int
        BY <3>3
      <4>2. CASE m <= x
        <5>1. \A d \in T : d <= x
          BY <3>3, <4>1, <4>2
        <5> QED BY <5>1, <2>2
      <4>3. CASE x <= m
        <5>1. \A d \in T : d <= m
          BY <3>3, <4>1, <4>3
        <5> QED BY <5>1, <3>3
      <4> QED BY <4>1, <4>2, <4>3
    <3> QED BY <3>1, <3>2, <3>3
  <2> QED BY <2>1, <2>2
<1> HIDE DEF G
<1>2. SUBSET D \subseteq G
  BY <1>1, SetInduction
<1>3. D \in G
  BY <1>2
<1>4. \E m \in D : \A d \in D : d <= m
  BY <1>3 DEF G
<1>5. \E m \in D : \A d \in D : m >= d
  BY <1>4
<1> QED BY <1>5 DEF Max

\* Usage, summed by day.
LEMMA UsageAddsUp ==
  ASSUME StockRows, NEW d \in Nat
  PROVE  UsageVariance("kitchen", 0, d) + (d + 1) * Planned = Total(Draws("kitchen", 0, d))
<1>1. PICK I : I = Draws("kitchen", 0, d)
  OBVIOUS
<1>2. I \in SUBSET DOMAIN ledger /\ IsFiniteSet(I) /\ \A i \in I : ledger[i].day \in 0..d
  <2>1. I \in SUBSET DOMAIN ledger /\ \A i \in I : ledger[i].day \in 0..d
    BY <1>1 DEF Draws, Lines
  <2> QED BY <2>1, TotalsAdd
<1>3. PICK f : f = [i \in I |-> ledger[i].qty]
  OBVIOUS
<1>4. PICK key : key = [i \in I |-> ledger[i].day]
  OBVIOUS
<1>5. PICK part : part = [k \in 0..d |-> SumFunction([x \in {y \in I : key[y] = k} |-> f[x]])]
  OBVIOUS
<1>6. f \in [I -> Int] /\ key \in [I -> 0..d] /\ IsFiniteSet(0..d)
  BY <1>2, <1>3, <1>4, LinesAreLines, FS_Interval
<1>7. part \in [0..d -> Int] /\ SumFunction(part) = SumFunction(f)
  <2>1. PICK K : K = 0..d
    OBVIOUS
  <2>2. IsFiniteSet(I) /\ IsFiniteSet(K) /\ key \in [I -> K] /\ f \in [I -> Int]
        /\ part = [k \in K |-> SumFunction([x \in {y \in I : key[y] = k} |-> f[x]])]
    BY <1>2, <1>5, <1>6, <2>1
  <2>3. part \in [K -> Int] /\ SumFunction(part) = SumFunction(f)
    BY ONLY <2>2, SumPartition
  <2> QED BY <2>1, <2>3
<1>8. \A k \in 0..d : /\ part[k] = UsageTrend("kitchen", k).actual
                      /\ UsageTrend("kitchen", k).theoretical = Planned
  <2> SUFFICES ASSUME NEW k \in 0..d
               PROVE  /\ part[k] = UsageTrend("kitchen", k).actual
                      /\ UsageTrend("kitchen", k).theoretical = Planned
    OBVIOUS
  <2>1. PICK J : J = {y \in I : key[y] = k}
    OBVIOUS
  <2>2. \A i \in DOMAIN ledger : ledger[i].day \in k..k <=> ledger[i].day = k
    BY LinesAreLines
  <2>3. J = Draws("kitchen", k, k)
    BY <1>1, <1>4, <2>1, <2>2 DEF Draws, Lines
  <2>4. [x \in J |-> f[x]] = [i \in J |-> ledger[i].qty]
    BY <1>3, <2>1
  <2>5. part[k] = Total(J)
    BY <1>5, <2>1, <2>4 DEF Total
  <2> QED BY <2>3, <2>5 DEF UsageTrend, Theoretical
<1>9. PICK g : g = [k \in 0..d |-> UsageTrend("kitchen", k).actual - UsageTrend("kitchen", k).theoretical]
  OBVIOUS
<1>10. PICK p : p = [k \in 0..d |-> Planned]
  OBVIOUS
<1>11. Planned \in Int
  BY StockReportsAssumption
<1>12. g \in [0..d -> Int] /\ p \in [0..d -> Int] /\ part = [k \in 0..d |-> g[k] + p[k]]
  BY <1>7, <1>8, <1>9, <1>10, <1>11
<1>13. SumFunction(part) = SumFunction(g) + SumFunction(p)
  BY ONLY <1>6, <1>12, SumPlus
<1>14. SumFunction(p) = (d + 1) * Planned
  BY <1>10, <1>11, SumSame
<1>15. SumFunction(g) = UsageVariance("kitchen", 0, d)
  BY <1>9 DEF UsageVariance
<1>16. SumFunction(f) = Total(I)
  BY <1>3 DEF Total
<1> QED BY <1>1, <1>7, <1>13, <1>14, <1>15, <1>16

\* The kitchen's balance, by what its lines are.
LEMMA KitchenAddsUp ==
  ASSUME StockRows, LinesHold, NEW last \in Nat, Today <= last
  PROVE  Total(Draws("kitchen", 0, last))
           = Book("kitchen") - Total(Lines("kitchen", {"wastage", "count"}, 0, last))
             - Total(In("kitchen", Of("issue", TRUE)))
<1>1. PICK I : I = {i \in DOMAIN ledger : ledger[i].section = "kitchen"}
  OBVIOUS
<1>2. PICK A : A = Draws("kitchen", 0, last)
  OBVIOUS
<1>3. PICK B : B = Lines("kitchen", {"wastage", "count"}, 0, last)
  OBVIOUS
<1>4. PICK C : C = In("kitchen", Of("issue", TRUE))
  OBVIOUS
<1>5. \A i \in I : /\ LineHolds(ledger[i]) /\ ledger[i].section = "kitchen" /\ ledger[i].day \in 0..last
                   /\ ledger[i].doc \in AnyDoc /\ ledger[i].reversal \in BOOLEAN
  <2> SUFFICES ASSUME NEW i \in I
               PROVE  /\ LineHolds(ledger[i]) /\ ledger[i].section = "kitchen" /\ ledger[i].day \in 0..last
                      /\ ledger[i].doc \in AnyDoc /\ ledger[i].reversal \in BOOLEAN
    OBVIOUS
  <2>1. i \in DOMAIN ledger /\ LineHolds(ledger[i]) /\ ledger[i].section = "kitchen"
    BY <1>1 DEF LinesHold
  <2>2. ledger[i].day \in Nat /\ ledger[i].doc \in AnyDoc /\ ledger[i].reversal \in BOOLEAN
    BY <2>1, LinesAreLines
  <2>3. ledger[i].day <= Today /\ Today \in Nat
    BY <2>1, Bounds DEF LineHolds
  <2> QED BY <2>1, <2>2, <2>3
<1>6. ASSUME NEW i \in I
      PROVE  /\ i \in A <=> (ledger[i].doc = "issue" /\ ~ledger[i].reversal) \/ ledger[i].doc = "return"
             /\ i \in B <=> ledger[i].doc \in {"wastage", "count"}
             /\ i \in C <=> ledger[i].doc = "issue" /\ ledger[i].reversal
             /\ ledger[i].doc \in {"issue", "return", "wastage", "count"}
  <2>1. i \in DOMAIN ledger /\ "kitchen" # "quarantine" /\ "kitchen" # "store"
    BY <1>1
  <2>2. PICK x : x = ledger[i]
    OBVIOUS
  <2>3. /\ x.section = "kitchen" /\ x.day \in 0..last /\ x.doc \in AnyDoc /\ x.reversal \in BOOLEAN
        /\ x.doc # "grn" /\ (x.doc = "issue" => (x.qty > 0 <=> ~x.reversal)) /\ (x.doc = "return" => x.qty < 0)
    BY <1>5, <2>1, <2>2 DEF LineHolds
  <2>4. i \in A <=> (x.doc = "issue" /\ x.qty > 0) \/ (x.doc = "return" /\ x.qty < 0)
    BY <1>2, <2>1, <2>2, <2>3 DEF Draws, Lines
  <2>5. i \in B <=> x.doc \in {"wastage", "count"}
    BY <1>3, <2>1, <2>2, <2>3 DEF Lines
  <2>6. i \in C <=> x.doc = "issue" /\ x.reversal
    BY <1>4, <2>1, <2>2, <2>3 DEF In, Of
  <2>7. x.doc \in {"issue", "return", "wastage", "count"}
    BY <2>3 DEF AnyDoc
  <2> QED BY <2>2, <2>3, <2>4, <2>5, <2>6, <2>7
<1>7. A \subseteq I /\ B \subseteq I /\ C \subseteq I /\ I \in SUBSET DOMAIN ledger
  BY <1>1, <1>2, <1>3, <1>4 DEF Draws, Lines, In, Of
<1>8. I \ A \in SUBSET DOMAIN ledger /\ B \in SUBSET (I \ A) /\ (I \ A) \ B = C
  BY <1>6, <1>7
<1>9. Total(I) = Total(A) + Total(I \ A) /\ Total(I) \in Int
  BY <1>7, TotalsAdd
<1>10. Total(I \ A) = Total(B) + Total((I \ A) \ B)
  BY <1>8, TotalsAdd
<1>11. Total(A) \in Int /\ Total(B) \in Int /\ Total(C) \in Int
  BY <1>7, TotalsAdd
<1>12. Total(I) = Book("kitchen")
  BY <1>1 DEF Book
<1>13. PICK b, r : b = Total(I) /\ r = Total(I \ A)
  OBVIOUS
<1>14. r = Total(B) + Total(C)
  BY <1>8, <1>10, <1>13
<1>15. b = Total(A) + r
  BY <1>9, <1>13
<1>16. Total(A) = b - Total(B) - Total(C)
  BY ONLY <1>11, <1>14, <1>15
<1> QED BY <1>2, <1>3, <1>4, <1>12, <1>13, <1>16

LEMMA BooksAgreeThen ==
  ASSUME StockInvariant
  PROVE  BooksAgree
<1>1. StockRows /\ LinesHold /\ SlipsHold
  BY DEF StockInvariant
<1>2. PICK last : last = Calendar(LastTick)
  OBVIOUS
<1>3. last \in Nat /\ Today <= last /\ Calendar(now) <= last /\ Calendar(now) \in Nat
  <2>1. /\ Today \in Nat /\ Today <= Calendar(now) /\ Calendar(now) \in Nat
        /\ Calendar(LastTick) \in Nat /\ Calendar(now) <= Calendar(LastTick)
    BY <1>1, Bounds
  <2> QED BY <1>2, <2>1
<1>4. Total(Draws("kitchen", 0, last)) >= 0
        => Consumption("kitchen", 0, last)
             = Book("kitchen") - Total(Lines("kitchen", {"wastage", "count"}, 0, last))
               - Total(In("kitchen", Of("issue", TRUE)))
  <2>1. PICK t : t = Total(Draws("kitchen", 0, last))
    OBVIOUS
  <2>2. t \in Int
    <3>1. Draws("kitchen", 0, last) \in SUBSET DOMAIN ledger
      BY DEF Draws, Lines
    <3> QED BY <1>1, <2>1, <3>1, TotalsAdd
  <2>3. t >= 0 => Max({0, t}) = t
    BY <2>2, LargerThanZero
  <2> QED BY <1>1, <1>3, <2>1, <2>3, KitchenAddsUp DEF Consumption
<1>5. \A d \in Days : UsageVariance("kitchen", 0, d) + (d + 1) * Planned = Total(Draws("kitchen", 0, d))
  <2>1. Days \subseteq Nat
    BY <1>2, <1>3 DEF Days
  <2> QED BY <1>1, <2>1, UsageAddsUp
<1>6. ASSUME NEW s \in Rooms PROVE Wastage(s, 0, last) = 0 - Total(In(s, Of("wastage", FALSE)))
  <2>1. DOMAIN wastes = 1..Len(wastes) /\ Len(wastes) \in Nat /\ \A w \in DOMAIN wastes : wastes[w].at \in Nat
    <3>1. wastes \in Seq(WasteRows)
      BY <1>1 DEF StockRows
    <3>2. /\ DOMAIN wastes = 1..Len(wastes) /\ Len(wastes) \in Nat
          /\ \A w \in DOMAIN wastes : wastes[w] \in WasteRows
      BY <3>1
    <3> QED BY <3>2 DEF WasteRows
  <2>2. \A w \in DOMAIN wastes : wastes[w].at \in 0..last
    BY <1>1, <1>3, <2>1 DEF SlipsHold
  <2>3. {w \in DOMAIN wastes : wastes[w].section = s /\ wastes[w].at \in 0..last} = Slips(s)
    BY <2>2 DEF Slips
  <2>4. IsFiniteSet(Slips(s))
    <3>1. IsFiniteSet(DOMAIN wastes)
      BY <2>1, FS_Interval
    <3>2. Slips(s) \in SUBSET DOMAIN wastes
      BY DEF Slips
    <3> QED BY <3>1, <3>2, FS_Subset
  <2>5. Cardinality(Slips(s)) \in Nat
    BY <2>4, FS_CardinalityType
  <2>6. Total(In(s, Of("wastage", FALSE))) \in Int
    <3>1. In(s, Of("wastage", FALSE)) \in SUBSET DOMAIN ledger
      BY DEF In, Of
    <3> QED BY <1>1, <3>1, TotalsAdd
  <2>7. Cardinality(Slips(s)) + Total(In(s, Of("wastage", FALSE))) = 0
    BY <1>1 DEF SlipsHold, Logged
  <2>8. PICK m, t : m = Cardinality(Slips(s)) /\ t = Total(In(s, Of("wastage", FALSE)))
    OBVIOUS
  <2>9. m = 0 - t
    <3>1. m \in Nat /\ t \in Int
      BY <2>5, <2>6, <2>8
    <3>2. m + t = 0
      BY <2>7, <2>8
    <3> QED BY ONLY <3>1, <3>2
  <2>10. Wastage(s, 0, last) = m
    BY <2>3, <2>8 DEF Wastage
  <2> QED BY <2>8, <2>9, <2>10
<1> QED BY <1>2, <1>4, <1>5, <1>6 DEF BooksAgree

LEMMA ListsAgreeThen ==
  ASSUME StockInvariant
  PROVE  ListsAgree
<1>1. StockRows /\ LinesHold
  BY DEF StockInvariant
<1>2. /\ Today \in Nat /\ Today <= Calendar(now) /\ Calendar(now) \in Nat
      /\ Calendar(LastTick) \in Nat
  BY <1>1, Bounds
<1>3. \A s \in Places : Book(s) \in Int /\ (~Moved(s) => Book(s) = 0) /\ OnHand(s) = Book(s)
  BY <1>1, NothingMovedNothingHeld
<1>4. Valuation(Calendar(now))
        = {[section |-> s, qty |-> OnHand(s)] : s \in {r \in StockList(FALSE) : OnHand(r) # 0}}
  <2>1. \A s \in Places : Total(Lines(s, AnyDoc, 0, Calendar(now))) = OnHand(s)
    BY <1>1, <1>2, <1>3, EveryLineHasItsDay
  <2>2. {r \in Places : Total(Lines(r, AnyDoc, 0, Calendar(now))) # 0}
          = {r \in StockList(FALSE) : OnHand(r) # 0}
    BY <2>1, <1>3 DEF StockList
  <2>3. \A s \in StockList(FALSE) : s \in Places
    BY DEF StockList
  <2> QED BY <2>1, <2>2, <2>3 DEF Valuation
<1>5. \A s \in BelowReorder : s \in StockList(TRUE) \/ ~Moved(s)
  BY DEF BelowReorder, StockList
<1>6. ASSUME BelowReorder # {}, Reorder > 0, Par >= Reorder PROVE SuggestedOrder > 0
  <2>1. Book("store") < Reorder
    BY <1>6 DEF BelowReorder, IsStore
  <2>2. Reorder \in Nat /\ Par \in Nat /\ Book("store") \in Int
    BY <1>3, StockReportsAssumption DEF Places
  <2>3. PICK b \in Int : b = Book("store")
    BY <2>2
  <2>4. Par - b \in Int /\ Par - b > 0 /\ b <= Reorder
    BY <2>1, <2>2, <2>3, <1>6
  <2>5. Max({0, Par - b}) > 0
    BY <2>4, LargerThanZero
  <2> QED BY <2>3, <2>4, <2>5, <1>6 DEF SuggestedOrder
<1>7. ASSUME Moved("store"),
             NEW last, last = Max({ledger[i].day : i \in {j \in DOMAIN ledger : ledger[j].section = "store"}})
      PROVE  (Book("store") <= 0) = (last \in StockOuts("store", 0, last))
  <2>1. PICK I : I = {j \in DOMAIN ledger : ledger[j].section = "store"}
    OBVIOUS
  <2>2. PICK D : D = {ledger[i].day : i \in I}
    OBVIOUS
  <2>3. I \in SUBSET DOMAIN ledger /\ I # {} /\ IsFiniteSet(I)
    <3>1. I \in SUBSET DOMAIN ledger
      BY <2>1
    <3> QED BY <1>1, <1>7, <2>1, <3>1, TotalsAdd DEF Moved
  <2>4. IsFiniteSet(D)
    <3>1. PICK f : f = [i \in I |-> ledger[i].day]
      OBVIOUS
    <3>2. f \in Surjection(I, D)
      BY <2>2, <3>1 DEF Surjection
    <3> QED BY <2>3, <3>2, FS_Surjection
  <2>5. D \subseteq Nat /\ D # {}
    BY <1>1, <2>2, <2>3, LinesAreLines
  <2>6. last \in D /\ \A d \in D : d <= last
    <3>1. last = Max(D) /\ D \subseteq Int
      BY <1>7, <2>1, <2>2, <2>5
    <3> QED BY <2>4, <2>5, <3>1, LastOfDays
  <2>7. last \in Nat
    BY <2>5, <2>6
  <2>8. Lines("store", AnyDoc, last, last) # {}
    <3>1. PICK i \in I : ledger[i].day = last
      BY <2>2, <2>6
    <3>2. i \in DOMAIN ledger /\ ledger[i].section = "store" /\ ledger[i].doc \in AnyDoc
      BY <1>1, <2>1, LinesAreLines
    <3>3. last \in last..last
      BY <2>7
    <3> QED BY <3>1, <3>2, <3>3 DEF Lines
  <2>9. Lines("store", AnyDoc, 0, last) = I
    <3>1. \A i \in I : /\ i \in DOMAIN ledger /\ ledger[i].doc \in AnyDoc
                       /\ ledger[i].day \in Nat /\ ledger[i].day <= last
      BY <1>1, <2>1, <2>2, <2>6, LinesAreLines
    <3>2. \A i \in I : ledger[i].day \in 0..last
      BY <2>7, <3>1
    <3> QED BY <2>1, <3>1, <3>2 DEF Lines
  <2>10. RunningBalance("store", last) = Book("store")
    BY <2>1, <2>9 DEF RunningBalance, Book
  <2>11. last \in 0..last
    BY <2>7
  <2>12. last \in StockOuts("store", 0, last) <=> Book("store") <= 0
    BY <2>8, <2>10, <2>11 DEF StockOuts, IsStore
  <2>13. Book("store") \in Int
    BY <1>3 DEF Places
  <2>14. (Book("store") <= 0) \in BOOLEAN /\ (last \in StockOuts("store", 0, last)) \in BOOLEAN
    BY <2>13
  <2> QED BY <2>12, <2>14
<1>8. ASSUME NEW from \in Days, NEW to \in Days, "store" \in DeadStock(from, to),
             NEW i \in Lines("kitchen", {"issue"}, from, to), ~ledger[i].reversal
      PROVE  FALSE
  <2>1. /\ i \in DOMAIN ledger /\ ledger[i].section = "kitchen" /\ ledger[i].doc = "issue"
        /\ ledger[i].day \in from..to
    BY <1>8 DEF Lines
  <2>2. SentOut(ledger[i].day)
    BY <1>1, <1>8, <2>1 DEF LinesHold, LineHolds
  <2>3. PICK j \in DOMAIN ledger : /\ ledger[j].section = "store" /\ ledger[j].doc = "issue"
                                   /\ ledger[j].day = ledger[i].day /\ ledger[j].qty < 0
    BY <2>2 DEF SentOut
  <2>4. j \in Lines("store", {"issue"}, from, to)
    BY <2>1, <2>3 DEF Lines
  <2> QED BY <1>8, <2>3, <2>4 DEF DeadStock
<1>9. ASSUME NEW d \in Days, NEW s \in Shrinkage(d) PROVE LinesOff(s, d, d) # {}
  <2>1. s \in Places /\ 0 - Adjusted(s, d) > 0
    BY <1>9 DEF Shrinkage, Material
  <2>2. PICK I : I = Lines(s, {"count"}, d, d)
    OBVIOUS
  <2>3. I \in SUBSET DOMAIN ledger
    BY <2>2 DEF Lines
  <2>4. I # {}
    <3>1. I = {} => Total(I) = 0
      BY <1>1, <2>3, TotalsAdd
    <3> QED BY <2>1, <2>2, <3>1 DEF Adjusted
  <2>5. PICK i \in I : TRUE
    BY <2>4
  <2>6. i \in DOMAIN ledger /\ ledger[i].section = s /\ ledger[i].doc = "count" /\ ledger[i].day \in d..d
    BY <2>2, <2>5 DEF Lines
  <2>7. FoundOff(ledger[i])
    BY <1>1, <2>6 DEF LinesHold, LineHolds
  <2>8. PICK c \in DOMAIN counts : /\ counts[c].section = ledger[i].section /\ counts[c].day = ledger[i].day
                                   /\ counts[c].counted \notin {NotCounted, counts[c].expected}
    BY <2>7 DEF FoundOff
  <2>9. c \in LinesOff(s, d, d)
    BY <2>6, <2>8 DEF LinesOff
  <2> QED BY <2>9
<1> QED BY <1>4, <1>5, <1>6, <1>7, <1>8, <1>9 DEF ListsAgree

\* What the counts of a day found of a room.
LEMMA FindingsAdd ==
  ASSUME StockRows, NEW s \in Rooms, NEW d \in Nat
  PROVE  /\ Found(s, d) \in Nat /\ Written(s, d) \in Nat /\ Adjusted(s, d) \in Int
         /\ Standing(s, d) \in SUBSET DOMAIN counts /\ IsFiniteSet(Standing(s, d))
<1>1. PICK R : R = Standing(s, d)
  OBVIOUS
<1>2. R \in SUBSET DOMAIN counts
  BY <1>1 DEF Standing
<1>3. IsFiniteSet(R)
  BY <1>2, CountsAreCounts, FS_Subset
<1>4. PICK f : f = [c \in R |-> counts[c].stolen]
  OBVIOUS
<1>5. PICK g : g = [c \in R |-> counts[c].fresh]
  OBVIOUS
<1>6. f \in [R -> Nat] /\ g \in [R -> Nat]
  BY <1>2, <1>4, <1>5, CountsAreCounts
<1>7. SumFunction(f) \in Nat
  BY ONLY <1>3, <1>6, SumNat
<1>8. SumFunction(g) \in Nat
  BY ONLY <1>3, <1>6, SumNat
<1>9. Adjusted(s, d) \in Int
  <2>1. Lines(s, {"count"}, d, d) \in SUBSET DOMAIN ledger
    BY DEF Lines
  <2> QED BY <2>1, TotalsAdd DEF Adjusted
<1> QED BY <1>1, <1>2, <1>3, <1>4, <1>5, <1>7, <1>8, <1>9 DEF Found, Written

LEMMA LossesAreToldThen ==
  ASSUME StockInvariant
  PROVE  LossesAreTold
<1>1. StockRows /\ LinesHold /\ DocumentsStand /\ CountsStand /\ LossesHold
  BY DEF StockInvariant
<1>2. Days \subseteq Nat
  <2>1. Calendar(LastTick) \in Nat
    BY <1>1, Bounds
  <2> QED BY <2>1 DEF Days
<1>3. SUFFICES ASSUME NEW s \in Rooms \ disturbed, NEW d \in Days
               PROVE  /\ s \in Shrinkage(d) => Found(s, d) + Written(s, d) > 0
                      /\ /\ Found(s, d) > 0 /\ Found(s, d) >= MinValue
                         /\ \A c \in Standing(s, d) : 100 * Found(s, d) >= MinPct * counts[c].expected
                         => \/ s \in Shrinkage(d)
                            \/ \E w \in DOMAIN wastes : wastes[w].section = s /\ wastes[w].at = d
  BY DEF LossesAreTold
<1>4. PICK f, w, a : f = Found(s, d) /\ w = Written(s, d) /\ a = Adjusted(s, d)
  OBVIOUS
<1>5. s \in Places /\ s \in Rooms /\ d \in Nat
  BY <1>2 DEF Places, Rooms
<1>6. f \in Nat /\ w \in Nat /\ a \in Int
  BY <1>1, <1>4, <1>5, FindingsAdd
<1>7. a + f + w = 0
  BY <1>1, <1>4, <1>5 DEF LossesHold
<1>8. 0 - a = f + w
  BY <1>6, <1>7
<1>9. s \in Shrinkage(d) => f + w > 0
  BY <1>4, <1>8 DEF Shrinkage, Material
<1>10. ASSUME f > 0, f >= MinValue, \A c \in Standing(s, d) : 100 * f >= MinPct * counts[c].expected,
              ~HasWastageDoc(s, d)
       PROVE  s \in Shrinkage(d)
  <2>1. MinValue \in Nat /\ MinPct \in Nat
    BY StockReportsAssumption
  <2>2. 0 - a > 0 /\ 0 - a >= MinValue
    BY <1>6, <1>8, <1>10, <2>1
  <2>3. PICK R : R = {k \in DOMAIN counts :
                  /\ counts[k].section = s /\ counts[k].day = d
                  /\ \E i \in DOMAIN ledger : ledger[i].doc = "count" /\ ledger[i].id = counts[k].id}
    OBVIOUS
  <2>4. PICK E : E = {counts[c].expected : c \in R}
    OBVIOUS
  <2>5. Expected(s, d) = IF E = {} THEN 0 ELSE Max(E)
    BY <2>3, <2>4 DEF Expected
  <2>6. ASSUME NEW k \in R PROVE k \in Standing(s, d)
    <3>1. k \in DOMAIN counts /\ counts[k].section = s /\ counts[k].day = d
      BY <2>3, <2>6
    <3>2. PICK i \in DOMAIN ledger : ledger[i].doc = "count" /\ ledger[i].id = counts[k].id
      BY <2>3, <2>6
    <3>3. counts[k].closed
      BY <1>1, <3>1, <3>2 DEF DocumentsStand
    <3>4. ASSUME NEW j \in DOMAIN ledger, ledger[j].reversal, ledger[j].id = counts[k].id PROVE FALSE
      <4>1. ledger[j].doc = "count"
        BY <1>1, <3>1, <3>4 DEF DocumentsStand
      <4>2. FoundOff(ledger[j]) /\ ledger[j].section \in disturbed
        BY <1>1, <3>4, <4>1 DEF LinesHold, LineHolds
      <4>3. PICK c \in DOMAIN counts : counts[c].id = ledger[j].id /\ counts[c].section = ledger[j].section
        BY <4>2 DEF FoundOff
      <4>4. c = k
        BY <1>1, <3>1, <3>4, <4>3 DEF CountsStand
      <4> QED BY <1>3, <3>1, <4>2, <4>3, <4>4
    <3> QED BY <3>1, <3>3, <3>4 DEF Standing
  <2>7. Expected(s, d) = 0 \/ 100 * (0 - a) >= MinPct * Expected(s, d)
    <3>1. CASE E = {}
      BY <2>5, <3>1
    <3>2. CASE E # {}
      <4>1. R \in SUBSET DOMAIN counts
        BY <2>3
      <4>2. IsFiniteSet(R)
        BY <1>1, <4>1, CountsAreCounts, FS_Subset
      <4>3. IsFiniteSet(E)
        <5>1. PICK g : g = [c \in R |-> counts[c].expected]
          OBVIOUS
        <5>2. g \in Surjection(R, E)
          BY <2>4, <5>1 DEF Surjection
        <5> QED BY <4>2, <5>2, FS_Surjection
      <4>4. E \subseteq Int
        BY <1>1, <2>4, <4>1, CountsAreCounts
      <4>5. Max(E) \in E
        BY <3>2, <4>3, <4>4, LastOfDays
      <4>6. PICK k \in R : counts[k].expected = Max(E)
        BY <2>4, <4>5
      <4>7. 100 * f >= MinPct * Max(E)
        BY <1>10, <2>6, <4>6
      <4>8. PICK e \in Int : e = MinPct * Max(E)
        <5>1. PICK m \in Int : m = Max(E)
          BY <4>4, <4>5
        <5>2. MinPct * m \in Int
          BY <2>1
        <5> QED BY <5>1, <5>2
      <4>9. 100 * (0 - a) >= e
        BY <1>6, <1>8, <4>7, <4>8
      <4> QED BY <2>5, <3>2, <4>8, <4>9
    <3> QED BY <3>1, <3>2
  <2> QED BY <1>4, <1>5, <1>10, <2>2, <2>7 DEF Shrinkage, Material
<1> QED BY <1>4, <1>9, <1>10 DEF HasWastageDoc

\* What the lines of a kind come to, and by how much one line more changes it.
Picked(L, K) == {i \in DOMAIN L : L[i] \in K}
Weight(L, K) == SumFunction([i \in Picked(L, K) |-> L[i].qty])
AtRoom(s)        == {x \in LineRows : x.section = s}
CountLines(s, d) == {x \in LineRows : x.section = s /\ x.doc = "count" /\ x.day = d}
SlipLines(s)     == {x \in LineRows : x.section = s /\ x.doc = "wastage" /\ x.reversal = FALSE}
Share(x, K) == IF x \in K THEN x.qty ELSE 0

LEMMA RowAdded ==
  ASSUME NEW R, NEW s \in Seq(R), NEW x \in R, NEW t, t = Append(s, x)
  PROVE  /\ t \in Seq(R) /\ Len(t) = Len(s) + 1 /\ Len(s) \in Nat
         /\ DOMAIN s = 1..Len(s) /\ DOMAIN t = 1..(Len(s) + 1) /\ DOMAIN t = DOMAIN s \cup {Len(s) + 1}
         /\ Len(s) + 1 \notin DOMAIN s
         /\ t[Len(s) + 1] = x /\ \A i \in DOMAIN s : t[i] = s[i]
<1>1. t \in Seq(R) /\ Len(t) = Len(s) + 1 /\ Len(s) \in Nat /\ DOMAIN s = 1..Len(s)
  OBVIOUS
<1>2. t[Len(s) + 1] = x /\ \A i \in 1..Len(s) : t[i] = s[i]
  OBVIOUS
<1>3. DOMAIN t = 1..(Len(s) + 1)
  BY <1>1
<1>4. 1..(Len(s) + 1) = 1..Len(s) \cup {Len(s) + 1} /\ Len(s) + 1 \notin 1..Len(s)
  BY <1>1
<1> QED BY <1>1, <1>2, <1>3, <1>4

LEMMA WeightGrows ==
  ASSUME NEW L \in Seq(LineRows), NEW x \in LineRows, NEW M, M = Append(L, x), NEW K
  PROVE  Weight(M, K) = Weight(L, K) + Share(x, K) /\ Weight(L, K) \in Int
<1>1. PICK n \in Nat : n = Len(L)
  OBVIOUS
<1>2. /\ M \in Seq(LineRows) /\ DOMAIN M = DOMAIN L \cup {n + 1} /\ n + 1 \notin DOMAIN L
      /\ M[n + 1] = x /\ \A i \in DOMAIN L : M[i] = L[i]
  BY <1>1, RowAdded
<1>3. IsFiniteSet(DOMAIN L)
  <2>1. DOMAIN L = 1..n
    BY <1>1
  <2> QED BY <2>1, FS_Interval
<1>4. PICK P : P = Picked(L, K)
  OBVIOUS
<1>5. PICK Q : Q = Picked(M, K)
  OBVIOUS
<1>6. P \in SUBSET DOMAIN L /\ n + 1 \notin P /\ IsFiniteSet(P)
  BY <1>2, <1>3, <1>4, FS_Subset DEF Picked
<1>7. \A i \in DOMAIN L : L[i].qty \in Int
  <2>1. \A i \in DOMAIN L : L[i] \in LineRows
    OBVIOUS
  <2>2. \A y \in LineRows : y.qty \in Int
    BY DEF LineRows
  <2> QED BY <2>1, <2>2
<1>8. PICK f : f = [i \in P |-> L[i].qty]
  OBVIOUS
<1>9. f \in [P -> Int] /\ Weight(L, K) = SumFunction(f)
  BY <1>4, <1>6, <1>7, <1>8 DEF Weight
<1>10. SumFunction(f) \in Int
  BY ONLY <1>6, <1>9, SumType
<1>11. CASE x \in K
  <2>1. Q = P \cup {n + 1}
    BY <1>2, <1>4, <1>5, <1>11 DEF Picked
  <2>2. PICK l : l = n + 1
    OBVIOUS
  <2>3. PICK g : g = [i \in Q |-> M[i].qty]
    OBVIOUS
  <2>4. \A i \in Q : M[i].qty \in Int
    <3>1. x.qty \in Int
      BY DEF LineRows
    <3>2. M[n + 1].qty \in Int
      <4>1. M[n + 1] = x
        BY <1>2
      <4> QED BY ONLY <3>1, <4>1
    <3>3. ASSUME NEW i \in P PROVE M[i].qty \in Int
      <4>1. M[i] = L[i] /\ L[i].qty \in Int
        BY <1>2, <1>6, <1>7
      <4> QED BY <4>1
    <3> QED BY ONLY <2>1, <3>2, <3>3
  <2>5. l \in Q /\ g \in [Q -> Int]
    BY <2>1, <2>2, <2>3, <2>4
  <2>6. IsFiniteSet(Q)
    <3>1. IsFiniteSet(P)
      BY <1>6
    <3>2. IsFiniteSet(P \cup {n + 1})
      BY ONLY <3>1, FS_AddElement
    <3> QED BY ONLY <2>1, <3>2
  <2>7. SumFunction(g) = g[l] + SumFunction([y \in Q \ {l} |-> g[y]])
    BY ONLY <2>5, <2>6, SumTake, ZenonT(40)
  <2>8. Q \ {l} = P
    BY <1>6, <2>1, <2>2
  <2>9. [y \in Q \ {l} |-> g[y]] = f
    BY <1>2, <1>6, <1>8, <2>1, <2>3, <2>8
  <2>10. g[l] = x.qty
    BY <1>2, <2>2, <2>3, <2>5
  <2>11. Weight(M, K) = SumFunction(g)
    BY <1>5, <2>3 DEF Weight
  <2>12. x.qty \in Int
    BY DEF LineRows
  <2> QED BY <1>9, <1>10, <1>11, <2>7, <2>9, <2>10, <2>11, <2>12 DEF Share
<1>12. CASE x \notin K
  <2>1. Q = P
    BY <1>2, <1>4, <1>5, <1>12 DEF Picked
  <2>2. [i \in Q |-> M[i].qty] = f
    BY <1>2, <1>6, <1>8, <2>1
  <2>3. Weight(M, K) = SumFunction(f)
    BY <1>5, <2>2 DEF Weight
  <2> QED BY <1>9, <1>10, <1>12, <2>3 DEF Share
<1> QED BY <1>9, <1>10, <1>11, <1>12

LEMMA Weights ==
  ledger \in Seq(LineRows) =>
    /\ \A s : Book(s) = Weight(ledger, AtRoom(s))
    /\ \A s : \A d \in Nat : Adjusted(s, d) = Weight(ledger, CountLines(s, d))
    /\ \A s : Logged(s) = Weight(ledger, SlipLines(s))
<1> SUFFICES ASSUME ledger \in Seq(LineRows)
             PROVE  /\ \A s : Book(s) = Weight(ledger, AtRoom(s))
                    /\ \A s : \A d \in Nat : Adjusted(s, d) = Weight(ledger, CountLines(s, d))
                    /\ \A s : Logged(s) = Weight(ledger, SlipLines(s))
  OBVIOUS
<1>1. \A i \in DOMAIN ledger : ledger[i] \in LineRows
  OBVIOUS
<1>2. \A i \in DOMAIN ledger : ledger[i].day \in Nat
  BY <1>1 DEF LineRows
<1>3. ASSUME NEW s PROVE Book(s) = Weight(ledger, AtRoom(s))
  <2>1. {i \in DOMAIN ledger : ledger[i].section = s} = Picked(ledger, AtRoom(s))
    BY <1>1 DEF Picked, AtRoom
  <2> QED BY <2>1 DEF Book, Total, Weight
<1>4. ASSUME NEW s, NEW d \in Nat PROVE Adjusted(s, d) = Weight(ledger, CountLines(s, d))
  <2>1. \A n \in Nat : n \in d..d <=> n = d
    OBVIOUS
  <2>2. Lines(s, {"count"}, d, d) = Picked(ledger, CountLines(s, d))
    BY <1>1, <1>2, <2>1 DEF Picked, CountLines, Lines
  <2> QED BY <2>2 DEF Adjusted, Total, Weight
<1>5. ASSUME NEW s PROVE Logged(s) = Weight(ledger, SlipLines(s))
  <2>1. In(s, Of("wastage", FALSE)) = Picked(ledger, SlipLines(s))
    BY <1>1 DEF Picked, SlipLines, In, Of
  <2> QED BY <2>1 DEF Logged, Total, Weight
<1> QED BY <1>3, <1>4, <1>5

\* A step of the ledger adds lines and changes none; by what it adds the balances move.
Added(New) ==
    /\ ledger' \in Seq(LineRows) /\ DOMAIN ledger' = DOMAIN ledger \cup New /\ New \cap DOMAIN ledger = {}
    /\ \A i \in DOMAIN ledger : ledger'[i] = ledger[i]

LEMMA WeightsNext ==
  ASSUME ledger' \in Seq(LineRows)
  PROVE  /\ \A s : Book(s)' = Weight(ledger', AtRoom(s))
         /\ \A s : \A d \in Nat : Adjusted(s, d)' = Weight(ledger', CountLines(s, d))
         /\ \A s : Logged(s)' = Weight(ledger', SlipLines(s))
<1>1. (ledger \in Seq(LineRows) =>
         /\ \A s : Book(s) = Weight(ledger, AtRoom(s))
         /\ \A s : \A d \in Nat : Adjusted(s, d) = Weight(ledger, CountLines(s, d))
         /\ \A s : Logged(s) = Weight(ledger, SlipLines(s)))'
  BY Weights, PTL
<1> QED BY <1>1

LEMMA WeightOfMore ==
  ASSUME NEW L \in Seq(LineRows), NEW x \in LineRows
  PROVE  \A K : Weight(Append(L, x), K) = Weight(L, K) + Share(x, K) /\ Weight(L, K) \in Int
<1> SUFFICES ASSUME NEW K
             PROVE  Weight(Append(L, x), K) = Weight(L, K) + Share(x, K) /\ Weight(L, K) \in Int
  OBVIOUS
<1> QED BY WeightGrows

LEMMA MoreLines ==
  ASSUME NEW R, NEW s \in Seq(R), NEW x \in R, NEW y \in R
  PROVE  /\ s \o <<x>> = Append(s, x)
         /\ s \o <<x, y>> = Append(Append(s, x), y)
         /\ Append(s, x) \in Seq(R)
OBVIOUS

LEMMA OneAdded ==
  ASSUME ledger \in Seq(LineRows), NEW x \in LineRows, ledger' = Append(ledger, x)
  PROVE  /\ Added({Len(ledger) + 1}) /\ ledger'[Len(ledger) + 1] = x
         /\ \A s : Book(s)' = Book(s) + Share(x, AtRoom(s)) /\ Book(s) \in Int
         /\ \A s : \A d \in Nat : /\ Adjusted(s, d)' = Adjusted(s, d) + Share(x, CountLines(s, d))
                                  /\ Adjusted(s, d) \in Int
         /\ \A s : Logged(s)'
                     = Logged(s) + Share(x, SlipLines(s))
<1>1. PICK M : M = ledger'
  OBVIOUS
<1>2. M = Append(ledger, x)
  BY <1>1
<1>3. /\ M \in Seq(LineRows) /\ DOMAIN M = DOMAIN ledger \cup {Len(ledger) + 1}
      /\ Len(ledger) + 1 \notin DOMAIN ledger
      /\ M[Len(ledger) + 1] = x /\ \A i \in DOMAIN ledger : M[i] = ledger[i]
  BY <1>2, RowAdded
<1>4. Added({Len(ledger) + 1}) /\ ledger'[Len(ledger) + 1] = x
  BY <1>1, <1>3 DEF Added
<1>5. \A K : Weight(M, K) = Weight(ledger, K) + Share(x, K) /\ Weight(ledger, K) \in Int
  BY <1>2, WeightOfMore
<1>6. ledger' \in Seq(LineRows)
  BY <1>1, <1>3
<1> QED BY <1>1, <1>4, <1>5, <1>6, Weights, WeightsNext

LEMMA TwoAdded ==
  ASSUME ledger \in Seq(LineRows), NEW x \in LineRows, NEW y \in LineRows,
         ledger' = ledger \o <<x, y>>
  PROVE  /\ Added({Len(ledger) + 1, Len(ledger) + 2})
         /\ ledger'[Len(ledger) + 1] = x /\ ledger'[Len(ledger) + 2] = y
         /\ \A s : Book(s)' = Book(s) + Share(x, AtRoom(s)) + Share(y, AtRoom(s)) /\ Book(s) \in Int
         /\ \A s : \A d \in Nat :
               /\ Adjusted(s, d)' = Adjusted(s, d) + Share(x, CountLines(s, d)) + Share(y, CountLines(s, d))
               /\ Adjusted(s, d) \in Int
         /\ \A s : Logged(s)'
                     = Logged(s) + Share(x, SlipLines(s)) + Share(y, SlipLines(s))
<1>1. PICK M : M = ledger'
  OBVIOUS
<1>2. PICK N : N = Append(ledger, x)
  OBVIOUS
<1>3. N \in Seq(LineRows) /\ M = Append(N, y)
  BY <1>1, <1>2, MoreLines
<1>4. PICK n \in Nat : n = Len(ledger)
  OBVIOUS
<1>5. /\ DOMAIN N = DOMAIN ledger \cup {n + 1} /\ n + 1 \notin DOMAIN ledger /\ Len(N) = n + 1
      /\ N[n + 1] = x /\ \A i \in DOMAIN ledger : N[i] = ledger[i]
      /\ DOMAIN ledger = 1..n
  BY <1>2, <1>4, RowAdded
<1>6. /\ M \in Seq(LineRows) /\ DOMAIN M = DOMAIN N \cup {n + 2} /\ n + 2 \notin DOMAIN N
      /\ M[n + 2] = y /\ \A i \in DOMAIN N : M[i] = N[i]
  <2>1. Len(N) + 1 = n + 2
    BY <1>5
  <2> QED BY <1>3, <2>1, RowAdded
<1>7. /\ Added({Len(ledger) + 1, Len(ledger) + 2})
      /\ ledger'[Len(ledger) + 1] = x /\ ledger'[Len(ledger) + 2] = y
  <2>1. M[n + 1] = x /\ \A i \in DOMAIN ledger : M[i] = ledger[i]
    BY <1>5, <1>6
  <2>2. DOMAIN M = DOMAIN ledger \cup {n + 1, n + 2} /\ {n + 1, n + 2} \cap DOMAIN ledger = {}
    BY <1>5, <1>6
  <2>3. Len(ledger) + 1 = n + 1 /\ Len(ledger) + 2 = n + 2 /\ ledger' = M
    BY <1>1, <1>4
  <2>4. Added({n + 1, n + 2})
    BY <1>6, <2>1, <2>2, <2>3 DEF Added
  <2>5. M[n + 2] = y
    BY <1>6
  <2> QED BY ONLY <2>1, <2>3, <2>4, <2>5
<1>8. \A K : Weight(N, K) = Weight(ledger, K) + Share(x, K) /\ Weight(ledger, K) \in Int
  BY <1>2, WeightOfMore
<1>9. \A K : Weight(M, K) = Weight(N, K) + Share(y, K)
  BY <1>3, WeightOfMore
<1>10. \A K : Weight(M, K) = Weight(ledger, K) + Share(x, K) + Share(y, K)
  BY <1>8, <1>9
<1>11. ledger' \in Seq(LineRows)
  BY <1>1, <1>6
<1>12. \A K : /\ Weight(ledger', K) = Weight(ledger, K) + Share(x, K) + Share(y, K)
              /\ Weight(ledger, K) \in Int
  BY <1>1, <1>8, <1>10
<1>13. ASSUME NEW s
       PROVE  Book(s)' = Book(s) + Share(x, AtRoom(s)) + Share(y, AtRoom(s)) /\ Book(s) \in Int
  <2>1. Book(s) = Weight(ledger, AtRoom(s))
    BY Weights
  <2>2. Book(s)' = Weight(ledger', AtRoom(s))
    BY <1>11, WeightsNext
  <2> QED BY ONLY <1>12, <2>1, <2>2
<1>14. ASSUME NEW s, NEW d \in Nat
       PROVE  /\ Adjusted(s, d)' = Adjusted(s, d) + Share(x, CountLines(s, d)) + Share(y, CountLines(s, d))
              /\ Adjusted(s, d) \in Int
  <2>1. Adjusted(s, d) = Weight(ledger, CountLines(s, d))
    BY Weights
  <2>2. Adjusted(s, d)' = Weight(ledger', CountLines(s, d))
    BY <1>11, WeightsNext
  <2> QED BY ONLY <1>12, <2>1, <2>2
<1>15. ASSUME NEW s
       PROVE  Logged(s)' = Logged(s) + Share(x, SlipLines(s)) + Share(y, SlipLines(s))
  <2>1. Logged(s) = Weight(ledger, SlipLines(s))
    BY Weights
  <2>2. Logged(s)' = Weight(ledger', SlipLines(s))
    BY <1>11, WeightsNext
  <2> QED BY ONLY <1>12, <2>1, <2>2
<1> QED BY ONLY <1>7, <1>13, <1>14, <1>15

\* What a line says of its document goes on being so.
CountsKept ==
    \A c \in DOMAIN counts : c \in DOMAIN counts' /\ (counts[c].closed => counts'[c] = counts[c])
Onward == Today \in Int /\ Today' \in Int /\ Today <= Today' /\ disturbed \subseteq disturbed'

LEMMA LineStays ==
  ASSUME NEW x \in LineRows, LineHolds(x), NEW New, Added(New), CountsKept, Onward, StockRows
  PROVE  LineHolds(x)'
<1>1. x.day \in Nat
  BY DEF LineRows
<1>2. x.day <= Today'
  BY <1>1 DEF LineHolds, Onward
<1>3. ASSUME SentOut(x.day) PROVE SentOut(x.day)'
  <2>1. PICK j \in DOMAIN ledger : /\ ledger[j].section = "store" /\ ledger[j].doc = "issue"
                                   /\ ledger[j].day = x.day /\ ledger[j].qty < 0
    BY <1>3 DEF SentOut
  <2>2. j \in DOMAIN ledger' /\ ledger'[j] = ledger[j]
    BY DEF Added
  <2> QED BY <2>1, <2>2 DEF SentOut
<1>4. ASSUME FoundOff(x) PROVE FoundOff(x)'
  <2>1. PICK c \in DOMAIN counts : /\ counts[c].id = x.id /\ counts[c].section = x.section
                                   /\ counts[c].day = x.day /\ counts[c].closed
                                   /\ counts[c].counted \notin {NotCounted, counts[c].expected}
    BY <1>4 DEF FoundOff
  <2>2. c \in DOMAIN counts' /\ counts'[c] = counts[c]
    BY <2>1 DEF CountsKept
  <2> QED BY <2>1, <2>2 DEF FoundOff
<1>5. x.section \in disturbed => x.section \in disturbed'
  BY DEF Onward
<1>6. x.doc = "issue" => /\ x.section # "quarantine"
                         /\ x.section = "kitchen" => (x.qty > 0 <=> ~x.reversal)
                         /\ x.section = "kitchen" /\ ~x.reversal => SentOut(x.day)'
  BY <1>3 DEF LineHolds
<1>7. x.doc = "count" => /\ x.section # "quarantine" /\ x.qty # 0 /\ FoundOff(x)'
                         /\ x.reversal => x.section \in disturbed'
  BY <1>4, <1>5 DEF LineHolds
<1>8. /\ x.doc = "grn" => x.section = "store"
      /\ x.doc = "return" => /\ ~x.reversal /\ x.section # "store"
                             /\ x.section = "kitchen" => x.qty < 0
      /\ x.doc = "wastage" => x.section # "quarantine" /\ (~x.reversal => x.qty = -1)
  BY DEF LineHolds
<1> QED BY <1>2, <1>6, <1>7, <1>8 DEF LineHolds

LEMMA LinesStay ==
  ASSUME StockRows, LinesHold, NEW New, Added(New), CountsKept, Onward,
         \A i \in New : \E x \in LineRows : ledger'[i] = x /\ LineHolds(x)'
  PROVE  LinesHold'
<1>1. ASSUME NEW i \in DOMAIN ledger' PROVE \E x \in LineRows : ledger'[i] = x /\ LineHolds(x)'
  <2>1. CASE i \in New
    BY <2>1
  <2>2. CASE i \in DOMAIN ledger
    <3>1. PICK x : x = ledger[i]
      OBVIOUS
    <3>2. x \in LineRows /\ LineHolds(x)
      BY <2>2, <3>1, LinesAreLines DEF LinesHold
    <3>3. LineHolds(x)'
      BY <3>2, LineStays
    <3> QED BY <2>2, <3>1, <3>2, <3>3 DEF Added
  <2> QED BY <2>1, <2>2 DEF Added
<1>2. ASSUME NEW i \in DOMAIN ledger' PROVE LineHolds(ledger[i])'
  <2>1. PICK x \in LineRows : ledger'[i] = x /\ LineHolds(x)'
    BY <1>1, <1>2
  <2> QED BY <2>1 DEF LineHolds, SentOut, FoundOff
<1> QED BY <1>2 DEF LinesHold

\* The next number is taken by no document and no count.
LEMMA NewDocIsNew ==
  ASSUME DocumentsStand
  PROVE  /\ NewDoc \in Nat \ {0} /\ NewDoc \notin Docs /\ NewDoc \notin CountIds
         /\ Docs \cup CountIds = 1..(NewDoc - 1)
         /\ Docs \cup CountIds \cup {NewDoc} = 1..NewDoc
<1>1. PICK k \in Nat : Docs \cup CountIds = 1..k
  BY DEF DocumentsStand
<1>2. PICK D : D = 1..k
  OBVIOUS
<1>3. Cardinality(D) = k
  <2>1. Cardinality(1..k) = IF 1 > k THEN 0 ELSE k - 1 + 1
    BY FS_Interval
  <2> QED BY <1>2, <2>1
<1>4. NewDoc = 1 + Cardinality(Docs \cup CountIds)
  BY DEF NewDoc, CountIds
<1>5. D = Docs \cup CountIds
  BY <1>1, <1>2
<1>6. NewDoc = k + 1
  BY <1>3, <1>4, <1>5
<1> QED BY <1>1, <1>6

\* A document of one line or two is posted under the next number.
Posted(New, m, doc) ==
    /\ Added(New) /\ \A i \in New : ledger'[i].id = m /\ ledger'[i].doc = doc

LEMMA MineThen ==
  ASSUME NEW New, NEW m, NEW doc, Posted(New, m, doc)
  PROVE  /\ \A id : Mine(id)' = Mine(id) \cup (IF id = m THEN New ELSE {})
         /\ Docs' = Docs \cup (IF New = {} THEN {} ELSE {m})
<1>1. /\ DOMAIN ledger' = DOMAIN ledger \cup New
      /\ \A i \in DOMAIN ledger : ledger'[i] = ledger[i]
      /\ \A i \in New : ledger'[i].id = m
      /\ New \cap DOMAIN ledger = {}
  BY DEF Posted, Added
<1>2. ASSUME NEW id PROVE Mine(id)' = Mine(id) \cup (IF id = m THEN New ELSE {})
  BY <1>1 DEF Mine
<1>3. Docs' = Docs \cup (IF New = {} THEN {} ELSE {m})
  BY <1>1 DEF Docs
<1> QED BY <1>2, <1>3

LEMMA NewDocumentStands ==
  ASSUME StockRows, DocumentsStand, NEW New, NEW m, NEW doc, Posted(New, m, doc), counts' = counts, m = NewDoc,
         \E f \in New : New = {f} \/ (New = {f, f + 1} /\ doc # "count")
  PROVE  DocumentsStand'
<1>1. /\ m \in Nat \ {0} /\ m \notin Docs /\ m \notin CountIds /\ Docs \cup CountIds \cup {m} = 1..m
  BY NewDocIsNew
<1>2. /\ \A id : Mine(id)' = Mine(id) \cup (IF id = m THEN New ELSE {})
      /\ Docs' = Docs \cup {m}
  BY MineThen
<1>3. CountIds' = CountIds
  BY DEF CountIds
<1>4. /\ DOMAIN ledger' = DOMAIN ledger \cup New
      /\ \A i \in DOMAIN ledger : ledger'[i] = ledger[i] /\ ledger[i].id # m
      /\ \A i \in New : ledger'[i].id = m /\ ledger'[i].doc = doc
      /\ New \cap DOMAIN ledger = {}
  BY <1>1 DEF Posted, Added, Docs
<1>5. \E k \in Nat : Docs' \cup CountIds' = 1..k
  <2>1. Docs' \cup CountIds' = 1..m
    BY <1>1, <1>2, <1>3
  <2> QED BY <1>1, <2>1
<1>6. \A i, j \in DOMAIN ledger' : ledger'[i].id = ledger'[j].id => ledger'[i].doc = ledger'[j].doc
  BY <1>4 DEF DocumentsStand
<1>7. \A i \in DOMAIN ledger', c \in DOMAIN counts' : ledger'[i].id = counts'[c].id =>
          ledger'[i].doc = "count" /\ counts'[c].closed
  <2>1. \A c \in DOMAIN counts : counts[c].id # m
    BY <1>1 DEF CountIds
  <2> QED BY <1>4, <2>1 DEF DocumentsStand
<1>8. ASSUME NEW id \in Docs', \A i \in Mine(id)' : ~ledger'[i].reversal
      PROVE  \E f \in Mine(id)' : Mine(id)' = {f} \/ (Mine(id)' = {f, f + 1} /\ ledger'[f].doc # "count")
  <2>1. CASE id = m
    <3>1. Mine(m) = {}
      BY <1>1 DEF Mine, Docs
    <3>2. Mine(id)' = New
      BY <1>2, <2>1, <3>1
    <3> QED BY <1>4, <3>2
  <2>2. CASE id # m
    <3>1. id \in Docs /\ Mine(id)' = Mine(id) /\ Mine(id) \subseteq DOMAIN ledger
      BY <1>2, <2>2 DEF Mine
    <3>2. \A i \in Mine(id) : ~ledger[i].reversal
      BY <1>4, <1>8, <3>1
    <3>3. PICK f \in Mine(id) : Mine(id) = {f} \/ (Mine(id) = {f, f + 1} /\ ledger[f].doc # "count")
      BY <3>1, <3>2 DEF DocumentsStand
    <3> QED BY <1>4, <3>1, <3>3
  <2> QED BY <2>1, <2>2
<1> QED BY <1>5, <1>6, <1>7, <1>8 DEF DocumentsStand

\* A count's document comes when it is closed, and only then.
LEMMA ClosedDocumentStands ==
  ASSUME StockRows, DocumentsStand, CountsStand, NEW New, NEW c \in DOMAIN counts, ~counts[c].closed,
         counts' = [counts EXCEPT ![c].closed = TRUE], Posted(New, counts[c].id, "count"),
         New = {} \/ \E f \in New : New = {f}
  PROVE  DocumentsStand'
<1>1. PICK m : m = counts[c].id
  OBVIOUS
<1>2. /\ DOMAIN counts' = DOMAIN counts
      /\ \A e \in DOMAIN counts : counts'[e].id = counts[e].id /\ (counts[e].closed => counts'[e].closed)
      /\ counts'[c].closed
  BY CountsAreCounts DEF CountRows
<1>3. m \notin Docs /\ m \in CountIds /\ CountIds' = CountIds
  <2>1. CountIds' = CountIds
    BY <1>2 DEF CountIds
  <2>2. m \notin Docs
    BY <1>1 DEF DocumentsStand, Docs
  <2> QED BY <1>1, <2>1, <2>2 DEF CountIds
<1>4. /\ \A id : Mine(id)' = Mine(id) \cup (IF id = m THEN New ELSE {})
      /\ Docs' = Docs \cup (IF New = {} THEN {} ELSE {m})
  BY <1>1, MineThen
<1>5. /\ DOMAIN ledger' = DOMAIN ledger \cup New
      /\ \A i \in DOMAIN ledger : ledger'[i] = ledger[i] /\ ledger[i].id # m
      /\ \A i \in New : ledger'[i].id = m /\ ledger'[i].doc = "count"
      /\ New \cap DOMAIN ledger = {}
  BY <1>1, <1>3 DEF Posted, Added, Docs
<1>6. \E k \in Nat : Docs' \cup CountIds' = 1..k
  <2>1. Docs' \cup CountIds' = Docs \cup CountIds
    BY <1>3, <1>4
  <2> QED BY <2>1 DEF DocumentsStand
<1>7. \A i, j \in DOMAIN ledger' : ledger'[i].id = ledger'[j].id => ledger'[i].doc = ledger'[j].doc
  BY <1>5 DEF DocumentsStand
<1>8. \A i \in DOMAIN ledger', e \in DOMAIN counts' : ledger'[i].id = counts'[e].id =>
          ledger'[i].doc = "count" /\ counts'[e].closed
  <2>1. \A e \in DOMAIN counts : counts[e].id = m => e = c
    BY <1>1 DEF CountsStand
  <2> QED BY <1>2, <1>5, <2>1 DEF DocumentsStand
<1>9. ASSUME NEW id \in Docs', \A i \in Mine(id)' : ~ledger'[i].reversal
      PROVE  \E f \in Mine(id)' : Mine(id)' = {f} \/ (Mine(id)' = {f, f + 1} /\ ledger'[f].doc # "count")
  <2>1. CASE id = m
    <3>1. Mine(m) = {}
      BY <1>3 DEF Mine, Docs
    <3>2. Mine(id)' = New /\ New # {}
      BY <1>3, <1>4, <1>9, <2>1, <3>1
    <3> QED BY <3>2
  <2>2. CASE id # m
    <3>1. id \in Docs /\ Mine(id)' = Mine(id) /\ Mine(id) \subseteq DOMAIN ledger
      BY <1>4, <1>9, <2>2 DEF Mine
    <3>2. \A i \in Mine(id) : ~ledger[i].reversal
      BY <1>5, <1>9, <3>1
    <3>3. PICK f \in Mine(id) : Mine(id) = {f} \/ (Mine(id) = {f, f + 1} /\ ledger[f].doc # "count")
      BY <3>1, <3>2 DEF DocumentsStand
    <3> QED BY <1>5, <3>1, <3>3
  <2> QED BY <2>1, <2>2
<1> QED BY <1>6, <1>7, <1>8, <1>9 DEF DocumentsStand

\* A reversal is posted under its document's number.
LEMMA ReversedDocumentStands ==
  ASSUME StockRows, DocumentsStand, NEW New, NEW m \in Docs, NEW doc, Posted(New, m, doc), counts' = counts,
         \A i \in Mine(m) : ledger[i].doc = doc,
         \E f \in New : ledger'[f].reversal
  PROVE  DocumentsStand'
<1>1. /\ \A id : Mine(id)' = Mine(id) \cup (IF id = m THEN New ELSE {})
      /\ Docs' = Docs
  BY MineThen
<1>2. /\ DOMAIN ledger' = DOMAIN ledger \cup New
      /\ \A i \in DOMAIN ledger : ledger'[i] = ledger[i]
      /\ \A i \in DOMAIN ledger : ledger[i].id = m => ledger[i].doc = doc
      /\ \A i \in New : ledger'[i].id = m /\ ledger'[i].doc = doc
  BY DEF Posted, Added, Mine
<1>3. \E k \in Nat : Docs' \cup CountIds' = 1..k
  BY <1>1 DEF DocumentsStand, CountIds
<1>4. \A i, j \in DOMAIN ledger' : ledger'[i].id = ledger'[j].id => ledger'[i].doc = ledger'[j].doc
  BY <1>2 DEF DocumentsStand
<1>5. \A i \in DOMAIN ledger', c \in DOMAIN counts' : ledger'[i].id = counts'[c].id =>
          ledger'[i].doc = "count" /\ counts'[c].closed
  <2>1. PICK o \in DOMAIN ledger : ledger[o].id = m /\ ledger[o].doc = doc
    BY <1>2 DEF Docs
  <2> QED BY <1>2, <2>1 DEF DocumentsStand
<1>6. ASSUME NEW id \in Docs', \A i \in Mine(id)' : ~ledger'[i].reversal
      PROVE  \E f \in Mine(id)' : Mine(id)' = {f} \/ (Mine(id)' = {f, f + 1} /\ ledger'[f].doc # "count")
  <2>1. id # m
    BY <1>1, <1>6
  <2>2. id \in Docs /\ Mine(id)' = Mine(id) /\ Mine(id) \subseteq DOMAIN ledger
    BY <1>1, <1>6, <2>1 DEF Mine
  <2>3. \A i \in Mine(id) : ~ledger[i].reversal
    BY <1>2, <1>6, <2>2
  <2>4. PICK f \in Mine(id) : Mine(id) = {f} \/ (Mine(id) = {f, f + 1} /\ ledger[f].doc # "count")
    BY <2>2, <2>3 DEF DocumentsStand
  <2> QED BY <1>2, <2>2, <2>4
<1> QED BY <1>3, <1>4, <1>5, <1>6 DEF DocumentsStand

\* Without a line: the documents stand as they stood, a new count among them.
LEMMA SameDocumentsStand ==
  ASSUME StockRows, DocumentsStand, ledger' = ledger,
         \/ counts' = counts
         \/ /\ DOMAIN counts' = DOMAIN counts
            /\ \A e \in DOMAIN counts : /\ counts'[e].id = counts[e].id
                                        /\ counts[e].closed => counts'[e].closed
         \/ \E n \in CountRows : counts' = Append(counts, n) /\ n.id = NewDoc
  PROVE  DocumentsStand'
<1>1. Docs' = Docs /\ \A id : Mine(id)' = Mine(id)
  BY DEF Docs, Mine
<1>2. \A i, j \in DOMAIN ledger' : ledger'[i].id = ledger'[j].id => ledger'[i].doc = ledger'[j].doc
  BY DEF DocumentsStand
<1>3. \A id \in Docs' : (\A i \in Mine(id)' : ~ledger'[i].reversal) =>
          \E f \in Mine(id)' : Mine(id)' = {f} \/ (Mine(id)' = {f, f + 1} /\ ledger'[f].doc # "count")
  BY <1>1 DEF DocumentsStand
<1>4. CASE \/ counts' = counts
           \/ /\ DOMAIN counts' = DOMAIN counts
              /\ \A e \in DOMAIN counts : /\ counts'[e].id = counts[e].id
                                          /\ counts[e].closed => counts'[e].closed
  <2>1. CountIds' = CountIds
    BY <1>4 DEF CountIds
  <2>2. \A i \in DOMAIN ledger', c \in DOMAIN counts' : ledger'[i].id = counts'[c].id =>
          ledger'[i].doc = "count" /\ counts'[c].closed
    BY <1>4 DEF DocumentsStand
  <2>3. \E k \in Nat : Docs' \cup CountIds' = 1..k
    BY <1>1, <2>1 DEF DocumentsStand
  <2> QED BY <1>2, <1>3, <2>2, <2>3 DEF DocumentsStand
<1>5. ASSUME NEW n \in CountRows, counts' = Append(counts, n), n.id = NewDoc PROVE DocumentsStand'
  <2>1. PICK M : M = counts'
    OBVIOUS
  <2>2. /\ counts \in Seq(CountRows) /\ M = Append(counts, n)
    BY <1>5, <2>1 DEF StockRows
  <2>3. /\ DOMAIN M = DOMAIN counts \cup {Len(counts) + 1}
        /\ M[Len(counts) + 1] = n /\ \A c \in DOMAIN counts : M[c] = counts[c]
    BY <2>2, RowAdded
  <2>4. CountIds' = CountIds \cup {NewDoc}
    BY <1>5, <2>1, <2>3 DEF CountIds
  <2>5. \E k \in Nat : Docs' \cup CountIds' = 1..k
    <3>1. PICK m : m = NewDoc
      OBVIOUS
    <3>2. m \in Nat /\ Docs' \cup CountIds' = 1..m
      BY <1>1, <2>4, <3>1, NewDocIsNew
    <3> QED BY <3>2
  <2>6. \A i \in DOMAIN ledger', c \in DOMAIN counts' : ledger'[i].id = counts'[c].id =>
          ledger'[i].doc = "count" /\ counts'[c].closed
    <3>1. \A i \in DOMAIN ledger : ledger[i].id # n.id
      BY <1>5, NewDocIsNew DEF Docs
    <3> QED BY <2>1, <2>3, <3>1 DEF DocumentsStand
  <2> QED BY <1>2, <1>3, <2>5, <2>6 DEF DocumentsStand
<1> QED BY <1>4, <1>5

LEMMA CountsStandStill ==
  ASSUME StockRows, CountsStand, Onward, counts' = counts
  PROVE  CountsStand'
<1>1. \A c \in DOMAIN counts' : counts'[c].day <= Today'
  BY CountsAreCounts DEF CountsStand, Onward
<1> QED BY <1>1 DEF CountsStand

\* A count is changed in place.
LEMMA ChangedCountStands ==
  ASSUME StockRows, CountsStand, Onward, DOMAIN counts' = DOMAIN counts,
         \A e \in DOMAIN counts : /\ counts'[e].id = counts[e].id /\ counts'[e].day = counts[e].day
                                  /\ counts[e].closed => counts'[e].closed
  PROVE  CountsStand'
<1>1. \A c \in DOMAIN counts' : counts'[c].day <= Today'
  BY CountsAreCounts DEF CountsStand, Onward
<1>2. \A c, e \in DOMAIN counts' : counts'[c].id = counts'[e].id => c = e
  BY DEF CountsStand
<1>3. \A c, e \in DOMAIN counts' : ~counts'[c].closed /\ ~counts'[e].closed => c = e
  BY DEF CountsStand
<1> QED BY <1>1, <1>2, <1>3 DEF CountsStand

\* The counts of rooms whose books are straight, when none of them is touched.
LEMMA CountsHoldStill ==
  ASSUME StockRows, CountsHold, Onward, counts' = counts,
         \A s \in Rooms : stolen[s] <= stolen'[s] /\ stolen'[s] \in Int,
         \A s \in Rooms \ disturbed' :
            OpenCounts(s) = {} \/ (Book(s)' = Book(s) /\ fresh[s] <= fresh'[s] /\ fresh'[s] \in Int)
  PROVE  CountsHold'
<1>1. SUFFICES ASSUME NEW c \in DOMAIN counts PROVE CountHolds(counts[c])'
  BY DEF CountsHold
<1>2. PICK n : n = counts[c]
  OBVIOUS
<1>3. PICK s : s = n.section
  OBVIOUS
<1>4. /\ CountHolds(n) /\ n.section = s /\ s \in Rooms /\ n.counted \in Nat \cup {NotCounted}
      /\ n.closed \in BOOLEAN
      /\ n.stolen \in Nat /\ n.fresh \in Nat /\ stolen[s] \in Nat /\ fresh[s] \in Nat /\ counts'[c] = n
  BY <1>2, <1>3, CountsAreCounts DEF CountsHold, StockRows
<1>5. s \notin disturbed' => s \notin disturbed
  BY DEF Onward
<1>6. ~n.closed => OpenCounts(s) # {}
  BY <1>2, <1>3 DEF OpenCounts
<1>7. n.section \notin disturbed' /\ n.counted # NotCounted => n.expected = n.counted + n.stolen + n.fresh
  BY <1>4, <1>5 DEF CountHolds
<1>8. n.closed => n.counted # NotCounted
  BY <1>4 DEF CountHolds
<1>9. ASSUME ~n.closed, n.counted # NotCounted PROVE n.stolen <= stolen'[s]
  <2>1. n.stolen <= stolen[s]
    BY <1>4, <1>9 DEF CountHolds
  <2>2. stolen[s] <= stolen'[s] /\ stolen'[s] \in Int
    BY <1>4
  <2> QED BY <1>4, <2>1, <2>2
<1>10. ASSUME ~n.closed, s \notin disturbed'
       PROVE  IF n.counted = NotCounted THEN n.expected = Book(s)' ELSE n.fresh <= fresh'[s]
  <2>1. Book(s)' = Book(s) /\ fresh[s] <= fresh'[s] /\ fresh'[s] \in Int
    BY <1>4, <1>6, <1>10
  <2>2. IF n.counted = NotCounted THEN n.expected = Book(s) ELSE n.fresh <= fresh[s]
    BY <1>4, <1>5, <1>10 DEF CountHolds
  <2> QED BY <1>4, <2>1, <2>2
<1>11. counts'[c].section = s
  BY <1>4
<1>12. CountHolds(n)'
  BY <1>4, <1>7, <1>8, <1>9, <1>10 DEF CountHolds
<1> QED BY <1>4, <1>12 DEF CountHolds, Book, Total

LEMMA SameFindings ==
  ASSUME NEW s, NEW d, Standing(s, d)' = Standing(s, d),
         \A c \in Standing(s, d) : counts'[c].stolen = counts[c].stolen /\ counts'[c].fresh = counts[c].fresh
  PROVE  Found(s, d)' = Found(s, d) /\ Written(s, d)' = Written(s, d)
<1>1. PICK R : R = Standing(s, d)
  OBVIOUS
<1>2. [c \in R |-> counts'[c].stolen] = [c \in R |-> counts[c].stolen]
  BY <1>1
<1>3. [c \in R |-> counts'[c].fresh] = [c \in R |-> counts[c].fresh]
  BY <1>1
<1> QED BY <1>1, <1>2, <1>3 DEF Found, Written

LEMMA LossesStay ==
  ASSUME LossesHold, Onward, CountsKept,
         \A s \in Rooms \ disturbed', d \in Nat :
            Adjusted(s, d)' = Adjusted(s, d) /\ Standing(s, d)' = Standing(s, d)
  PROVE  LossesHold'
<1>1. SUFFICES ASSUME NEW s \in Rooms \ disturbed', NEW d \in Nat
               PROVE  Adjusted(s, d)' + Found(s, d)' + Written(s, d)' = 0
  BY DEF LossesHold
<1>2. \A c \in Standing(s, d) : counts'[c] = counts[c]
  BY DEF Standing, CountsKept
<1>3. Found(s, d)' = Found(s, d) /\ Written(s, d)' = Written(s, d)
  BY <1>1, <1>2, SameFindings
<1>4. s \in Rooms \ disturbed
  BY DEF Onward
<1> QED BY <1>1, <1>3, <1>4 DEF LossesHold

\* A line that reverses nothing undoes no count.
LEMMA StandingStays ==
  ASSUME NEW New, Added(New), \A i \in New : ~ledger'[i].reversal, counts' = counts
  PROVE  \A s, d : Standing(s, d)' = Standing(s, d)
<1>1. \A c \in DOMAIN counts : (\E i \in DOMAIN ledger' : ledger'[i].reversal /\ ledger'[i].id = counts[c].id)
                           <=> (\E i \in DOMAIN ledger : ledger[i].reversal /\ ledger[i].id = counts[c].id)
  BY DEF Added
<1> SUFFICES ASSUME NEW s, NEW d PROVE Standing(s, d)' = Standing(s, d)
  OBVIOUS
<1> QED BY <1>1 DEF Standing

LEMMA SlipsHoldStill ==
  ASSUME StockRows, SlipsHold, wastes' = wastes, Calendar(now) \in Int, Calendar(now)' \in Int,
         Calendar(now) <= Calendar(now)',
         \A s \in Rooms : Logged(s)' = Logged(s)
  PROVE  SlipsHold'
<1>1. \A w \in DOMAIN wastes : wastes[w].at \in Nat
  <2>1. \A w \in DOMAIN wastes : wastes[w] \in WasteRows
    BY DEF StockRows
  <2> QED BY <2>1 DEF WasteRows
<1>2. \A w \in DOMAIN wastes' : wastes'[w].at <= Calendar(now)'
  BY <1>1 DEF SlipsHold
<1>3. \A s \in Rooms : Slips(s)' = Slips(s)
  BY DEF Slips
<1>4. \A s \in Rooms : Cardinality(Slips(s)') + Logged(s)' = 0
  BY <1>3 DEF SlipsHold
<1> QED BY <1>2, <1>4 DEF SlipsHold

LEMMA Shares ==
  ASSUME NEW x \in LineRows, NEW s
  PROVE  /\ Share(x, AtRoom(s)) = IF x.section = s THEN x.qty ELSE 0
         /\ \A d : Share(x, CountLines(s, d)) =
                      IF x.section = s /\ x.doc = "count" /\ x.day = d THEN x.qty ELSE 0
         /\ Share(x, SlipLines(s)) =
               IF x.section = s /\ x.doc = "wastage" /\ x.reversal = FALSE THEN x.qty ELSE 0
BY DEF Share, AtRoom, CountLines, SlipLines

\* What one line more, or two, does to the figures.
LEMMA OneMoves ==
  ASSUME StockRows, NEW x \in LineRows, ledger' = Append(ledger, x)
  PROVE  /\ Posted({Len(ledger) + 1}, x.id, x.doc) /\ ledger'[Len(ledger) + 1] = x
         /\ ledger' \in Seq(LineRows)
         /\ \A s : Book(s) \in Int /\ Book(s)' = Book(s) + (IF x.section = s THEN x.qty ELSE 0)
         /\ \A s : \A d \in Nat :
               /\ Adjusted(s, d) \in Int
               /\ Adjusted(s, d)' = Adjusted(s, d)
                    + (IF x.section = s /\ x.doc = "count" /\ x.day = d THEN x.qty ELSE 0)
         /\ x.doc # "count" => \A s : \A d \in Nat : Adjusted(s, d)' = Adjusted(s, d)
         /\ x.doc # "wastage" \/ x.reversal => \A s : Logged(s)' = Logged(s)
         /\ \A s : /\ Logged(s) \in Int
                   /\ Logged(s)' = Logged(s)
                        + (IF x.section = s /\ x.doc = "wastage" /\ x.reversal = FALSE THEN x.qty ELSE 0)
<1>1. /\ Added({Len(ledger) + 1}) /\ ledger'[Len(ledger) + 1] = x
      /\ \A s : Book(s)' = Book(s) + Share(x, AtRoom(s)) /\ Book(s) \in Int
      /\ \A s : \A d \in Nat : /\ Adjusted(s, d)' = Adjusted(s, d) + Share(x, CountLines(s, d))
                               /\ Adjusted(s, d) \in Int
      /\ \A s : Logged(s)'
                  = Logged(s) + Share(x, SlipLines(s))
  BY OneAdded DEF StockRows
<1>2. Posted({Len(ledger) + 1}, x.id, x.doc)
  BY <1>1 DEF Posted
<1>3. ASSUME NEW s PROVE Logged(s) \in Int
  <2>1. In(s, Of("wastage", FALSE)) \in SUBSET DOMAIN ledger
    BY DEF In, Of
  <2> QED BY <2>1, TotalsAdd DEF Logged
<1>4. ASSUME NEW s
      PROVE  /\ Book(s)' = Book(s) + (IF x.section = s THEN x.qty ELSE 0)
             /\ Logged(s)' = Logged(s)
                   + (IF x.section = s /\ x.doc = "wastage" /\ x.reversal = FALSE THEN x.qty ELSE 0)
  BY <1>1, Shares
<1>5. ASSUME NEW s, NEW d \in Nat
      PROVE  Adjusted(s, d)' = Adjusted(s, d)
                + (IF x.section = s /\ x.doc = "count" /\ x.day = d THEN x.qty ELSE 0)
  <2>1. Adjusted(s, d)' = Adjusted(s, d) + Share(x, CountLines(s, d))
    BY <1>1
  <2>2. Share(x, CountLines(s, d)) = IF x.section = s /\ x.doc = "count" /\ x.day = d THEN x.qty ELSE 0
    BY Shares
  <2> QED BY <2>1, <2>2
<1>6. ledger' \in Seq(LineRows)
  BY <1>1 DEF Added
<1>7. ASSUME x.doc # "count", NEW s, NEW d \in Nat PROVE Adjusted(s, d)' = Adjusted(s, d)
  <2>1. Adjusted(s, d)' = Adjusted(s, d) + 0
    BY <1>5, <1>7
  <2>2. Adjusted(s, d) \in Int
    BY <1>1
  <2> QED BY <2>1, <2>2
<1>8. ASSUME x.doc # "wastage" \/ x.reversal, NEW s PROVE Logged(s)' = Logged(s)
  <2>1. Logged(s)' = Logged(s) + 0
    BY <1>4, <1>8
  <2>2. Logged(s) \in Int
    BY <1>3
  <2> QED BY <2>1, <2>2
<1> QED BY <1>1, <1>2, <1>3, <1>4, <1>5, <1>6, <1>7, <1>8

LEMMA TwoMove ==
  ASSUME StockRows, NEW x \in LineRows, NEW y \in LineRows, ledger' = ledger \o <<x, y>>,
         x.id = y.id, x.doc = y.doc
  PROVE  /\ Posted({Len(ledger) + 1, Len(ledger) + 2}, x.id, x.doc)
         /\ ledger'[Len(ledger) + 1] = x /\ ledger'[Len(ledger) + 2] = y
         /\ ledger' \in Seq(LineRows)
         /\ \A s : /\ Book(s) \in Int
                   /\ Book(s)' = Book(s) + (IF x.section = s THEN x.qty ELSE 0)
                                         + (IF y.section = s THEN y.qty ELSE 0)
         /\ x.doc # "count" => \A s : \A d \in Nat : Adjusted(s, d)' = Adjusted(s, d)
         /\ (x.doc # "wastage" \/ (x.reversal /\ y.reversal)) =>
               \A s : Logged(s)' = Logged(s)
<1>1. /\ Added({Len(ledger) + 1, Len(ledger) + 2})
      /\ ledger'[Len(ledger) + 1] = x /\ ledger'[Len(ledger) + 2] = y
      /\ \A s : Book(s)' = Book(s) + Share(x, AtRoom(s)) + Share(y, AtRoom(s)) /\ Book(s) \in Int
      /\ \A s : \A d \in Nat :
            /\ Adjusted(s, d)' = Adjusted(s, d) + Share(x, CountLines(s, d)) + Share(y, CountLines(s, d))
            /\ Adjusted(s, d) \in Int
      /\ \A s : Logged(s)'
                  = Logged(s) + Share(x, SlipLines(s)) + Share(y, SlipLines(s))
  BY TwoAdded DEF StockRows
<1>2. Posted({Len(ledger) + 1, Len(ledger) + 2}, x.id, x.doc)
  BY <1>1 DEF Posted
<1>3. ASSUME NEW s PROVE Logged(s) \in Int
  <2>1. In(s, Of("wastage", FALSE)) \in SUBSET DOMAIN ledger
    BY DEF In, Of
  <2> QED BY <2>1, TotalsAdd DEF Logged
<1>4. ASSUME NEW s
      PROVE  Book(s)' = Book(s) + (IF x.section = s THEN x.qty ELSE 0) + (IF y.section = s THEN y.qty ELSE 0)
  BY <1>1, Shares
<1>5. ASSUME x.doc # "count", NEW s, NEW d \in Nat PROVE Adjusted(s, d)' = Adjusted(s, d)
  <2>1. Adjusted(s, d)' = Adjusted(s, d) + Share(x, CountLines(s, d)) + Share(y, CountLines(s, d))
    BY <1>1
  <2>2. Share(x, CountLines(s, d)) = 0 /\ Share(y, CountLines(s, d)) = 0
    <3>1. Share(x, CountLines(s, d)) = IF x.section = s /\ x.doc = "count" /\ x.day = d THEN x.qty ELSE 0
      BY Shares
    <3>2. Share(y, CountLines(s, d)) = IF y.section = s /\ y.doc = "count" /\ y.day = d THEN y.qty ELSE 0
      BY Shares
    <3>3. y.doc # "count"
      BY <1>5
    <3> QED BY ONLY <1>5, <3>1, <3>2, <3>3
  <2>3. Adjusted(s, d) \in Int
    BY <1>1, <1>5
  <2>4. PICK a : a = Adjusted(s, d)
    OBVIOUS
  <2>5. a \in Int /\ Adjusted(s, d)' = a + 0 + 0
    BY <2>1, <2>2, <2>3, <2>4
  <2>6. a + 0 + 0 = a
    BY ONLY <2>5
  <2> QED BY <2>4, <2>5, <2>6
<1>6. ASSUME x.doc # "wastage" \/ (x.reversal /\ y.reversal), NEW s
      PROVE  Logged(s)' = Logged(s)
  <2>1. Share(x, SlipLines(s)) = 0 /\ Share(y, SlipLines(s)) = 0
    BY <1>6, Shares
  <2>2. PICK u : u = Logged(s)
    OBVIOUS
  <2>3. Logged(s)' = u + Share(x, SlipLines(s)) + Share(y, SlipLines(s))
    BY <1>1, <2>2
  <2>4. u \in Int
    BY <1>3, <2>2
  <2> QED BY <2>1, <2>2, <2>3, <2>4
<1>7. ledger' \in Seq(LineRows)
  BY <1>1 DEF Added
<1> QED BY <1>1, <1>2, <1>4, <1>5, <1>6, <1>7

LEMMA RoomsArePlaces == Rooms \subseteq Places /\ "quarantine" \notin Rooms
BY DEF Rooms, Places

LEMMA SameDay ==
  ASSUME StockRows, now' = now, disturbed \subseteq disturbed'
  PROVE  /\ Onward /\ Today' = Today /\ Today \in Nat
         /\ Calendar(now)' = Calendar(now) /\ Calendar(now) \in Nat
<1>1. Today' = Today /\ Calendar(now)' = Calendar(now)
  BY DEF Today
<1> QED BY <1>1, Bounds DEF Onward

LEMMA PostedOne ==
  ASSUME StockRows, NEW x \in LineRows, PostDocument(<<x>>)
  PROVE  /\ ledger' = Append(ledger, x)
         /\ disturbed \subseteq disturbed' /\ disturbed' \subseteq Places
         /\ OpenCounts(x.section) # {} => x.section \in disturbed'
<1>1. ledger' = Append(ledger, x)
  BY MoreLines DEF PostDocument, StockRows
<1>2. PICK l : l = <<x>>
  OBVIOUS
<1>3. 1 \in DOMAIN l /\ l[1] = x
  BY <1>2
<1>4. disturbed' = disturbed \cup
           {s \in Places : OpenCounts(s) # {} /\ \E i \in DOMAIN l : l[i].section = s}
  BY <1>2 DEF PostDocument
<1>5. x.section \in Places /\ disturbed \subseteq Places
  BY DEF LineRows, StockRows
<1> QED BY <1>1, <1>3, <1>4, <1>5

LEMMA PostedTwo ==
  ASSUME StockRows, NEW x \in LineRows, NEW y \in LineRows, PostDocument(<<x, y>>)
  PROVE  /\ ledger' = ledger \o <<x, y>>
         /\ disturbed \subseteq disturbed' /\ disturbed' \subseteq Places
         /\ OpenCounts(x.section) # {} => x.section \in disturbed'
         /\ OpenCounts(y.section) # {} => y.section \in disturbed'
<1>1. ledger' = ledger \o <<x, y>>
  BY DEF PostDocument
<1>2. PICK l : l = <<x, y>>
  OBVIOUS
<1>3. 1 \in DOMAIN l /\ l[1] = x /\ 2 \in DOMAIN l /\ l[2] = y
  BY <1>2
<1>4. disturbed' = disturbed \cup
           {s \in Places : OpenCounts(s) # {} /\ \E i \in DOMAIN l : l[i].section = s}
  BY <1>2 DEF PostDocument
<1>5. x.section \in Places /\ y.section \in Places /\ disturbed \subseteq Places
  BY DEF LineRows, StockRows
<1> QED BY <1>1, <1>3, <1>4, <1>5

\* What holds after any new document but a count's.
LEMMA NewDocument ==
  ASSUME StockInvariant, now' = now, counts' = counts, disturbed \subseteq disturbed',
         NEW New, NEW m, m = NewDoc, NEW doc, doc # "count", Posted(New, m, doc),
         \E f \in New : New = {f} \/ New = {f, f + 1},
         \A i \in New : \E x \in LineRows : ledger'[i] = x /\ x.reversal = FALSE /\ LineHolds(x)',
         \A s \in Rooms, d \in Nat : Adjusted(s, d)' = Adjusted(s, d)
  PROVE  LinesHold' /\ DocumentsStand' /\ CountsStand' /\ LossesHold' /\ Onward
<1>1. StockRows /\ LinesHold /\ DocumentsStand /\ CountsStand /\ LossesHold
  BY DEF StockInvariant
<1>2. Onward
  BY <1>1, SameDay
<1>3. Added(New) /\ CountsKept
  BY DEF Posted, CountsKept
<1>4. LinesHold'
  BY <1>1, <1>2, <1>3, LinesStay
<1>5. DocumentsStand'
  BY <1>1, NewDocumentStands
<1>6. CountsStand'
  BY <1>1, <1>2, CountsStandStill
<1>7. \A s, d : Standing(s, d)' = Standing(s, d)
  BY <1>3, StandingStays
<1>8. LossesHold'
  BY <1>1, <1>2, <1>3, <1>7, LossesStay
<1> QED BY <1>2, <1>4, <1>5, <1>6, <1>8

LEMMA DeliverKeeps ==
  ASSUME StockInvariant, Deliver
  PROVE  StockInvariant'
<1>1. StockRows /\ CountsHold /\ ShelvesHold /\ SlipsHold /\ DocumentsStand
  BY DEF StockInvariant
<1>2. PICK m, t : m = NewDoc /\ t = Today
  OBVIOUS
<1>3. m \in Nat /\ t \in Nat
  BY <1>1, <1>2, NewDocIsNew, Bounds
<1>4. PICK x : x = Leg(t, "store", 1, "grn", m)
  OBVIOUS
<1>5. "store" \in Places /\ "grn" \in AnyDoc
  BY DEF Places, AnyDoc
<1>6. /\ x \in LineRows /\ x.day = t /\ x.section = "store" /\ x.qty = 1 /\ x.doc = "grn" /\ x.id = m
      /\ x.reversal = FALSE
  BY <1>3, <1>4, <1>5 DEF Leg, LineRows
<1>7. PostDocument(<<x>>) /\ now' = now /\ counts' = counts /\ wastes' = wastes /\ stolen' = stolen
      /\ fresh' = fresh /\ late' = late /\ shelf' = [shelf EXCEPT !["store"] = @ + 1]
  BY <1>2, <1>4 DEF Deliver
<1>8. /\ ledger' = Append(ledger, x) /\ disturbed \subseteq disturbed' /\ disturbed' \subseteq Places
      /\ OpenCounts("store") # {} => "store" \in disturbed'
  BY <1>1, <1>6, <1>7, PostedOne
<1>9. PICK f : f = Len(ledger) + 1
  OBVIOUS
<1>10. /\ Posted({f}, m, "grn") /\ ledger'[f] = x /\ ledger' \in Seq(LineRows)
       /\ \A s : Book(s) \in Int /\ Book(s)' = Book(s) + (IF s = "store" THEN 1 ELSE 0)
       /\ \A s : \A d \in Nat : Adjusted(s, d)' = Adjusted(s, d)
       /\ \A s : Logged(s)' = Logged(s)
  <2>1. /\ Posted({Len(ledger) + 1}, x.id, x.doc) /\ ledger'[Len(ledger) + 1] = x
        /\ ledger' \in Seq(LineRows)
    BY <1>1, <1>6, <1>8, OneMoves
  <2>2. ASSUME NEW s PROVE Book(s) \in Int /\ Book(s)' = Book(s) + (IF s = "store" THEN 1 ELSE 0)
    BY <1>1, <1>6, <1>8, OneMoves
  <2>3. ASSUME NEW s, NEW d \in Nat PROVE Adjusted(s, d)' = Adjusted(s, d)
    BY <1>1, <1>6, <1>8, OneMoves
  <2>4. ASSUME NEW s PROVE Logged(s)' = Logged(s)
    BY <1>1, <1>6, <1>8, OneMoves
  <2> QED BY <1>6, <1>9, <2>1, <2>2, <2>3, <2>4
<1>11. /\ Onward /\ Today' = t /\ Calendar(now)' = Calendar(now) /\ Calendar(now) \in Nat
  BY <1>1, <1>2, <1>7, <1>8, SameDay
<1>12. LineHolds(x)'
  BY <1>3, <1>6, <1>11 DEF LineHolds
<1>13. LinesHold' /\ DocumentsStand' /\ CountsStand' /\ LossesHold'
  <2>1. \A i \in {f} : \E z \in LineRows : ledger'[i] = z /\ z.reversal = FALSE /\ LineHolds(z)'
    BY <1>6, <1>10, <1>12
  <2>2. \E i \in {f} : {f} = {i} \/ {f} = {i, i + 1}
    OBVIOUS
  <2> QED BY <1>2, <1>7, <1>8, <1>10, <2>1, <2>2, NewDocument
<1>14. /\ shelf' \in [Places -> Nat]
       /\ \A s \in Places : shelf'[s] = shelf[s] + (IF s = "store" THEN 1 ELSE 0) /\ shelf[s] \in Nat
  <2>1. shelf \in [Places -> Nat] /\ shelf["store"] + 1 \in Nat
    BY <1>1, <1>5 DEF StockRows
  <2> QED BY <1>5, <1>7, <2>1
<1>15. StockRows'
  BY <1>1, <1>7, <1>8, <1>10, <1>14 DEF StockRows
<1>16. \A s \in Rooms : stolen[s] \in Nat /\ fresh[s] \in Nat
  BY <1>1 DEF StockRows
<1>17. CountsHold'
  <2>1. ASSUME NEW s \in Rooms \ disturbed', OpenCounts(s) # {} PROVE Book(s)' = Book(s)
    BY <1>8, <1>10, <2>1
  <2> QED BY <1>1, <1>7, <1>11, <1>16, <2>1, CountsHoldStill
<1>18. ShelvesHold'
  <2> SUFFICES ASSUME NEW s \in Rooms \ disturbed' PROVE Book(s)' = shelf'[s] + stolen'[s] + fresh'[s]
    BY DEF ShelvesHold
  <2>1. s \in Rooms \ disturbed /\ s \in Places
    BY <1>8, RoomsArePlaces
  <2>2. Book(s) = shelf[s] + stolen[s] + fresh[s]
    BY <1>1, <2>1 DEF ShelvesHold
  <2>3. Book(s)' = Book(s) + (IF s = "store" THEN 1 ELSE 0)
    BY <1>10
  <2>4. shelf'[s] = shelf[s] + (IF s = "store" THEN 1 ELSE 0) /\ shelf[s] \in Nat
    BY <1>14, <2>1
  <2>5. stolen'[s] = stolen[s] /\ fresh'[s] = fresh[s] /\ stolen[s] \in Nat /\ fresh[s] \in Nat
    BY <1>7, <1>16
  <2> QED BY <2>2, <2>3, <2>4, <2>5
<1>19. SlipsHold'
  <2>1. Calendar(now)' \in Int /\ Calendar(now) \in Int /\ Calendar(now) <= Calendar(now)'
    BY <1>11
  <2> QED BY <1>1, <1>7, <1>10, <2>1, SlipsHoldStill
<1> QED BY <1>13, <1>15, <1>17, <1>18, <1>19 DEF StockInvariant

\* An issue or a return: one piece leaves one place for another.
LEMMA HandoverKeeps ==
  ASSUME StockInvariant, NEW a \in Rooms, NEW b \in Places, NEW doc,
         \/ doc = "issue" /\ a = "store" /\ b = "kitchen"
         \/ doc = "return" /\ a = "kitchen" /\ b = "quarantine",
         PostDocument(<<Leg(Today, a, -1, doc, NewDoc), Leg(Today, b, 1, doc, NewDoc)>>),
         shelf[a] >= 1, shelf' = [shelf EXCEPT ![a] = @ - 1, ![b] = @ + 1],
         UNCHANGED <<now, wastes, counts, stolen, fresh, late>>
  PROVE  StockInvariant'
<1>1. StockRows /\ CountsHold /\ ShelvesHold /\ SlipsHold /\ DocumentsStand
  BY DEF StockInvariant
<1>2. PICK m, t : m = NewDoc /\ t = Today
  OBVIOUS
<1>3. m \in Nat /\ t \in Nat
  BY <1>1, <1>2, NewDocIsNew, Bounds
<1>4. PICK x, y : x = Leg(t, a, -1, doc, m) /\ y = Leg(t, b, 1, doc, m)
  OBVIOUS
<1>5. a \in Places /\ a # b /\ doc \in AnyDoc
  BY RoomsArePlaces DEF AnyDoc
<1>6. /\ x \in LineRows /\ x.day = t /\ x.section = a /\ x.qty = -1 /\ x.doc = doc /\ x.id = m
      /\ x.reversal = FALSE
      /\ y \in LineRows /\ y.day = t /\ y.section = b /\ y.qty = 1 /\ y.doc = doc /\ y.id = m
      /\ y.reversal = FALSE
  BY <1>3, <1>4, <1>5 DEF Leg, LineRows
<1>7. PostDocument(<<x, y>>) /\ now' = now /\ counts' = counts /\ wastes' = wastes /\ stolen' = stolen
      /\ fresh' = fresh /\ late' = late
  BY <1>2, <1>4
<1>8. /\ ledger' = ledger \o <<x, y>> /\ disturbed \subseteq disturbed' /\ disturbed' \subseteq Places
      /\ OpenCounts(a) # {} => a \in disturbed'
      /\ OpenCounts(b) # {} => b \in disturbed'
  BY <1>1, <1>6, <1>7, PostedTwo
<1>9. PICK f \in Nat : f = Len(ledger) + 1
  BY <1>1 DEF StockRows
<1>10. /\ Posted({f, f + 1}, m, doc) /\ ledger'[f] = x /\ ledger'[f + 1] = y /\ ledger' \in Seq(LineRows)
       /\ \A s : /\ Book(s) \in Int
                 /\ Book(s)' = Book(s) + (IF s = a THEN -1 ELSE 0) + (IF s = b THEN 1 ELSE 0)
       /\ \A s : \A d \in Nat : Adjusted(s, d)' = Adjusted(s, d)
       /\ \A s : Logged(s)' = Logged(s)
  <2>1. x.id = y.id /\ x.doc = y.doc /\ x.doc # "count" /\ x.doc # "wastage"
    BY <1>6
  <2>2. Len(ledger) + 2 = f + 1
    BY <1>1, <1>9 DEF StockRows
  <2>3. /\ Posted({f, f + 1}, m, doc) /\ ledger'[f] = x /\ ledger'[f + 1] = y /\ ledger' \in Seq(LineRows)
    BY <1>1, <1>6, <1>8, <1>9, <2>1, <2>2, TwoMove
  <2>4. ASSUME NEW s
        PROVE  /\ Book(s) \in Int
               /\ Book(s)' = Book(s) + (IF s = a THEN -1 ELSE 0) + (IF s = b THEN 1 ELSE 0)
    BY <1>1, <1>6, <1>8, <2>1, TwoMove
  <2>5. ASSUME NEW s, NEW d \in Nat PROVE Adjusted(s, d)' = Adjusted(s, d)
    BY <1>1, <1>6, <1>8, <2>1, TwoMove
  <2>6. ASSUME NEW s PROVE Logged(s)' = Logged(s)
    BY <1>1, <1>6, <1>8, <2>1, TwoMove
  <2> QED BY <2>3, <2>4, <2>5, <2>6
<1>11. /\ Onward /\ Today' = t /\ Calendar(now)' = Calendar(now) /\ Calendar(now) \in Nat
  BY <1>1, <1>2, <1>7, <1>8, SameDay
<1>12. LineHolds(x)'
  <2>1. x.section # "kitchen" \/ doc = "return"
    BY <1>6
  <2> QED BY <1>3, <1>6, <1>11, <2>1 DEF LineHolds
<1>13. LineHolds(y)'
  <2>1. f \in DOMAIN ledger'
    BY <1>10 DEF Posted, Added
  <2>2. doc = "issue" => SentOut(t)'
    BY <1>6, <1>10, <2>1 DEF SentOut
  <2> QED BY <1>3, <1>6, <1>11, <2>2 DEF LineHolds
<1>14. LinesHold' /\ DocumentsStand' /\ CountsStand' /\ LossesHold'
  <2>1. \A i \in {f, f + 1} : \E z \in LineRows : ledger'[i] = z /\ z.reversal = FALSE /\ LineHolds(z)'
    BY <1>6, <1>10, <1>12, <1>13
  <2>2. \E i \in {f, f + 1} : {f, f + 1} = {i} \/ {f, f + 1} = {i, i + 1}
    OBVIOUS
  <2>3. doc # "count"
    OBVIOUS
  <2> QED BY <1>2, <1>7, <1>8, <1>10, <2>1, <2>2, <2>3, NewDocument
<1>15. /\ shelf' \in [Places -> Nat]
       /\ \A s \in Places : /\ shelf'[s] = shelf[s] + (IF s = a THEN -1 ELSE 0) + (IF s = b THEN 1 ELSE 0)
                            /\ shelf[s] \in Nat
  <2>1. shelf \in [Places -> Nat] /\ shelf[a] - 1 \in Nat /\ shelf[b] + 1 \in Nat
    BY <1>1, <1>5 DEF StockRows
  <2> QED BY <1>5, <2>1
<1>16. StockRows'
  BY <1>1, <1>7, <1>8, <1>10, <1>15 DEF StockRows
<1>17. \A s \in Rooms : stolen[s] \in Nat /\ fresh[s] \in Nat
  BY <1>1 DEF StockRows
<1>18. CountsHold'
  <2>1. ASSUME NEW s \in Rooms \ disturbed', OpenCounts(s) # {} PROVE Book(s)' = Book(s)
    <3>1. s # a /\ s # b
      BY <1>8, <2>1
    <3>2. Book(s)' = Book(s) + 0 + 0 /\ Book(s) \in Int
      BY <1>10, <3>1
    <3> QED BY <3>2
  <2> QED BY <1>1, <1>7, <1>11, <1>17, <2>1, CountsHoldStill
<1>19. ShelvesHold'
  <2> SUFFICES ASSUME NEW s \in Rooms \ disturbed' PROVE Book(s)' = shelf'[s] + stolen'[s] + fresh'[s]
    BY DEF ShelvesHold
  <2>1. s \in Rooms \ disturbed /\ s \in Places
    BY <1>8, RoomsArePlaces
  <2>2. Book(s) = shelf[s] + stolen[s] + fresh[s]
    BY <1>1, <2>1 DEF ShelvesHold
  <2>3. Book(s)' = Book(s) + (IF s = a THEN -1 ELSE 0) + (IF s = b THEN 1 ELSE 0)
    BY <1>10
  <2>4. shelf'[s] = shelf[s] + (IF s = a THEN -1 ELSE 0) + (IF s = b THEN 1 ELSE 0) /\ shelf[s] \in Nat
    BY <1>15, <2>1
  <2>5. stolen'[s] = stolen[s] /\ fresh'[s] = fresh[s] /\ stolen[s] \in Nat /\ fresh[s] \in Nat
    BY <1>7, <1>17
  <2> QED BY <2>2, <2>3, <2>4, <2>5
<1>20. SlipsHold'
  <2>1. Calendar(now)' \in Int /\ Calendar(now) \in Int /\ Calendar(now) <= Calendar(now)'
    BY <1>11
  <2> QED BY <1>1, <1>7, <1>10, <2>1, SlipsHoldStill
<1> QED BY <1>14, <1>16, <1>18, <1>19, <1>20 DEF StockInvariant

LEMMA IssueKeeps ==
  ASSUME StockInvariant, Issue
  PROVE  StockInvariant'
<1>1. "store" \in Rooms /\ "kitchen" \in Places
  BY DEF Rooms, Places
<1>2. /\ PostDocument(<<Leg(Today, "store", -1, "issue", NewDoc), Leg(Today, "kitchen", 1, "issue", NewDoc)>>)
      /\ shelf["store"] >= 1 /\ shelf' = [shelf EXCEPT !["store"] = @ - 1, !["kitchen"] = @ + 1]
      /\ UNCHANGED <<now, wastes, counts, stolen, fresh, late>>
  BY DEF Issue
<1> QED BY <1>1, <1>2, HandoverKeeps

LEMMA ReturnToStoreKeeps ==
  ASSUME StockInvariant, ReturnToStore
  PROVE  StockInvariant'
<1>1. "kitchen" \in Rooms /\ "quarantine" \in Places
  BY DEF Rooms, Places
<1>2. /\ PostDocument(<<Leg(Today, "kitchen", -1, "return", NewDoc),
                        Leg(Today, "quarantine", 1, "return", NewDoc)>>)
      /\ shelf["kitchen"] >= 1 /\ shelf' = [shelf EXCEPT !["kitchen"] = @ - 1, !["quarantine"] = @ + 1]
      /\ UNCHANGED <<now, wastes, counts, stolen, fresh, late>>
  BY DEF ReturnToStore
<1> QED BY <1>1, <1>2, HandoverKeeps

LEMMA NothingPosted ==
  ASSUME StockRows, ledger' = ledger
  PROVE  /\ Added({}) /\ \A s : Book(s)' = Book(s) /\ Book(s) \in Int
         /\ \A s, d : Adjusted(s, d)' = Adjusted(s, d)
         /\ \A s : Logged(s)' = Logged(s)
<1>1. Added({})
  BY DEF Added, StockRows
<1>2. ASSUME NEW s PROVE Book(s)' = Book(s) /\ Logged(s)' = Logged(s) /\ Book(s) \in Int
  <2>1. {i \in DOMAIN ledger : ledger[i].section = s} \in SUBSET DOMAIN ledger
    OBVIOUS
  <2>2. Book(s) \in Int
    BY <2>1, TotalsAdd DEF Book
  <2> QED BY <2>2 DEF Book, Logged, Total, In, Of
<1>3. ASSUME NEW s, NEW d PROVE Adjusted(s, d)' = Adjusted(s, d)
  BY DEF Adjusted, Total, Lines
<1> QED BY <1>1, <1>2, <1>3

LEMMA QuietStep ==
  ASSUME StockInvariant, ledger' = ledger, counts' = counts, wastes' = wastes, disturbed' = disturbed,
         now' \in {now, now + 1}
  PROVE  /\ LinesHold' /\ DocumentsStand' /\ CountsStand' /\ LossesHold' /\ SlipsHold' /\ Onward
         /\ \A s : Book(s)' = Book(s)
<1>1. StockRows /\ LinesHold /\ DocumentsStand /\ CountsStand /\ LossesHold /\ SlipsHold
  BY DEF StockInvariant
<1>2. now \in Nat \ {0} /\ now' \in Nat \ {0} /\ now <= now'
  BY <1>1, Bounds
<1>3. /\ Today' = BusinessDay(now') /\ Today' \in Nat /\ Today \in Nat /\ Today <= Today'
      /\ Calendar(now)' = Calendar(now') /\ Calendar(now)' \in Int /\ Calendar(now) \in Int
      /\ Calendar(now) <= Calendar(now)'
  <2>1. Today' = BusinessDay(now') /\ Calendar(now)' = Calendar(now')
    BY DEF Today
  <2>2. /\ Calendar(now) \in Nat /\ Calendar(now') \in Nat /\ BusinessDay(now) \in Nat
        /\ BusinessDay(now') \in Nat
        /\ Calendar(now) <= Calendar(now') /\ BusinessDay(now) <= BusinessDay(now')
    BY <1>2, DaysAreOrdered
  <2> QED BY <2>1, <2>2 DEF Today
<1>4. Onward
  BY <1>3 DEF Onward
<1>5. /\ Added({}) /\ \A s : Book(s)' = Book(s)
      /\ \A s, d : Adjusted(s, d)' = Adjusted(s, d)
      /\ \A s : Logged(s)' = Logged(s)
  BY <1>1, NothingPosted
<1>6. CountsKept
  BY DEF CountsKept
<1>7. LinesHold'
  BY <1>1, <1>4, <1>5, <1>6, LinesStay
<1>8. DocumentsStand'
  BY <1>1, SameDocumentsStand
<1>9. CountsStand'
  BY <1>1, <1>4, CountsStandStill
<1>10. \A s, d : Standing(s, d)' = Standing(s, d)
  BY <1>5, StandingStays
<1>11. LossesHold'
  BY <1>4, <1>1, <1>5, <1>6, <1>10, LossesStay
<1>12. SlipsHold'
  BY <1>1, <1>3, <1>5, SlipsHoldStill
<1> QED BY <1>4, <1>5, <1>7, <1>8, <1>9, <1>11, <1>12

LEMMA TickKeeps ==
  ASSUME StockInvariant, Tick
  PROVE  StockInvariant'
<1>1. StockRows /\ CountsHold /\ ShelvesHold
  BY DEF StockInvariant
<1>2. /\ ledger' = ledger /\ counts' = counts /\ wastes' = wastes /\ disturbed' = disturbed
      /\ now' = now + 1 /\ now < LastTick /\ shelf' = shelf /\ stolen' = stolen /\ fresh' = fresh
      /\ late' = late
  BY DEF Tick
<1>3. /\ LinesHold' /\ DocumentsStand' /\ CountsStand' /\ LossesHold' /\ SlipsHold' /\ Onward
      /\ \A s : Book(s)' = Book(s)
  BY <1>2, QuietStep
<1>4. StockRows'
  <2>1. now' \in 1..LastTick
    BY <1>1, <1>2, StockReportsAssumption DEF StockRows
  <2> QED BY <1>1, <1>2, <2>1 DEF StockRows
<1>5. \A s \in Rooms : stolen[s] \in Nat /\ fresh[s] \in Nat
  BY <1>1 DEF StockRows
<1>6. CountsHold'
  BY <1>1, <1>2, <1>3, <1>5, CountsHoldStill
<1>7. ShelvesHold'
  BY <1>1, <1>2, <1>3 DEF ShelvesHold
<1> QED BY <1>3, <1>4, <1>6, <1>7 DEF StockInvariant

\* Something leaves a shelf and the books do not know.
LEMMA LossKeeps ==
  ASSUME StockInvariant, NEW s \in Rooms, Spoil(s) \/ Steal(s)
  PROVE  StockInvariant'
<1>1. StockRows /\ CountsHold /\ ShelvesHold
  BY DEF StockInvariant
<1>2. /\ ledger' = ledger /\ counts' = counts /\ wastes' = wastes /\ disturbed' = disturbed /\ now' = now
      /\ late' = late /\ shelf[s] >= 1 /\ shelf' = [shelf EXCEPT ![s] = @ - 1]
      /\ \/ fresh' = [fresh EXCEPT ![s] = @ + 1] /\ stolen' = stolen
         \/ stolen' = [stolen EXCEPT ![s] = @ + 1] /\ fresh' = fresh
  BY DEF Spoil, Steal
<1>3. /\ LinesHold' /\ DocumentsStand' /\ CountsStand' /\ LossesHold' /\ SlipsHold' /\ Onward
      /\ \A r : Book(r)' = Book(r)
  BY <1>2, QuietStep
<1>4. s \in Places /\ shelf \in [Places -> Nat] /\ stolen \in [Rooms -> Nat] /\ fresh \in [Rooms -> Nat]
  BY <1>1, RoomsArePlaces DEF StockRows
<1>5. /\ shelf' \in [Places -> Nat] /\ stolen' \in [Rooms -> Nat] /\ fresh' \in [Rooms -> Nat]
      /\ \A r \in Rooms : /\ shelf'[r] + stolen'[r] + fresh'[r] = shelf[r] + stolen[r] + fresh[r]
                          /\ stolen[r] <= stolen'[r] /\ fresh[r] <= fresh'[r]
                          /\ stolen'[r] \in Int /\ fresh'[r] \in Int
  <2>1. shelf[s] - 1 \in Nat /\ stolen[s] + 1 \in Nat /\ fresh[s] + 1 \in Nat
    BY <1>2, <1>4
  <2>2. \A r \in Rooms : r \in Places
    BY RoomsArePlaces
  <2>3. CASE fresh' = [fresh EXCEPT ![s] = @ + 1] /\ stolen' = stolen
    BY <1>2, <1>4, <2>1, <2>2, <2>3
  <2>4. CASE stolen' = [stolen EXCEPT ![s] = @ + 1] /\ fresh' = fresh
    BY <1>2, <1>4, <2>1, <2>2, <2>4
  <2> QED BY <1>2, <2>3, <2>4
<1>6. StockRows'
  BY <1>1, <1>2, <1>5 DEF StockRows
<1>7. CountsHold'
  BY <1>1, <1>2, <1>3, <1>5, CountsHoldStill
<1>8. ShelvesHold'
  BY <1>1, <1>2, <1>3, <1>5 DEF ShelvesHold
<1> QED BY <1>3, <1>6, <1>7, <1>8 DEF StockInvariant

LEMMA LogWastageKeeps ==
  ASSUME StockInvariant, NEW a \in Rooms, LogWastage(a)
  PROVE  StockInvariant'
<1>1. StockRows /\ CountsHold /\ ShelvesHold /\ SlipsHold /\ DocumentsStand
  BY DEF StockInvariant
<1>2. PICK m, t : m = NewDoc /\ t = Today
  OBVIOUS
<1>3. m \in Nat /\ t \in Nat
  BY <1>1, <1>2, NewDocIsNew, Bounds
<1>4. PICK x : x = Leg(t, a, -1, "wastage", m)
  OBVIOUS
<1>5. a \in Places /\ a # "quarantine" /\ "wastage" \in AnyDoc
  BY RoomsArePlaces DEF AnyDoc
<1>6. /\ x \in LineRows /\ x.day = t /\ x.section = a /\ x.qty = -1 /\ x.doc = "wastage" /\ x.id = m
      /\ x.reversal = FALSE
  BY <1>3, <1>4, <1>5 DEF Leg, LineRows
<1>7. PICK z : z = [section |-> a, at |-> Calendar(now), id |-> m]
  OBVIOUS
<1>8. /\ ledger' = Append(ledger, x) /\ wastes' = Append(wastes, z)
      /\ now' = now /\ counts' = counts /\ shelf' = shelf /\ stolen' = stolen
      /\ disturbed' = IF fresh[a] = 0 \/ OpenCounts(a) # {} THEN disturbed \cup {a} ELSE disturbed
      /\ IF fresh[a] > 0 THEN fresh' = [fresh EXCEPT ![a] = @ - 1] /\ late' = late
                         ELSE late' = [late EXCEPT ![a] = @ - 1] /\ fresh' = fresh
      /\ fresh[a] + late[a] > 0
  BY <1>2, <1>4, <1>7 DEF LogWastage
<1>9. /\ disturbed \subseteq disturbed' /\ disturbed' \subseteq Places
      /\ fresh[a] = 0 \/ OpenCounts(a) # {} => a \in disturbed'
  BY <1>1, <1>5, <1>8 DEF StockRows
<1>10. PICK f : f = Len(ledger) + 1
  OBVIOUS
<1>11. /\ Posted({f}, m, "wastage") /\ ledger'[f] = x /\ ledger' \in Seq(LineRows)
       /\ \A s : Book(s) \in Int /\ Book(s)' = Book(s) + (IF s = a THEN -1 ELSE 0)
       /\ \A s : \A d \in Nat : Adjusted(s, d)' = Adjusted(s, d)
       /\ \A s : Logged(s) \in Int /\ Logged(s)' = Logged(s) + (IF s = a THEN -1 ELSE 0)
  <2>1. /\ Posted({f}, m, "wastage") /\ ledger'[f] = x /\ ledger' \in Seq(LineRows)
    BY <1>1, <1>6, <1>8, <1>10, OneMoves
  <2>2. ASSUME NEW s PROVE Book(s) \in Int /\ Book(s)' = Book(s) + (IF s = a THEN -1 ELSE 0)
    BY <1>1, <1>6, <1>8, OneMoves
  <2>3. ASSUME NEW s, NEW d \in Nat PROVE Adjusted(s, d)' = Adjusted(s, d)
    BY <1>1, <1>6, <1>8, OneMoves
  <2>4. ASSUME NEW s PROVE Logged(s) \in Int /\ Logged(s)' = Logged(s) + (IF s = a THEN -1 ELSE 0)
    BY <1>1, <1>6, <1>8, OneMoves
  <2> QED BY <2>1, <2>2, <2>3, <2>4
<1>12. /\ Onward /\ Today' = t /\ Calendar(now)' = Calendar(now) /\ Calendar(now) \in Nat
  BY <1>1, <1>2, <1>8, <1>9, SameDay
<1>13. LineHolds(x)'
  BY <1>3, <1>5, <1>6, <1>12 DEF LineHolds
<1>14. LinesHold' /\ DocumentsStand' /\ CountsStand' /\ LossesHold'
  <2>1. \A i \in {f} : \E y \in LineRows : ledger'[i] = y /\ y.reversal = FALSE /\ LineHolds(y)'
    BY <1>6, <1>11, <1>13
  <2>2. \E i \in {f} : {f} = {i} \/ {f} = {i, i + 1}
    OBVIOUS
  <2> QED BY <1>2, <1>8, <1>9, <1>11, <2>1, <2>2, NewDocument
<1>15. /\ fresh' \in [Rooms -> Nat] /\ late' \in [Rooms -> Nat]
       /\ \A s \in Rooms : s # a \/ fresh[a] = 0 => fresh'[s] = fresh[s]
       /\ fresh[a] # 0 => fresh'[a] = fresh[a] - 1
       /\ \A s \in Rooms : stolen[s] \in Nat /\ fresh[s] \in Nat
  <2>1. fresh \in [Rooms -> Nat] /\ late \in [Rooms -> Nat] /\ stolen \in [Rooms -> Nat]
    BY <1>1 DEF StockRows
  <2>2. fresh[a] \in Nat /\ late[a] \in Nat
    BY <2>1
  <2>3. CASE fresh[a] > 0
    <3>1. fresh[a] - 1 \in Nat
      BY <2>2, <2>3
    <3> QED BY <1>8, <2>1, <2>2, <2>3, <3>1
  <2>4. CASE fresh[a] = 0
    <3>1. late[a] - 1 \in Nat
      BY <1>8, <2>2, <2>4
    <3> QED BY <1>8, <2>1, <2>2, <2>4, <3>1
  <2> QED BY <2>2, <2>3, <2>4
<1>16. z \in WasteRows /\ z.section = a /\ z.at = Calendar(now)
  BY <1>3, <1>7, <1>12 DEF WasteRows
<1>17. PICK W : W = wastes'
  OBVIOUS
<1>18. /\ W \in Seq(WasteRows) /\ Len(wastes) + 1 \notin DOMAIN wastes
       /\ DOMAIN W = DOMAIN wastes \cup {Len(wastes) + 1} /\ IsFiniteSet(DOMAIN wastes)
       /\ W[Len(wastes) + 1] = z /\ \A w \in DOMAIN wastes : W[w] = wastes[w] /\ wastes[w] \in WasteRows
  <2>1. wastes \in Seq(WasteRows) /\ W = Append(wastes, z)
    BY <1>1, <1>8, <1>17 DEF StockRows
  <2>2. DOMAIN wastes = 1..Len(wastes) /\ Len(wastes) \in Nat
    BY <2>1
  <2>3. IsFiniteSet(DOMAIN wastes)
    BY <2>2, FS_Interval
  <2>4. \A w \in DOMAIN wastes : wastes[w] \in WasteRows
    BY <2>1
  <2> QED BY <1>16, <2>1, <2>3, <2>4, RowAdded
<1>19. StockRows'
  BY <1>1, <1>8, <1>9, <1>11, <1>15, <1>17, <1>18 DEF StockRows
<1>20. CountsHold'
  <2>1. ASSUME NEW s \in Rooms \ disturbed', OpenCounts(s) # {}
        PROVE  Book(s)' = Book(s) /\ fresh[s] <= fresh'[s] /\ fresh'[s] \in Int
    <3>1. s # a
      BY <1>9, <2>1
    <3>2. Book(s)' = Book(s) + 0 /\ Book(s) \in Int
      BY <1>11, <3>1
    <3> QED BY <1>15, <2>1, <3>1, <3>2
  <2>2. \A s \in Rooms : stolen[s] <= stolen'[s] /\ stolen'[s] \in Int
    BY <1>8, <1>15
  <2>3. \A s \in Rooms \ disturbed' :
            OpenCounts(s) = {} \/ (Book(s)' = Book(s) /\ fresh[s] <= fresh'[s] /\ fresh'[s] \in Int)
    BY <2>1
  <2>4. counts' = counts
    BY <1>8
  <2> QED BY <1>1, <1>12, <2>2, <2>3, <2>4, CountsHoldStill
<1>21. ShelvesHold'
  <2> SUFFICES ASSUME NEW s \in Rooms \ disturbed' PROVE Book(s)' = shelf'[s] + stolen'[s] + fresh'[s]
    BY DEF ShelvesHold
  <2>1. s \in Rooms \ disturbed /\ s \in Places
    BY <1>9, RoomsArePlaces
  <2>2. Book(s) = shelf[s] + stolen[s] + fresh[s]
    BY <1>1, <2>1 DEF ShelvesHold
  <2>3. Book(s)' = Book(s) + (IF s = a THEN -1 ELSE 0)
    BY <1>11
  <2>4. fresh'[s] = fresh[s] + (IF s = a THEN -1 ELSE 0) /\ fresh[s] \in Nat /\ stolen[s] \in Nat
    BY <1>9, <1>15
  <2>5. shelf[s] \in Nat
    BY <1>1, <2>1 DEF StockRows
  <2> QED BY <1>8, <2>2, <2>3, <2>4, <2>5
<1>22. SlipsHold'
  <2>1. ASSUME NEW w \in DOMAIN W PROVE W[w].at <= Calendar(now)
    BY <1>1, <1>12, <1>16, <1>18, <2>1 DEF SlipsHold
  <2>2. ASSUME NEW s \in Rooms PROVE Cardinality(Slips(s)') + Logged(s)' = 0
    <3>1. PICK A, B, l : A = Slips(s) /\ B = Slips(s)' /\ l = Len(wastes) + 1
      OBVIOUS
    <3>2. A \subseteq DOMAIN wastes /\ l \notin A
      BY <1>18, <3>1 DEF Slips
    <3>3. IsFiniteSet(A)
      BY <1>18, <3>2, FS_Subset
    <3>4. Cardinality(A) \in Nat /\ Cardinality(A \cup {l}) = Cardinality(A) + 1
      BY <3>2, <3>3, FS_CardinalityType, FS_AddElement
    <3>5. Cardinality(A) + Logged(s) = 0
      BY <1>1, <3>1 DEF SlipsHold
    <3>6. B = {w \in DOMAIN W : W[w].section = s}
      BY <1>17, <3>1 DEF Slips
    <3>7. CASE s = a
      <4>1. B = A \cup {l}
        BY <1>16, <1>18, <3>1, <3>6, <3>7 DEF Slips
      <4>2. Logged(s)' = Logged(s) - 1 /\ Logged(s) \in Int
        BY <1>11, <3>7
      <4> QED BY <3>1, <3>4, <3>5, <4>1, <4>2
    <3>8. CASE s # a
      <4>1. B = A
        BY <1>16, <1>18, <3>1, <3>6, <3>8 DEF Slips
      <4>2. Logged(s)' = Logged(s) + 0 /\ Logged(s) \in Int
        BY <1>11, <3>8
      <4> QED BY <3>1, <3>5, <4>1, <4>2
    <3> QED BY <3>7, <3>8
  <2>3. \A w \in DOMAIN wastes' : wastes'[w].at <= Calendar(now)'
    BY <1>12, <1>17, <2>1
  <2> QED BY <2>2, <2>3 DEF SlipsHold
<1> QED BY <1>14, <1>19, <1>20, <1>21, <1>22 DEF StockInvariant

\* A count that is not closed stands for nothing yet.
LEMMA OpenStandsForNothing ==
  ASSUME StockRows, ledger' = ledger, CountsKept,
         \A c \in DOMAIN counts' : counts'[c].closed => c \in DOMAIN counts /\ counts[c].closed
  PROVE  \A s, d : Standing(s, d)' = Standing(s, d)
<1>1. \A c \in DOMAIN counts' : counts'[c].closed => c \in DOMAIN counts /\ counts[c] = counts'[c]
  BY DEF CountsKept
<1>2. \A c \in DOMAIN counts : counts[c].closed => c \in DOMAIN counts' /\ counts[c] = counts'[c]
  BY DEF CountsKept
<1> SUFFICES ASSUME NEW s, NEW d PROVE Standing(s, d)' = Standing(s, d)
  OBVIOUS
<1> QED BY <1>1, <1>2 DEF Standing

LEMMA StartCountKeeps ==
  ASSUME StockInvariant, NEW a \in Rooms, StartCount(a)
  PROVE  StockInvariant'
<1>1. /\ StockRows /\ LinesHold /\ DocumentsStand /\ CountsStand /\ CountsHold /\ ShelvesHold
      /\ LossesHold /\ SlipsHold
  BY DEF StockInvariant
<1>2. PICK n : n = [id |-> NewDoc, section |-> a, day |-> Today, expected |-> Book(a),
            counted |-> NotCounted, stolen |-> 0, fresh |-> 0, closed |-> FALSE]
  OBVIOUS
<1>3. /\ counts' = Append(counts, n) /\ ledger' = ledger /\ now' = now /\ wastes' = wastes /\ shelf' = shelf
      /\ stolen' = stolen /\ fresh' = fresh /\ late' = late /\ disturbed' = disturbed
      /\ \A c \in DOMAIN counts : counts[c].closed
  BY <1>2 DEF StartCount
<1>4. /\ Added({}) /\ \A s : Book(s)' = Book(s) /\ Book(s) \in Int
      /\ \A s, d : Adjusted(s, d)' = Adjusted(s, d)
      /\ \A s : Logged(s)' = Logged(s)
  BY <1>1, <1>3, NothingPosted
<1>5. /\ Onward /\ Today' = Today /\ Today \in Nat
      /\ Calendar(now)' = Calendar(now) /\ Calendar(now) \in Nat
  BY <1>1, <1>3, SameDay
<1>6. /\ n \in CountRows /\ n.id = NewDoc /\ n.section = a /\ n.day = Today /\ n.expected = Book(a)
      /\ n.counted = NotCounted /\ n.closed = FALSE
  <2>1. PICK m, t, b : m = NewDoc /\ t = Today /\ b = Book(a)
    OBVIOUS
  <2>2. m \in Nat /\ t \in Nat /\ b \in Int
    BY <1>1, <1>4, <1>5, <2>1, NewDocIsNew
  <2>3. n = [id |-> m, section |-> a, day |-> t, expected |-> b,
             counted |-> NotCounted, stolen |-> 0, fresh |-> 0, closed |-> FALSE]
    BY <1>2, <2>1
  <2>4. /\ n \in CountRows /\ n.id = m /\ n.section = a /\ n.day = t /\ n.expected = b
        /\ n.counted = NotCounted /\ n.closed = FALSE
    BY <2>2, <2>3 DEF CountRows
  <2> QED BY <2>1, <2>4
<1>7. PICK M, k : M = counts' /\ k = Len(counts) + 1
  OBVIOUS
<1>8. /\ M \in Seq(CountRows) /\ k \notin DOMAIN counts /\ DOMAIN M = DOMAIN counts \cup {k}
      /\ M[k] = n /\ \A c \in DOMAIN counts : M[c] = counts[c]
  <2>1. counts \in Seq(CountRows) /\ M = Append(counts, n)
    BY <1>1, <1>3, <1>7 DEF StockRows
  <2> QED BY <1>6, <1>7, <2>1, RowAdded
<1>9. CountsKept
  BY <1>7, <1>8 DEF CountsKept
<1>10. StockRows'
  BY <1>1, <1>3, <1>7, <1>8 DEF StockRows
<1>11. LinesHold'
  BY <1>1, <1>4, <1>5, <1>9, LinesStay
<1>12. DocumentsStand'
  BY <1>1, <1>3, <1>6, SameDocumentsStand
<1>13. CountsStand'
  <2>1. \A c \in DOMAIN counts : counts[c].id # n.id
    BY <1>1, <1>6, NewDocIsNew DEF CountIds
  <2>2. \A c, e \in DOMAIN M : M[c].id = M[e].id => c = e
    BY <1>1, <1>8, <2>1 DEF CountsStand
  <2>3. \A c, e \in DOMAIN M : ~M[c].closed /\ ~M[e].closed => c = e
    BY <1>3, <1>8
  <2>4. \A c \in DOMAIN M : M[c].day <= Today'
    BY <1>1, <1>5, <1>6, <1>8 DEF CountsStand
  <2> QED BY <1>7, <2>2, <2>3, <2>4 DEF CountsStand
<1>14. CountsHold'
  <2>1. ASSUME NEW c \in DOMAIN counts PROVE CountHolds(counts[c])
    BY <1>1 DEF CountsHold
  <2>2. ASSUME NEW c \in DOMAIN M PROVE CountHolds(M[c])
    <3>1. CASE c = k
      <4>1. CountHolds(n)
        BY <1>6 DEF CountHolds
      <4> QED BY <1>8, <3>1, <4>1
    <3>2. CASE c # k
      BY <1>8, <2>1, <3>2
    <3> QED BY <3>1, <3>2
  <2>3. \A c \in DOMAIN counts' : CountHolds(counts[c])'
    BY <1>3, <1>7, <2>2 DEF CountHolds, Book, Total
  <2> QED BY <2>3 DEF CountsHold
<1>15. ShelvesHold'
  BY <1>1, <1>3, <1>4 DEF ShelvesHold
<1>16. LossesHold'
  <2>1. \A c \in DOMAIN counts' : counts'[c].closed => c \in DOMAIN counts /\ counts[c].closed
    BY <1>3, <1>6, <1>7, <1>8
  <2>2. \A s, d : Standing(s, d)' = Standing(s, d)
    BY <1>1, <1>3, <1>9, <2>1, OpenStandsForNothing
  <2> QED BY <1>1, <1>4, <1>5, <1>9, <2>2, LossesStay
<1>17. SlipsHold'
  BY <1>1, <1>3, <1>4, <1>5, SlipsHoldStill
<1> QED BY <1>10, <1>11, <1>12, <1>13, <1>14, <1>15, <1>16, <1>17 DEF StockInvariant

LEMMA EnterCountKeeps ==
  ASSUME StockInvariant, NEW k \in DOMAIN counts, EnterCount(k)
  PROVE  StockInvariant'
<1>1. /\ StockRows /\ LinesHold /\ DocumentsStand /\ CountsStand /\ CountsHold /\ ShelvesHold
      /\ LossesHold /\ SlipsHold
  BY DEF StockInvariant
<1>2. PICK a : a = counts[k].section
  OBVIOUS
<1>3. PICK n : n = [counts[k] EXCEPT !.counted = shelf[a], !.stolen = stolen[a], !.fresh = fresh[a]]
  OBVIOUS
<1>4. /\ a \in Rooms /\ a \in Places /\ counts[k] \in CountRows /\ shelf[a] \in Nat
      /\ stolen[a] \in Nat /\ fresh[a] \in Nat
  BY <1>1, <1>2, CountsAreCounts, RoomsArePlaces DEF StockRows
<1>5. /\ ~counts[k].closed /\ counts[k].counted = NotCounted
      /\ ledger' = ledger /\ now' = now /\ wastes' = wastes /\ shelf' = shelf
      /\ stolen' = stolen /\ fresh' = fresh /\ late' = late /\ disturbed' = disturbed
  BY DEF EnterCount
<1>6. /\ n \in CountRows /\ n.id = counts[k].id /\ n.section = a /\ n.day = counts[k].day
      /\ n.expected = counts[k].expected /\ n.counted = shelf[a] /\ n.stolen = stolen[a]
      /\ n.fresh = fresh[a]
      /\ n.closed = counts[k].closed
  BY <1>2, <1>3, <1>4 DEF CountRows
<1>7. counts' = [counts EXCEPT ![k] = n]
  BY <1>2, <1>3 DEF EnterCount
<1>8. counts' \in Seq(CountRows) /\ DOMAIN counts' = DOMAIN counts /\ counts'[k] = n
      /\ \A c \in DOMAIN counts : c # k => counts'[c] = counts[c]
  BY <1>1, <1>6, <1>7 DEF StockRows
<1>9. /\ Added({}) /\ \A s : Book(s)' = Book(s) /\ Book(s) \in Int
      /\ \A s, d : Adjusted(s, d)' = Adjusted(s, d)
      /\ \A s : Logged(s)' = Logged(s)
  BY <1>1, <1>5, NothingPosted
<1>10. /\ Onward /\ Today' = Today /\ Today \in Nat
       /\ Calendar(now)' = Calendar(now) /\ Calendar(now) \in Nat
  BY <1>1, <1>5, SameDay
<1>11. CountsKept
  BY <1>5, <1>8 DEF CountsKept
<1>12. \A e \in DOMAIN counts : /\ counts'[e].id = counts[e].id /\ counts'[e].day = counts[e].day
                                /\ counts'[e].closed = counts[e].closed
  BY <1>6, <1>8
<1>13. StockRows'
  BY <1>1, <1>5, <1>8 DEF StockRows
<1>14. LinesHold'
  BY <1>1, <1>9, <1>10, <1>11, LinesStay
<1>15. DocumentsStand'
  BY <1>1, <1>5, <1>8, <1>12, SameDocumentsStand
<1>16. CountsStand'
  BY <1>1, <1>8, <1>10, <1>12, ChangedCountStands
<1>17. CountsHold'
  <2>1. CountHolds(n)
    <3>1. a \notin disturbed => counts[k].expected = Book(a)
      <4>1. CountHolds(counts[k])
        BY <1>1 DEF CountsHold
      <4> QED BY <1>2, <1>5, <4>1 DEF CountHolds
    <3>2. a \notin disturbed => Book(a) = shelf[a] + stolen[a] + fresh[a]
      BY <1>1, <1>4 DEF ShelvesHold
    <3>3. shelf[a] # NotCounted
      BY <1>4 DEF NotCounted
    <3> QED BY <1>4, <1>5, <1>6, <3>1, <3>2, <3>3 DEF CountHolds
  <2>2. ASSUME NEW c \in DOMAIN counts' PROVE CountHolds(counts'[c])
    BY <1>1, <1>8, <2>1, <2>2 DEF CountsHold
  <2>3. \A c \in DOMAIN counts' : CountHolds(counts[c])'
    BY <1>5, <2>2 DEF CountHolds, Book, Total
  <2> QED BY <2>3 DEF CountsHold
<1>18. ShelvesHold'
  BY <1>1, <1>5, <1>9 DEF ShelvesHold
<1>19. LossesHold'
  <2>1. \A c \in DOMAIN counts' : counts'[c].closed => c \in DOMAIN counts /\ counts[c].closed
    BY <1>8, <1>12
  <2>2. \A s, d : Standing(s, d)' = Standing(s, d)
    BY <1>1, <1>5, <1>11, <2>1, OpenStandsForNothing
  <2> QED BY <1>1, <1>9, <1>10, <1>11, <2>2, LossesStay
<1>20. SlipsHold'
  BY <1>1, <1>5, <1>9, <1>10, SlipsHoldStill
<1> QED BY <1>13, <1>14, <1>15, <1>16, <1>17, <1>18, <1>19, <1>20 DEF StockInvariant

\* One count more stands.
LEMMA OneStandsMore ==
  ASSUME NEW R, IsFiniteSet(R), NEW k, k \notin R, NEW f \in [R \cup {k} -> Int]
  PROVE  SumFunction(f) = SumFunction([c \in R |-> f[c]]) + f[k]
<1>1. PICK Q : Q = R \cup {k}
  OBVIOUS
<1>2. IsFiniteSet(Q) /\ k \in Q /\ f \in [Q -> Int] /\ Q \ {k} = R
  <2>1. IsFiniteSet(R \cup {k})
    BY ONLY IsFiniteSet(R), FS_AddElement
  <2>2. k \in R \cup {k} /\ (R \cup {k}) \ {k} = R
    OBVIOUS
  <2>3. f \in [Q -> Int]
    BY ONLY <1>1, f \in [R \cup {k} -> Int]
  <2> QED BY ONLY <1>1, <2>1, <2>2, <2>3
<1>3. SumFunction(f) = f[k] + SumFunction([y \in Q \ {k} |-> f[y]])
  BY ONLY <1>2, SumTake, ZenonT(40)
<1>4. SumFunction([y \in Q \ {k} |-> f[y]]) = SumFunction([c \in R |-> f[c]])
  <2>1. PICK P : P = Q \ {k}
    OBVIOUS
  <2>2. P = R
    BY ONLY <1>2, <2>1
  <2>3. SumFunction([y \in P |-> f[y]]) = SumFunction([c \in R |-> f[c]])
    BY ONLY <2>2
  <2> QED BY ONLY <2>1, <2>3
<1>5. PICK g : g = [c \in R |-> f[c]]
  OBVIOUS
<1>6. g \in [R -> Int]
  BY <1>5
<1>7. SumFunction(g) \in Int
  BY ONLY IsFiniteSet(R), <1>6, SumType
<1>8. f[k] \in Int
  OBVIOUS
<1> QED BY <1>3, <1>4, <1>5, <1>7, <1>8

LEMMA FindingsGrow ==
  ASSUME StockRows, NEW s \in Rooms, NEW d \in Nat, NEW k \in DOMAIN counts, k \notin Standing(s, d),
         Standing(s, d)' = Standing(s, d) \cup {k},
         \A c \in DOMAIN counts : counts'[c].stolen = counts[c].stolen /\ counts'[c].fresh = counts[c].fresh
  PROVE  Found(s, d)' = Found(s, d) + counts[k].stolen /\ Written(s, d)' = Written(s, d) + counts[k].fresh
<1>1. PICK R : R = Standing(s, d)
  OBVIOUS
<1>2. R \in SUBSET DOMAIN counts /\ IsFiniteSet(R) /\ k \notin R
  BY <1>1, FindingsAdd
<1>3. PICK f, g : f = [c \in R \cup {k} |-> counts[c].stolen] /\ g = [c \in R \cup {k} |-> counts[c].fresh]
  OBVIOUS
<1>4. f \in [R \cup {k} -> Int] /\ g \in [R \cup {k} -> Int]
  BY <1>2, <1>3, CountsAreCounts
<1>5. SumFunction(f) = SumFunction([c \in R |-> f[c]]) + f[k]
  BY ONLY <1>2, <1>4, OneStandsMore
<1>6. SumFunction(g) = SumFunction([c \in R |-> g[c]]) + g[k]
  BY ONLY <1>2, <1>4, OneStandsMore
<1>7. /\ [c \in R |-> f[c]] = [c \in R |-> counts[c].stolen]
      /\ [c \in R |-> g[c]] = [c \in R |-> counts[c].fresh]
  BY <1>3
<1>8. Standing(s, d)' = R \cup {k}
  BY <1>1
<1>9. [c \in R \cup {k} |-> counts'[c].stolen] = f /\ [c \in R \cup {k} |-> counts'[c].fresh] = g
  BY <1>2, <1>3
<1>10. Found(s, d)' = SumFunction(f) /\ Written(s, d)' = SumFunction(g)
  BY <1>8, <1>9 DEF Found, Written
<1>11. Found(s, d) = SumFunction([c \in R |-> f[c]]) /\ Written(s, d) = SumFunction([c \in R |-> g[c]])
  BY <1>1, <1>7 DEF Found, Written
<1>12. f[k] = counts[k].stolen /\ g[k] = counts[k].fresh
  BY <1>3
<1> QED BY <1>5, <1>6, <1>10, <1>11, <1>12

LEMMA AdjustedMoves ==
  ASSUME StockRows, NEW x \in LineRows, ledger' = Append(ledger, x), x.doc = "count", NEW s, NEW d \in Nat
  PROVE  Adjusted(s, d)' = Adjusted(s, d) + (IF x.section = s /\ x.day = d THEN x.qty ELSE 0)
<1>1. \A r : \A e \in Nat : Adjusted(r, e)' = Adjusted(r, e)
         + (IF x.section = r /\ x.doc = "count" /\ x.day = e THEN x.qty ELSE 0)
  BY OneMoves, ZenonT(40)
<1>2. Adjusted(s, d)' = Adjusted(s, d)
         + (IF x.section = s /\ x.doc = "count" /\ x.day = d THEN x.qty ELSE 0)
  BY ONLY <1>1, d \in Nat
<1> QED BY <1>2

LEMMA CloseCountKeeps ==
  ASSUME StockInvariant, NEW k \in DOMAIN counts, CloseCount(k)
  PROVE  StockInvariant'
<1>1. /\ StockRows /\ LinesHold /\ DocumentsStand /\ CountsStand /\ CountsHold /\ ShelvesHold
      /\ LossesHold /\ SlipsHold
  BY DEF StockInvariant
<1>2. PICK n, a, gap : n = counts[k] /\ a = n.section /\ gap = n.counted - n.expected
  OBVIOUS
<1>3. /\ ~n.closed /\ n.counted # NotCounted
      /\ counts' = [counts EXCEPT ![k].closed = TRUE]
      /\ ledger' = IF gap = 0 THEN ledger ELSE Append(ledger, Leg(n.day, a, gap, "count", n.id))
      /\ stolen' = [stolen EXCEPT ![a] = @ - n.stolen]
      /\ fresh' = [fresh EXCEPT ![a] = Max({0, @ - n.fresh})]
      /\ late' = [late EXCEPT ![a] = @ + n.fresh - Max({0, n.fresh - fresh[a]})]
      /\ now' = now /\ wastes' = wastes /\ shelf' = shelf /\ disturbed' = disturbed
  BY <1>2 DEF CloseCount
<1>4. /\ n \in CountRows /\ a \in Rooms /\ a \in Places /\ n.section = a /\ a # "quarantine"
      /\ n.id \in Nat /\ n.day \in Nat /\ n.expected \in Int /\ n.counted \in Nat /\ n.stolen \in Nat
      /\ n.fresh \in Nat /\ gap \in Int /\ n.closed = FALSE
  BY <1>1, <1>2, <1>3, CountsAreCounts, RoomsArePlaces
<1>5. /\ counts' \in Seq(CountRows) /\ DOMAIN counts' = DOMAIN counts
      /\ counts'[k] = [n EXCEPT !.closed = TRUE] /\ \A c \in DOMAIN counts : c # k => counts'[c] = counts[c]
  <2>1. [n EXCEPT !.closed = TRUE] \in CountRows
    BY <1>4 DEF CountRows
  <2>2. counts' = [counts EXCEPT ![k] = [n EXCEPT !.closed = TRUE]]
    BY <1>2, <1>3
  <2> QED BY <1>1, <2>1, <2>2 DEF StockRows
<1>6. \A c \in DOMAIN counts :
         /\ counts'[c].id = counts[c].id /\ counts'[c].section = counts[c].section
         /\ counts'[c].day = counts[c].day
         /\ counts'[c].expected = counts[c].expected /\ counts'[c].counted = counts[c].counted
         /\ counts'[c].stolen = counts[c].stolen /\ counts'[c].fresh = counts[c].fresh
         /\ counts'[c].closed
  <2>1. ASSUME NEW c \in DOMAIN counts, c # k PROVE counts[c].closed
    BY <1>1, <1>2, <1>3, <2>1 DEF CountsStand
  <2>2. LET z == [n EXCEPT !.closed = TRUE]
        IN  /\ z.id = n.id /\ z.section = n.section /\ z.day = n.day /\ z.expected = n.expected
            /\ z.counted = n.counted /\ z.stolen = n.stolen /\ z.fresh = n.fresh /\ z.closed
    BY <1>4 DEF CountRows
  <2>3. /\ counts'[k].id = n.id /\ counts'[k].section = n.section /\ counts'[k].day = n.day
        /\ counts'[k].expected = n.expected /\ counts'[k].counted = n.counted
        /\ counts'[k].stolen = n.stolen /\ counts'[k].fresh = n.fresh /\ counts'[k].closed
    BY <1>5, <2>2
  <2>4. \A c \in DOMAIN counts : c # k => counts'[c] = counts[c] /\ counts[c].closed
    BY <1>5, <2>1
  <2>5. n = counts[k]
    BY <1>2
  <2> QED BY ONLY <2>3, <2>4, <2>5
<1>7. /\ Onward /\ Today' = Today /\ Today \in Nat
      /\ Calendar(now)' = Calendar(now) /\ Calendar(now) \in Nat
  BY <1>1, <1>3, SameDay
<1>8. CountsKept
  BY <1>2, <1>3, <1>5 DEF CountsKept
<1>9. PICK New : /\ Posted(New, n.id, "count") /\ (New = {} \/ \E f \in New : New = {f})
                 /\ \A i \in New : \E x \in LineRows : ledger'[i] = x /\ x.reversal = FALSE /\ LineHolds(x)'
                 /\ \A s : Book(s) \in Int /\ Book(s)' = Book(s) + (IF s = a THEN gap ELSE 0)
                 /\ \A s : \A d \in Nat :
                       Adjusted(s, d)' = Adjusted(s, d) + (IF s = a /\ d = n.day THEN gap ELSE 0)
                 /\ \A s : Logged(s)' = Logged(s)
  <2>1. CASE gap = 0
    <3>1. ledger' = ledger
      BY <1>3, <2>1
    <3>2. /\ Added({}) /\ \A s : Book(s)' = Book(s) /\ Book(s) \in Int
          /\ \A s, d : Adjusted(s, d)' = Adjusted(s, d)
          /\ \A s : Logged(s)' = Logged(s)
      BY <1>1, <3>1, NothingPosted
    <3>3. \A s : \A d \in Nat : Adjusted(s, d) \in Int
      <4> SUFFICES ASSUME NEW s, NEW d \in Nat PROVE Adjusted(s, d) \in Int
        OBVIOUS
      <4>1. Lines(s, {"count"}, d, d) \in SUBSET DOMAIN ledger
        BY DEF Lines
      <4> QED BY <1>1, <4>1, TotalsAdd DEF Adjusted
    <3>4. Posted({}, n.id, "count")
      BY <3>2 DEF Posted
    <3>5. \A s : Book(s) \in Int /\ Book(s)' = Book(s) + (IF s = a THEN gap ELSE 0)
      BY <2>1, <3>2
    <3>6. \A s : \A d \in Nat :
             Adjusted(s, d)' = Adjusted(s, d) + (IF s = a /\ d = n.day THEN gap ELSE 0)
      BY <2>1, <3>2, <3>3
    <3> QED BY <3>2, <3>4, <3>5, <3>6
  <2>2. CASE gap # 0
    <3>1. PICK x : x = Leg(n.day, a, gap, "count", n.id)
      OBVIOUS
    <3>2. /\ x \in LineRows /\ x.day = n.day /\ x.section = a /\ x.qty = gap /\ x.doc = "count"
          /\ x.id = n.id
          /\ x.reversal = FALSE
      BY <1>4, <3>1 DEF Leg, LineRows, AnyDoc
    <3>3. ledger' = Append(ledger, x)
      BY <1>3, <2>2, <3>1
    <3>4. PICK f : f = Len(ledger) + 1
      OBVIOUS
    <3>5. Posted({f}, n.id, "count") /\ ledger'[f] = x
      BY <1>1, <3>2, <3>3, <3>4, OneMoves
    <3>6. ASSUME NEW s PROVE Book(s) \in Int /\ Book(s)' = Book(s) + (IF s = a THEN gap ELSE 0)
      BY <1>1, <3>2, <3>3, OneMoves
    <3>7. ASSUME NEW s, NEW d \in Nat
          PROVE  Adjusted(s, d)' = Adjusted(s, d) + (IF s = a /\ d = n.day THEN gap ELSE 0)
      <4>1. Adjusted(s, d)' = Adjusted(s, d) + (IF x.section = s /\ x.day = d THEN x.qty ELSE 0)
        BY <1>1, <3>2, <3>3, <3>7, AdjustedMoves
      <4>2. (IF x.section = s /\ x.day = d THEN x.qty ELSE 0) = (IF s = a /\ d = n.day THEN gap ELSE 0)
        BY <3>2
      <4> QED BY <4>1, <4>2
    <3>8. ASSUME NEW s PROVE Logged(s)' = Logged(s)
      BY <1>1, <3>2, <3>3, OneMoves
    <3>9. FoundOff(x)'
      <4>1. n.counted \notin {NotCounted, n.expected}
        BY <1>2, <1>3, <1>4, <2>2
      <4> QED BY <1>2, <1>4, <1>5, <1>6, <3>2, <4>1 DEF FoundOff
    <3>10. n.day <= Today
      BY <1>1, <1>2 DEF CountsStand
    <3>11. LineHolds(x)'
      BY <1>4, <1>7, <2>2, <3>2, <3>9, <3>10 DEF LineHolds
    <3> QED BY <3>2, <3>5, <3>6, <3>7, <3>8, <3>11
  <2> QED BY <2>1, <2>2
<1>10. Added(New) /\ ledger' \in Seq(LineRows)
  BY <1>9 DEF Posted, Added
<1>11. LinesHold'
  BY <1>1, <1>7, <1>8, <1>9, <1>10, LinesStay
<1>12. DocumentsStand'
  BY <1>1, <1>2, <1>3, <1>9, ClosedDocumentStands
<1>13. CountsStand'
  BY <1>1, <1>5, <1>6, <1>7, ChangedCountStands
<1>14. /\ CountHolds(n) /\ n.stolen <= stolen[a]
       /\ a \notin disturbed => n.expected = n.counted + n.stolen + n.fresh /\ n.fresh <= fresh[a]
  <2>1. CountHolds(n)
    BY <1>1, <1>2 DEF CountsHold
  <2> QED BY <1>3, <1>4, <2>1 DEF CountHolds
<1>15. /\ stolen' \in [Rooms -> Nat] /\ fresh' \in [Rooms -> Nat] /\ late' \in [Rooms -> Nat]
       /\ \A s \in Rooms : stolen[s] \in Nat /\ fresh[s] \in Nat
       /\ \A s \in Rooms : s # a => stolen'[s] = stolen[s] /\ fresh'[s] = fresh[s]
       /\ stolen'[a] = stolen[a] - n.stolen
       /\ n.fresh <= fresh[a] => fresh'[a] = fresh[a] - n.fresh
  <2>1. stolen \in [Rooms -> Nat] /\ fresh \in [Rooms -> Nat] /\ late \in [Rooms -> Nat]
    BY <1>1 DEF StockRows
  <2>2. PICK p, q : p = fresh[a] - n.fresh /\ q = n.fresh - fresh[a]
    OBVIOUS
  <2>3. p \in Int /\ q \in Int /\ fresh[a] \in Nat /\ late[a] \in Nat /\ stolen[a] \in Nat
    BY <1>4, <2>1, <2>2
  <2>4. Max({0, p}) = (IF p > 0 THEN p ELSE 0) /\ Max({0, q}) = (IF q > 0 THEN q ELSE 0)
    BY <2>3, LargerThanZero
  <2>5. stolen[a] - n.stolen \in Nat
    BY <1>4, <1>14, <2>3
  <2>6. Max({0, p}) \in Nat /\ late[a] + n.fresh - Max({0, q}) \in Nat
        /\ (n.fresh <= fresh[a] => Max({0, p}) = p)
    BY <1>4, <2>2, <2>3, <2>4
  <2>7. /\ fresh' = [fresh EXCEPT ![a] = Max({0, p})]
        /\ late' = [late EXCEPT ![a] = late[a] + n.fresh - Max({0, q})]
    BY <1>3, <2>2
  <2> QED BY <1>3, <1>4, <2>1, <2>2, <2>5, <2>6, <2>7
<1>16. StockRows'
  BY <1>1, <1>3, <1>5, <1>10, <1>15 DEF StockRows
<1>17. CountsHold'
  <2>1. ASSUME NEW c \in DOMAIN counts
        PROVE  /\ counts'[c].section \notin disturbed /\ counts'[c].counted # NotCounted =>
                     counts'[c].expected = counts'[c].counted + counts'[c].stolen + counts'[c].fresh
               /\ counts'[c].counted # NotCounted
    <3>1. CountHolds(counts[c])
      BY <1>1 DEF CountsHold
    <3>2. counts[c].closed => counts[c].counted # NotCounted
      BY <3>1 DEF CountHolds
    <3>3. counts[c].counted # NotCounted
      BY <1>2, <1>3, <1>5, <1>6, <3>2
    <3> QED BY <1>6, <3>1, <3>3 DEF CountHolds
  <2>2. ASSUME NEW c \in DOMAIN counts' PROVE CountHolds(counts[c])'
    BY <1>3, <1>5, <1>6, <2>1, <2>2 DEF CountHolds
  <2> QED BY <2>2 DEF CountsHold
<1>18. ShelvesHold'
  <2> SUFFICES ASSUME NEW s \in Rooms \ disturbed' PROVE Book(s)' = shelf'[s] + stolen'[s] + fresh'[s]
    BY DEF ShelvesHold
  <2>1. s \in Rooms \ disturbed /\ s \in Places
    BY <1>3, RoomsArePlaces
  <2>2. /\ Book(s) = shelf[s] + stolen[s] + fresh[s] /\ shelf[s] \in Nat /\ stolen[s] \in Nat
        /\ fresh[s] \in Nat
    BY <1>1, <1>15, <2>1 DEF ShelvesHold, StockRows
  <2>3. CASE s = a
    <3>1. gap = 0 - n.stolen - n.fresh
      BY <1>2, <1>4, <1>14, <2>1, <2>3
    <3>2. Book(s)' = Book(s) + gap
      BY <1>9, <2>3
    <3>3. stolen'[s] = stolen[s] - n.stolen /\ fresh'[s] = fresh[s] - n.fresh
      BY <1>14, <1>15, <2>1, <2>3
    <3>4. shelf'[s] = shelf[s]
      BY <1>3
    <3>5. PICK b, p, q, r : b = Book(s) /\ p = shelf[s] /\ q = stolen[s] /\ r = fresh[s]
      OBVIOUS
    <3>6. b = p + q + r /\ p \in Nat /\ q \in Nat /\ r \in Nat
      BY <2>2, <3>5
    <3>7. b + gap = p + (q - n.stolen) + (r - n.fresh)
      BY <1>4, <3>1, <3>6
    <3> QED BY <3>2, <3>3, <3>4, <3>5, <3>7
  <2>4. CASE s # a
    <3>1. Book(s)' = Book(s) + 0 /\ Book(s) \in Int
      BY <1>9, <2>4
    <3>2. stolen'[s] = stolen[s] /\ fresh'[s] = fresh[s]
      BY <1>15, <2>1, <2>4
    <3> QED BY <1>3, <2>2, <3>1, <3>2
  <2> QED BY <2>3, <2>4
<1>19. LossesHold'
  <2> SUFFICES ASSUME NEW s \in Rooms \ disturbed', NEW d \in Nat
               PROVE  Adjusted(s, d)' + Found(s, d)' + Written(s, d)' = 0
    BY DEF LossesHold
  <2>1. s \in Rooms \ disturbed /\ Adjusted(s, d) + Found(s, d) + Written(s, d) = 0
        /\ Found(s, d) \in Nat /\ Written(s, d) \in Nat /\ Adjusted(s, d) \in Int
    BY <1>1, <1>3, FindingsAdd DEF LossesHold
  <2>2. \A c \in DOMAIN counts :
            (\E i \in DOMAIN ledger' : ledger'[i].reversal /\ ledger'[i].id = counts[c].id)
        <=> (\E i \in DOMAIN ledger : ledger[i].reversal /\ ledger[i].id = counts[c].id)
    BY <1>9, <1>10 DEF Added
  <2>3. ~\E i \in DOMAIN ledger : ledger[i].reversal /\ ledger[i].id = counts[k].id
    BY <1>1, <1>2, <1>3 DEF DocumentsStand
  <2>4. k \notin Standing(s, d)
    BY <1>2, <1>3 DEF Standing
  <2>5. Standing(s, d)' = {c \in DOMAIN counts : /\ counts[c].section = s /\ counts[c].day = d
             /\ ~\E i \in DOMAIN ledger : ledger[i].reversal /\ ledger[i].id = counts[c].id}
    BY <1>5, <1>6, <2>2 DEF Standing
  <2>6. \A c \in DOMAIN counts : c # k => counts[c].closed
    BY <1>1, <1>2, <1>3 DEF CountsStand
  <2>7. CASE s = a /\ d = n.day
    <3>1. Standing(s, d)' = Standing(s, d) \cup {k}
      BY <1>2, <2>3, <2>5, <2>6, <2>7 DEF Standing
    <3>2. Found(s, d)' = Found(s, d) + n.stolen /\ Written(s, d)' = Written(s, d) + n.fresh
      BY <1>1, <1>2, <1>6, <2>1, <2>4, <3>1, FindingsGrow
    <3>3. Adjusted(s, d)' = Adjusted(s, d) + gap
      BY <1>9, <2>7
    <3>4. gap = 0 - n.stolen - n.fresh
      BY <1>2, <1>4, <1>14, <2>1, <2>7
    <3> QED BY <1>4, <2>1, <3>2, <3>3, <3>4
  <2>8. CASE ~(s = a /\ d = n.day)
    <3>1. Standing(s, d)' = Standing(s, d)
      BY <1>2, <2>5, <2>6, <2>8 DEF Standing
    <3>2. \A c \in Standing(s, d) : counts'[c].stolen = counts[c].stolen /\ counts'[c].fresh = counts[c].fresh
      BY <1>6 DEF Standing
    <3>3. Found(s, d)' = Found(s, d) /\ Written(s, d)' = Written(s, d)
      BY <3>1, <3>2, SameFindings
    <3>4. Adjusted(s, d)' = Adjusted(s, d) + 0
      BY <1>9, <2>8
    <3> QED BY <2>1, <3>3, <3>4
  <2> QED BY <2>7, <2>8
<1>20. SlipsHold'
  <2>1. Calendar(now)' \in Int /\ Calendar(now) \in Int /\ Calendar(now) <= Calendar(now)'
    BY <1>7
  <2>2. \A s \in Rooms : Logged(s)' = Logged(s)
    BY <1>9
  <2> QED BY <1>1, <1>3, <2>1, <2>2, SlipsHoldStill
<1> QED BY <1>11, <1>12, <1>13, <1>16, <1>17, <1>18, <1>19, <1>20 DEF StockInvariant

\* What a reversal posts, and what it gives back to a room.
Mirrored(x) == [x EXCEPT !.qty = 0 - @, !.reversal = TRUE]
HeldAt(i, s) == IF ledger[i].section = s THEN ledger[i].qty ELSE 0
KindOf(id) == ledger[CHOOSE i \in Mine(id) : TRUE].doc
GivenBack(id, s) == SumFunction([i \in Mine(id) |-> HeldAt(i, s)])
Bent(id, doc) == {s \in Places : GivenBack(id, s) # 0 /\ (doc = "count" \/ OpenCounts(s) # {})}

LEMMA MirrorIsALine ==
  ASSUME NEW x \in LineRows, NEW y, y = Mirrored(x)
  PROVE  /\ x.qty \in Int /\ x.day \in Nat
         /\ y \in LineRows /\ y.id = x.id /\ y.doc = x.doc /\ y.section = x.section /\ y.reversal = TRUE
         /\ y.qty = 0 - x.qty /\ y.day = x.day
<1>0. /\ x.qty \in Int /\ x.day \in Nat /\ 0 - x.qty \in Int
      /\ x = [day |-> x.day, section |-> x.section, qty |-> x.qty, doc |-> x.doc, id |-> x.id,
              reversal |-> x.reversal]
      /\ x.section \in Places /\ x.doc \in AnyDoc /\ x.id \in Nat
  BY DEF LineRows
<1>1. y = [day |-> x.day, section |-> x.section, qty |-> 0 - x.qty, doc |-> x.doc, id |-> x.id,
           reversal |-> TRUE]
  BY <1>0 DEF Mirrored
<1>2. PICK q : q = 0 - x.qty
  OBVIOUS
<1>3. y = [day |-> x.day, section |-> x.section, qty |-> q, doc |-> x.doc, id |-> x.id, reversal |-> TRUE]
  BY <1>1, <1>2
<1>4. y \in LineRows /\ y.qty = q
  BY <1>0, <1>2, <1>3 DEF LineRows
<1> QED BY <1>0, <1>2, <1>3, <1>4

LEMMA MirrorHolds ==
  ASSUME NEW x \in LineRows, x.doc # "return", LineHolds(x)', ~x.reversal,
         x.doc = "count" => x.section \in disturbed',
         NEW y, y = Mirrored(x)
  PROVE  /\ y \in LineRows /\ y.id = x.id /\ y.doc = x.doc /\ y.section = x.section /\ y.reversal = TRUE
         /\ y.qty = 0 - x.qty /\ y.day = x.day
         /\ LineHolds(y)'
<1>1. /\ x.qty \in Int /\ x.day \in Nat
      /\ y \in LineRows /\ y.id = x.id /\ y.doc = x.doc /\ y.section = x.section /\ y.reversal = TRUE
      /\ y.qty = 0 - x.qty /\ y.day = x.day
  BY MirrorIsALine
<1>2. y.day <= Today' /\ (y.doc = "grn" => y.section = "store")
  BY <1>1 DEF LineHolds
<1>3. y.doc = "issue" => /\ y.section # "quarantine"
                         /\ y.section = "kitchen" => (y.qty > 0 <=> ~y.reversal)
  BY <1>1 DEF LineHolds
<1>4. y.doc = "wastage" => y.section # "quarantine"
  BY <1>1 DEF LineHolds
<1>5. y.doc = "count" => y.section # "quarantine" /\ y.qty # 0 /\ FoundOff(y)' /\ y.section \in disturbed'
  <2>1. SUFFICES ASSUME y.doc = "count" PROVE y.section # "quarantine" /\ y.qty # 0 /\ FoundOff(y)'
    BY <1>1
  <2>2. x.section # "quarantine" /\ x.qty # 0 /\ FoundOff(x)'
    BY <1>1, <2>1 DEF LineHolds
  <2> QED BY <1>1, <2>2 DEF FoundOff
<1> QED BY <1>1, <1>2, <1>3, <1>4, <1>5 DEF LineHolds

\* The sum over a document of one line, and of two.
LEMMA OneGivesBack ==
  ASSUME StockRows, NEW id, NEW f \in DOMAIN ledger, Mine(id) = {f}, NEW s
  PROVE  GivenBack(id, s) = HeldAt(f, s) /\ HeldAt(f, s) \in Int
<1>1. HeldAt(f, s) \in Int
  BY LinesAreLines DEF HeldAt
<1>2. PICK g, S : g = [i \in {f} |-> HeldAt(i, s)] /\ S = {f}
  OBVIOUS
<1>3. g \in [S -> Int] /\ IsFiniteSet(S) /\ f \in S /\ \A i \in S \ {f} : g[i] = 0
  BY <1>1, <1>2, FS_Singleton
<1>4. SumFunction(g) = g[f]
  BY ONLY <1>3, SumOfOne
<1>5. GivenBack(id, s) = SumFunction(g)
  BY <1>2 DEF GivenBack
<1> QED BY <1>1, <1>2, <1>4, <1>5

LEMMA TwoGiveBack ==
  ASSUME StockRows, NEW id, NEW f \in DOMAIN ledger, f + 1 \in DOMAIN ledger, Mine(id) = {f, f + 1}, NEW s
  PROVE  /\ GivenBack(id, s) = HeldAt(f, s) + HeldAt(f + 1, s)
         /\ HeldAt(f, s) \in Int /\ HeldAt(f + 1, s) \in Int
<1>1. HeldAt(f, s) \in Int /\ HeldAt(f + 1, s) \in Int /\ f \in Nat
  BY LinesAreLines DEF HeldAt
<1>2. PICK h : h = f + 1
  OBVIOUS
<1>3. PICK S : S = {f, h}
  OBVIOUS
<1>4. IsFiniteSet(S) /\ f \in S /\ h \in S /\ f # h /\ S \ {f} = {h} /\ IsFiniteSet({h})
  <2>1. f # h
    BY <1>1, <1>2
  <2>2. IsFiniteSet({f}) /\ IsFiniteSet({h})
    BY FS_Singleton
  <2>3. IsFiniteSet({f} \cup {h})
    BY <2>2, FS_AddElement
  <2>4. S = {f} \cup {h}
    BY <1>3
  <2> QED BY <1>3, <2>1, <2>2, <2>3, <2>4
<1>5. PICK g : g = [i \in S |-> HeldAt(i, s)]
  OBVIOUS
<1>6. PICK e : e = [i \in S \ {f} |-> g[i]]
  OBVIOUS
<1>7. g \in [S -> Int] /\ g[f] = HeldAt(f, s) /\ g[h] = HeldAt(h, s)
  BY <1>1, <1>2, <1>3, <1>5
<1>8. SumFunction(g) = g[f] + SumFunction(e)
  <2>1. IsFiniteSet(S) /\ f \in S /\ g \in [S -> Int]
    BY <1>4, <1>7
  <2>2. SumFunction(g) = g[f] + SumFunction([i \in S \ {f} |-> g[i]])
    BY ONLY <2>1, SumTake
  <2> QED BY <1>6, <2>2
<1>9. PICK T : T = {h}
  OBVIOUS
<1>10. e \in [T -> Int] /\ IsFiniteSet(T) /\ h \in T /\ (\A i \in T \ {h} : e[i] = 0) /\ e[h] = g[h]
  BY <1>4, <1>6, <1>7, <1>9
<1>11. SumFunction(e) = e[h]
  BY ONLY <1>10, SumOfOne
<1>12. GivenBack(id, s) = SumFunction(g)
  BY <1>2, <1>3, <1>5 DEF GivenBack
<1>13. GivenBack(id, s) = HeldAt(f, s) + HeldAt(h, s)
  BY <1>7, <1>8, <1>10, <1>11, <1>12
<1> QED BY <1>1, <1>2, <1>13

\* The reversal's own lines, one or two.
LEMMA FirstOfMine ==
  ASSUME NEW f \in Nat
  PROVE  /\ Min({f}) = f /\ Cardinality({f}) = 1
         /\ Min({f, f + 1}) = f /\ Cardinality({f, f + 1}) = 2
<1>1. Min({f}) = f
  BY DEF Min
<1>2. Min({f, f + 1}) = f
  <2>1. \E x \in {f, f + 1} : \A y \in {f, f + 1} : x <= y
    OBVIOUS
  <2>2. \A x \in {f, f + 1} : (\A y \in {f, f + 1} : x <= y) => x = f
    OBVIOUS
  <2> QED BY <2>1, <2>2 DEF Min
<1>3. Cardinality({f}) = 1
  BY FS_Singleton
<1>4. Cardinality({f, f + 1}) = 2
  <2>1. f + 1 \notin {f} /\ {f} \cup {f + 1} = {f, f + 1}
    OBVIOUS
  <2>2. PICK S, n : S = {f} /\ n = f + 1
    OBVIOUS
  <2>3. IsFiniteSet(S) /\ n \notin S /\ Cardinality(S) = 1
    BY <2>1, <2>2, FS_Singleton
  <2>4. Cardinality(S \cup {n}) = Cardinality(S) + 1
    BY ONLY <2>3, FS_AddElement
  <2> QED BY <2>1, <2>2, <2>3, <2>4
<1> QED BY <1>1, <1>2, <1>3, <1>4

LEMMA ReverseDoes ==
  ASSUME NEW id, Reverse(id), NEW doc, doc = KindOf(id)
  PROVE  /\ \A i \in Mine(id) : ~ledger[i].reversal
         /\ doc # "return"
         /\ ledger' = ledger \o (IF Cardinality(Mine(id)) = 2
                                 THEN <<Mirrored(ledger[Min(Mine(id))]), Mirrored(ledger[Min(Mine(id)) + 1])>>
                                 ELSE <<Mirrored(ledger[Min(Mine(id))])>>)
         /\ doc \in {"grn", "issue"} =>
               /\ \A s \in Places : shelf[s] - GivenBack(id, s) >= 0
               /\ shelf' = [s \in Places |-> shelf[s] - GivenBack(id, s)]
         /\ doc \notin {"grn", "issue"} => shelf' = shelf
         /\ disturbed' = disturbed \cup Bent(id, doc)
         /\ fresh' = IF doc = "wastage" THEN [s \in Rooms |-> fresh[s] - GivenBack(id, s)] ELSE fresh
         /\ now' = now /\ wastes' = wastes /\ counts' = counts /\ stolen' = stolen /\ late' = late
BY DEF Reverse, Mine, GivenBack, HeldAt, Mirrored, KindOf, Bent

\* What the books are told by a reversal, whatever it reverses.
CountedOff(id, a) ==
    \E i \in DOMAIN ledger : ledger[i].id = id /\ FoundOff(ledger[i]) /\ ledger[i].section = a
Undone(New, id, doc, B, a) ==
    /\ Posted(New, id, doc) /\ (\E i \in New : ledger'[i].reversal)
    /\ \A i \in New : \E z \in LineRows : ledger'[i] = z /\ LineHolds(z)'
    /\ \A s \in Places : B[s] \in Int /\ Book(s) \in Int /\ Book(s)' = Book(s) - B[s]
    /\ \A s \in Places, d \in Nat : (doc = "count" /\ s = a) \/ Adjusted(s, d)' = Adjusted(s, d)
    /\ \A s \in Rooms : Logged(s)' = Logged(s)
    /\ doc = "wastage" => \A s \in Places : B[s] <= 0
    /\ doc = "count" => B[a] # 0 /\ CountedOff(id, a)

LEMMA OneUndone ==
  ASSUME StockRows, LinesHold, Onward, CountsKept, NEW id, NEW doc, doc # "return",
         NEW f \in DOMAIN ledger, Mine(id) = {f}, ledger[f].doc = doc, ~ledger[f].reversal,
         ledger' = ledger \o <<Mirrored(ledger[f])>>, 
         doc = "count" => \A s \in Places : GivenBack(id, s) # 0 => s \in disturbed',
         NEW B, B = [s \in Places |-> GivenBack(id, s)]
  PROVE  \E New : Undone(New, id, doc, B, ledger[f].section)
<1>1. PICK x, a : x = ledger[f] /\ a = x.section
  OBVIOUS
<1>2. /\ x \in LineRows /\ a \in Places /\ x.qty \in Int /\ x.id = id /\ x.doc = doc /\ ~x.reversal
      /\ LineHolds(x)
      /\ x.section = a
  BY <1>1, LinesAreLines DEF LinesHold, Mine
<1>3. PICK y : y = Mirrored(x)
  OBVIOUS
<1>4. \A s : GivenBack(id, s) = (IF s = a THEN x.qty ELSE 0)
  BY <1>1, OneGivesBack DEF HeldAt
<1>5. doc = "count" => x.qty # 0 /\ a \in disturbed'
  BY <1>2, <1>4 DEF LineHolds
<1>6. y \in LineRows
  BY <1>2, <1>3, MirrorIsALine
<1>7. ledger' = Append(ledger, y)
  BY <1>1, <1>3, <1>6, MoreLines DEF StockRows
<1>8. PICK k : k = Len(ledger) + 1
  OBVIOUS
<1>9. Posted({k}, y.id, y.doc) /\ ledger'[k] = y
  BY <1>6, <1>7, <1>8, OneMoves
<1>10. LineHolds(x)'
  <2>1. Added({k})
    BY <1>9 DEF Posted
  <2> QED BY <1>2, <2>1, LineStays
<1>11. /\ y.id = id /\ y.doc = doc /\ y.section = a /\ y.reversal = TRUE /\ y.qty = 0 - x.qty
       /\ LineHolds(y)'
  BY <1>2, <1>3, <1>5, <1>10, MirrorHolds
<1>12. ASSUME NEW s \in Places
       PROVE  B[s] \in Int /\ Book(s) \in Int /\ Book(s)' = Book(s) - B[s] /\ Logged(s)' = Logged(s)
  <2>1. Book(s) \in Int /\ Book(s)' = Book(s) + (IF y.section = s THEN y.qty ELSE 0)
    BY <1>6, <1>7, OneMoves
  <2>2. B[s] = (IF s = a THEN x.qty ELSE 0)
    BY <1>4
  <2>3. PICK b : b = Book(s)
    OBVIOUS
  <2>4. Book(s)' = b - B[s]
    BY <1>2, <1>11, <2>1, <2>2, <2>3
  <2>5. Logged(s)' = Logged(s)
    BY <1>6, <1>7, <1>11, OneMoves
  <2> QED BY <1>2, <2>1, <2>2, <2>3, <2>4, <2>5
<1>13. ASSUME NEW s \in Places, NEW d \in Nat PROVE (doc = "count" /\ s = a) \/ Adjusted(s, d)' = Adjusted(s, d)
  <2>1. CASE doc # "count"
    BY <1>6, <1>7, <1>11, <2>1, OneMoves
  <2>2. CASE doc = "count" /\ s # a
    <3>1. Adjusted(s, d)' = Adjusted(s, d) + (IF y.section = s /\ y.day = d THEN y.qty ELSE 0)
      BY <1>6, <1>7, <1>11, <2>2, AdjustedMoves
    <3>2. Adjusted(s, d)' = Adjusted(s, d) + 0
      BY <1>11, <2>2, <3>1
    <3>3. Adjusted(s, d) \in Int
      <4>1. Lines(s, {"count"}, d, d) \in SUBSET DOMAIN ledger
        BY DEF Lines
      <4> QED BY <4>1, TotalsAdd DEF Adjusted
    <3> QED BY <3>2, <3>3
  <2> QED BY <2>1, <2>2
<1>14. doc = "wastage" => \A s \in Places : B[s] <= 0
  BY <1>2, <1>4 DEF LineHolds
<1>15. doc = "count" => /\ B[a] # 0
                        /\ CountedOff(id, a)
  BY <1>1, <1>2, <1>4, <1>5 DEF LineHolds, CountedOff
<1>16. \A s \in Rooms : Logged(s)' = Logged(s)
  BY <1>12, RoomsArePlaces
<1>17. \A s \in Places : B[s] \in Int /\ Book(s) \in Int /\ Book(s)' = Book(s) - B[s]
  BY <1>12
<1>18. /\ Posted({k}, id, doc) /\ (\E i \in {k} : ledger'[i].reversal)
       /\ \A i \in {k} : \E z \in LineRows : ledger'[i] = z /\ LineHolds(z)'
  BY <1>6, <1>9, <1>11
<1>19. Undone({k}, id, doc, B, a)
  BY <1>13, <1>14, <1>15, <1>16, <1>17, <1>18 DEF Undone
<1> QED BY <1>1, <1>19

LEMMA TwoUndone ==
  ASSUME StockRows, LinesHold, Onward, CountsKept, NEW id, NEW doc, doc # "return", doc # "count",
         NEW f \in DOMAIN ledger, f + 1 \in DOMAIN ledger, Mine(id) = {f, f + 1},
         ledger[f].doc = doc, ~ledger[f].reversal, ledger[f + 1].doc = doc, ~ledger[f + 1].reversal,
         ledger' = ledger \o <<Mirrored(ledger[f]), Mirrored(ledger[f + 1])>>,
         NEW B, B = [s \in Places |-> GivenBack(id, s)]
  PROVE  \E New : Undone(New, id, doc, B, ledger[f].section)
<1>1. PICK x, u, a : x = ledger[f] /\ u = ledger[f + 1] /\ a = x.section
  OBVIOUS
<1>2. /\ x \in LineRows /\ x.qty \in Int /\ x.id = id /\ x.doc = doc /\ ~x.reversal /\ LineHolds(x)
      /\ u \in LineRows /\ u.qty \in Int /\ u.id = id /\ u.doc = doc /\ ~u.reversal /\ LineHolds(u)
  BY <1>1, LinesAreLines DEF LinesHold, Mine
<1>3. PICK y, v : y = Mirrored(x) /\ v = Mirrored(u)
  OBVIOUS
<1>4. \A s : GivenBack(id, s) = (IF x.section = s THEN x.qty ELSE 0) + (IF u.section = s THEN u.qty ELSE 0)
  <2>1. TAKE s
  <2>2. GivenBack(id, s) = HeldAt(f, s) + HeldAt(f + 1, s)
    BY TwoGiveBack
  <2>3. /\ HeldAt(f, s) = (IF x.section = s THEN x.qty ELSE 0)
        /\ HeldAt(f + 1, s) = (IF u.section = s THEN u.qty ELSE 0)
    BY <1>1 DEF HeldAt
  <2> QED BY ONLY <2>2, <2>3
<1>5. /\ y \in LineRows /\ y.id = id /\ y.doc = doc /\ y.section = x.section /\ y.reversal = TRUE
      /\ y.qty = 0 - x.qty
      /\ v \in LineRows /\ v.id = id /\ v.doc = doc /\ v.section = u.section /\ v.reversal = TRUE
      /\ v.qty = 0 - u.qty
  <2>1. /\ y \in LineRows /\ y.id = x.id /\ y.doc = x.doc /\ y.section = x.section /\ y.reversal = TRUE
        /\ y.qty = 0 - x.qty
    BY ONLY <1>2, <1>3, MirrorIsALine
  <2>2. /\ v \in LineRows /\ v.id = u.id /\ v.doc = u.doc /\ v.section = u.section /\ v.reversal = TRUE
        /\ v.qty = 0 - u.qty
    BY ONLY <1>2, <1>3, MirrorIsALine
  <2> QED BY ONLY <1>2, <2>1, <2>2
<1>6. ledger' = ledger \o <<y, v>>
  BY <1>1, <1>3
<1>7. PICK k, l : k = Len(ledger) + 1 /\ l = Len(ledger) + 2
  OBVIOUS
<1>8. Posted({k, l}, id, doc) /\ ledger'[k] = y /\ ledger'[l] = v
  BY <1>5, <1>6, <1>7, TwoMove, ZenonT(40)
<1>9. LineHolds(y)' /\ LineHolds(v)'
  <2>1. Added({k, l})
    BY <1>8 DEF Posted
  <2>2. LineHolds(x)' /\ LineHolds(u)'
    BY <1>2, <2>1, LineStays
  <2> QED BY <1>2, <1>3, <2>2, MirrorHolds
<1>10. ASSUME NEW s \in Places
       PROVE  B[s] \in Int /\ Book(s) \in Int /\ Book(s)' = Book(s) - B[s] /\ Logged(s)' = Logged(s)
  <2>1. /\ Book(s) \in Int
        /\ Book(s)' = Book(s) + (IF y.section = s THEN y.qty ELSE 0) + (IF v.section = s THEN v.qty ELSE 0)
    BY <1>5, <1>6, TwoMove, SMTT(30)
  <2>2. B[s] = (IF x.section = s THEN x.qty ELSE 0) + (IF u.section = s THEN u.qty ELSE 0)
    BY <1>4
  <2>3. PICK b, p, q : /\ b = Book(s) /\ p = (IF x.section = s THEN x.qty ELSE 0)
                       /\ q = (IF u.section = s THEN u.qty ELSE 0)
    OBVIOUS
  <2>4. p \in Int /\ q \in Int /\ b \in Int /\ B[s] = p + q
    BY <1>2, <2>1, <2>2, <2>3
  <2>5. (IF y.section = s THEN y.qty ELSE 0) = 0 - p /\ (IF v.section = s THEN v.qty ELSE 0) = 0 - q
    BY <1>5, <2>3
  <2>6. Book(s)' = b + (0 - p) + (0 - q)
    BY <2>1, <2>3, <2>5
  <2>7. Logged(s)' = Logged(s)
    BY <1>5, <1>6, TwoMove, SMTT(30)
  <2>8. b + (0 - p) + (0 - q) = b - B[s] /\ B[s] \in Int
    BY <2>4
  <2>9. Book(s)' = b - B[s]
    BY <2>6, <2>8
  <2>10. Book(s)' = Book(s) - B[s] /\ Book(s) \in Int
    BY <2>1, <2>3, <2>9
  <2> QED BY <2>7, <2>8, <2>10
<1>11. ASSUME NEW s \in Places, NEW d \in Nat PROVE Adjusted(s, d)' = Adjusted(s, d)
  BY <1>5, <1>6, TwoMove, ZenonT(40)
<1>12. doc = "wastage" => \A s \in Places : B[s] <= 0
  <2>1. doc = "wastage" => x.qty = -1 /\ u.qty = -1
    BY <1>2 DEF LineHolds
  <2> QED BY <1>4, <2>1
<1>13. \A s \in Rooms : Logged(s)' = Logged(s)
  BY <1>10, RoomsArePlaces
<1>14. \A s \in Places : B[s] \in Int /\ Book(s) \in Int /\ Book(s)' = Book(s) - B[s]
  BY <1>10
<1>15. /\ Posted({k, l}, id, doc) /\ (\E i \in {k, l} : ledger'[i].reversal)
       /\ \A i \in {k, l} : \E z \in LineRows : ledger'[i] = z /\ LineHolds(z)'
  BY <1>5, <1>8, <1>9
<1>16. Undone({k, l}, id, doc, B, a)
  BY <1>11, <1>12, <1>13, <1>14, <1>15 DEF Undone
<1> QED BY <1>1, <1>16

LEMMA ReverseUndoes ==
  ASSUME StockInvariant, NEW id \in Docs, Reverse(id),
         NEW doc, doc = KindOf(id),
         NEW B, B = [s \in Places |-> GivenBack(id, s)]
  PROVE  \E New, a : /\ Undone(New, id, doc, B, a) /\ a \in Places
                     /\ doc \in AnyDoc /\ \A i \in Mine(id) : ledger[i].doc = doc
<1>1. StockRows /\ LinesHold /\ DocumentsStand
  BY DEF StockInvariant
<1>2. /\ \A i \in Mine(id) : ~ledger[i].reversal
      /\ doc # "return" /\ now' = now /\ counts' = counts
      /\ ledger' = ledger \o (IF Cardinality(Mine(id)) = 2
                              THEN <<Mirrored(ledger[Min(Mine(id))]), Mirrored(ledger[Min(Mine(id)) + 1])>>
                              ELSE <<Mirrored(ledger[Min(Mine(id))])>>)
      /\ disturbed' = disturbed \cup Bent(id, doc)
  BY ReverseDoes
<1>3. Onward /\ CountsKept
  BY <1>1, <1>2, SameDay DEF CountsKept
<1>4. Mine(id) \subseteq DOMAIN ledger /\ \A i \in Mine(id) : ledger[i].id = id
  BY DEF Mine
<1>5. Mine(id) # {}
  BY DEF Docs, Mine
<1>6. \A i \in Mine(id) : ledger[i].doc = doc
  <2>1. (CHOOSE i \in Mine(id) : TRUE) \in Mine(id)
    BY <1>5
  <2> QED BY <1>1, <1>4, <2>1 DEF DocumentsStand, KindOf
<1>7. PICK f \in Mine(id) : Mine(id) = {f} \/ (Mine(id) = {f, f + 1} /\ ledger[f].doc # "count")
  BY <1>1, <1>2 DEF DocumentsStand
<1>8. PICK x : x = ledger[f]
  OBVIOUS
<1>9. f \in DOMAIN ledger /\ f \in Nat /\ x.section \in Places /\ doc \in AnyDoc
      /\ ledger[f].doc = doc /\ ~ledger[f].reversal
  BY <1>1, <1>2, <1>4, <1>6, <1>7, <1>8, LinesAreLines
<1>10. CASE Mine(id) = {f}
  <2>1. ledger' = ledger \o <<Mirrored(ledger[f])>>
    <3>1. PICK K : K = Mine(id)
      OBVIOUS
    <3>2. Cardinality(K) = 1 /\ Min(K) = f
      BY <1>9, <1>10, <3>1, FirstOfMine
    <3> QED BY <1>2, <3>1, <3>2
  <2>2. doc = "count" => \A s \in Places : GivenBack(id, s) # 0 => s \in disturbed'
    BY <1>2 DEF Bent
  <2>3. \E New : Undone(New, id, doc, B, ledger[f].section)
    BY <1>1, <1>2, <1>3, <1>9, <1>10, <2>1, <2>2, OneUndone
  <2> QED BY <1>6, <1>8, <1>9, <2>3
<1>11. CASE Mine(id) = {f, f + 1} /\ doc # "count"
  <2>1. ledger' = ledger \o <<Mirrored(ledger[f]), Mirrored(ledger[f + 1])>>
    <3>1. PICK K : K = Mine(id)
      OBVIOUS
    <3>2. Cardinality(K) = 2 /\ Min(K) = f
      BY <1>9, <1>11, <3>1, FirstOfMine
    <3> QED BY <1>2, <3>1, <3>2
  <2>2. f + 1 \in DOMAIN ledger /\ ledger[f + 1].doc = doc /\ ~ledger[f + 1].reversal
    BY <1>2, <1>4, <1>6, <1>11
  <2>3. \E New : Undone(New, id, doc, B, ledger[f].section)
    BY <1>1, <1>2, <1>3, <1>9, <1>11, <2>1, <2>2, TwoUndone
  <2> QED BY <1>6, <1>8, <1>9, <2>3
<1> QED BY <1>7, <1>9, <1>10, <1>11

LEMMA ReverseKeeps ==
  ASSUME StockInvariant, NEW id \in Docs, Reverse(id)
  PROVE  StockInvariant'
<1>1. /\ StockRows /\ LinesHold /\ DocumentsStand /\ CountsStand /\ CountsHold /\ ShelvesHold
      /\ LossesHold /\ SlipsHold
  BY DEF StockInvariant
<1>2. PICK doc, B : /\ doc = KindOf(id)
                    /\ B = [s \in Places |-> GivenBack(id, s)]
  OBVIOUS
<1>3. /\ doc # "return"
      /\ doc \in {"grn", "issue"} =>
            /\ \A s \in Places : shelf[s] - B[s] >= 0
            /\ shelf' = [s \in Places |-> shelf[s] - B[s]]
      /\ doc \notin {"grn", "issue"} => shelf' = shelf
      /\ disturbed' = disturbed
            \cup {s \in Places : B[s] # 0 /\ (doc = "count" \/ OpenCounts(s) # {})}
      /\ fresh' = IF doc = "wastage" THEN [s \in Rooms |-> fresh[s] - B[s]] ELSE fresh
      /\ now' = now /\ wastes' = wastes /\ counts' = counts /\ stolen' = stolen /\ late' = late
  <2>1. \A s \in Rooms : B[s] = GivenBack(id, s)
    BY <1>2, RoomsArePlaces
  <2>2. \A s \in Places : B[s] = GivenBack(id, s)
    BY <1>2
  <2>3. [s \in Rooms |-> fresh[s] - B[s]] = [s \in Rooms |-> fresh[s] - GivenBack(id, s)]
    BY <2>1
  <2>4. [s \in Places |-> shelf[s] - B[s]] = [s \in Places |-> shelf[s] - GivenBack(id, s)]
    BY <2>2
  <2>5. {s \in Places : B[s] # 0 /\ (doc = "count" \/ OpenCounts(s) # {})}
          = Bent(id, doc)
    BY <2>2 DEF Bent
  <2>6. doc = KindOf(id)
    BY <1>2
  <2>7. doc # "return" /\ (doc \notin {"grn", "issue"} => shelf' = shelf)
        /\ now' = now /\ wastes' = wastes /\ counts' = counts /\ stolen' = stolen /\ late' = late
    BY <2>6, ReverseDoes
  <2>8. doc \in {"grn", "issue"} =>
           /\ \A s \in Places : shelf[s] - GivenBack(id, s) >= 0
           /\ shelf' = [s \in Places |-> shelf[s] - GivenBack(id, s)]
    BY <2>6, ReverseDoes
  <2>9. disturbed' = disturbed \cup Bent(id, doc)
    BY <2>6, ReverseDoes
  <2>10. fresh' = IF doc = "wastage" THEN [s \in Rooms |-> fresh[s] - GivenBack(id, s)] ELSE fresh
    BY <2>6, ReverseDoes
  <2> QED BY <2>2, <2>3, <2>4, <2>5, <2>7, <2>8, <2>9, <2>10
<1>4. PICK New, a : /\ Undone(New, id, doc, B, a) /\ a \in Places
                    /\ doc \in AnyDoc /\ \A i \in Mine(id) : ledger[i].doc = doc
  BY <1>2, ReverseUndoes
<1>5. /\ Posted(New, id, doc) /\ (\E i \in New : ledger'[i].reversal)
      /\ \A i \in New : \E z \in LineRows : ledger'[i] = z /\ LineHolds(z)'
      /\ \A s \in Places : B[s] \in Int /\ Book(s) \in Int /\ Book(s)' = Book(s) - B[s]
      /\ \A s \in Places, d \in Nat : (doc = "count" /\ s = a) \/ Adjusted(s, d)' = Adjusted(s, d)
      /\ \A s \in Rooms : Logged(s)' = Logged(s)
      /\ doc = "wastage" => \A s \in Places : B[s] <= 0
      /\ doc = "count" => /\ B[a] # 0
                          /\ CountedOff(id, a)
  BY <1>4 DEF Undone
<1>6. disturbed \subseteq disturbed' /\ disturbed' \subseteq Places
  BY <1>1, <1>3 DEF StockRows
<1>7. /\ Onward /\ Today' = Today /\ Calendar(now)' = Calendar(now) /\ Calendar(now) \in Nat
  BY <1>1, <1>3, <1>6, SameDay
<1>8. Added(New) /\ CountsKept /\ ledger' \in Seq(LineRows)
  BY <1>3, <1>5 DEF Posted, Added, CountsKept
<1>9. LinesHold'
  BY <1>1, <1>5, <1>7, <1>8, LinesStay
<1>10. DocumentsStand'
  BY <1>1, <1>3, <1>4, <1>5, ReversedDocumentStands
<1>11. CountsStand'
  BY <1>1, <1>3, <1>7, CountsStandStill
<1>12. /\ shelf' \in [Places -> Nat]
       /\ \A s \in Places : shelf[s] \in Nat
       /\ \A s \in Places : shelf'[s] = shelf[s] - (IF doc \in {"grn", "issue"} THEN B[s] ELSE 0)
  <2>1. shelf \in [Places -> Nat]
    BY <1>1 DEF StockRows
  <2>2. CASE doc \in {"grn", "issue"}
    <3>1. ASSUME NEW s \in Places PROVE shelf[s] - B[s] \in Nat
      BY <1>3, <1>5, <2>1, <2>2
    <3> QED BY <1>3, <2>1, <2>2, <3>1
  <2>3. CASE doc \notin {"grn", "issue"}
    BY <1>3, <2>1, <2>3
  <2> QED BY <2>2, <2>3
<1>13. /\ fresh' \in [Rooms -> Nat]
       /\ \A s \in Rooms : fresh[s] \in Nat /\ stolen[s] \in Nat
       /\ \A s \in Rooms : fresh'[s] = fresh[s] - (IF doc = "wastage" THEN B[s] ELSE 0)
  <2>1. fresh \in [Rooms -> Nat] /\ stolen \in [Rooms -> Nat]
    BY <1>1 DEF StockRows
  <2>2. CASE doc = "wastage"
    <3>1. ASSUME NEW s \in Rooms PROVE fresh[s] - B[s] \in Nat
      <4>1. B[s] \in Int /\ B[s] <= 0 /\ fresh[s] \in Nat
        BY <1>5, <2>1, <2>2, RoomsArePlaces
      <4> QED BY <4>1
    <3> QED BY <1>3, <2>1, <2>2, <3>1
  <2>3. CASE doc # "wastage"
    BY <1>3, <2>1, <2>3
  <2> QED BY <2>1, <2>2, <2>3
<1>14. StockRows'
  BY <1>1, <1>3, <1>6, <1>8, <1>12, <1>13 DEF StockRows
<1>15. CountsHold'
  <2>1. ASSUME NEW s \in Rooms \ disturbed', OpenCounts(s) # {}
        PROVE  Book(s)' = Book(s) /\ fresh[s] <= fresh'[s] /\ fresh'[s] \in Int
    <3>1. s \in Places
      BY RoomsArePlaces
    <3>2. B[s] = 0
      BY <1>3, <2>1, <3>1
    <3>3. PICK b : b = Book(s)
      OBVIOUS
    <3>4. Book(s)' = b - 0 /\ b \in Int
      BY <1>5, <3>1, <3>2, <3>3
    <3>5. fresh'[s] = fresh[s] - 0 /\ fresh[s] \in Nat
      BY <1>13, <3>2
    <3> QED BY <3>3, <3>4, <3>5
  <2>2. \A s \in Rooms : stolen[s] <= stolen'[s] /\ stolen'[s] \in Int
    BY <1>3, <1>13
  <2>3. \A s \in Rooms \ disturbed' :
            OpenCounts(s) = {} \/ (Book(s)' = Book(s) /\ fresh[s] <= fresh'[s] /\ fresh'[s] \in Int)
    BY <2>1
  <2>4. counts' = counts
    BY <1>3
  <2> QED BY <1>1, <1>7, <2>2, <2>3, <2>4, CountsHoldStill
<1>16. ShelvesHold'
  <2> SUFFICES ASSUME NEW s \in Rooms \ disturbed' PROVE Book(s)' = shelf'[s] + stolen'[s] + fresh'[s]
    BY DEF ShelvesHold
  <2>1. s \in Rooms \ disturbed /\ s \in Places
    BY <1>6, RoomsArePlaces
  <2>2. PICK b, p, q, r, g : b = Book(s) /\ p = shelf[s] /\ q = stolen[s] /\ r = fresh[s] /\ g = B[s]
    OBVIOUS
  <2>3. b = p + q + r /\ p \in Nat /\ q \in Nat /\ r \in Nat /\ g \in Int
    BY <1>1, <1>5, <1>12, <1>13, <2>1, <2>2 DEF ShelvesHold
  <2>4. Book(s)' = b - g
    BY <1>5, <2>1, <2>2
  <2>5. doc \in {"grn", "issue", "wastage"} \/ (doc = "count" /\ g = 0)
    <3>1. doc \in {"grn", "issue", "wastage", "count"}
      BY <1>3, <1>4 DEF AnyDoc
    <3> QED BY <1>3, <2>1, <2>2, <3>1
  <2>6. shelf'[s] = p - (IF doc \in {"grn", "issue"} THEN g ELSE 0)
    BY <1>12, <2>1, <2>2
  <2>7. fresh'[s] = r - (IF doc = "wastage" THEN g ELSE 0)
    BY <1>13, <2>2
  <2>8. stolen'[s] = q
    BY <1>3, <2>2
  <2>9. b - g = (p - (IF doc \in {"grn", "issue"} THEN g ELSE 0)) + q + (r - (IF doc = "wastage" THEN g ELSE 0))
    BY <2>3, <2>5
  <2> QED BY <2>4, <2>6, <2>7, <2>8, <2>9
<1>17. LossesHold'
  <2>1. ASSUME NEW s \in Rooms \ disturbed', doc = "count" PROVE s # a
    BY <1>3, <1>4, <1>5, <2>1
  <2>2. ASSUME NEW c \in DOMAIN counts, counts[c].section \in Rooms \ disturbed' PROVE counts[c].id # id
    <3>1. SUFFICES ASSUME counts[c].id = id PROVE FALSE
      OBVIOUS
    <3>2. PICK o \in DOMAIN ledger : ledger[o].id = id
      BY DEF Docs
    <3>3. ledger[o].doc = doc /\ doc = "count"
      BY <1>1, <1>4, <3>1, <3>2 DEF DocumentsStand, Mine
    <3>4. PICK i \in DOMAIN ledger : ledger[i].id = id /\ FoundOff(ledger[i]) /\ ledger[i].section = a
      BY <1>5, <3>3 DEF CountedOff
    <3>5. PICK e \in DOMAIN counts : counts[e].id = id /\ counts[e].section = a
      BY <3>4 DEF FoundOff
    <3>6. e = c
      BY <1>1, <3>1, <3>5 DEF CountsStand
    <3> QED BY <2>1, <2>2, <3>3, <3>5, <3>6
  <2>3. \A i \in New : ledger'[i].id = id
    BY <1>5 DEF Posted
  <2>4. ASSUME NEW s \in Rooms \ disturbed', NEW d \in Nat
        PROVE  Adjusted(s, d)' = Adjusted(s, d) /\ Standing(s, d)' = Standing(s, d)
    <3>1. Adjusted(s, d)' = Adjusted(s, d)
      BY <1>5, <2>1, RoomsArePlaces
    <3>2. \A c \in DOMAIN counts : counts[c].section = s =>
               ((\E i \in DOMAIN ledger' : ledger'[i].reversal /\ ledger'[i].id = counts[c].id)
            <=> (\E i \in DOMAIN ledger : ledger[i].reversal /\ ledger[i].id = counts[c].id))
      BY <1>8, <2>2, <2>3 DEF Added
    <3>3. Standing(s, d)' = Standing(s, d)
      BY <1>3, <3>2 DEF Standing
    <3> QED BY <3>1, <3>3
  <2> QED BY <1>1, <1>7, <1>8, <2>4, LossesStay
<1>18. SlipsHold'
  <2>1. Calendar(now)' \in Int /\ Calendar(now) \in Int /\ Calendar(now) <= Calendar(now)'
    BY <1>7
  <2> QED BY <1>1, <1>3, <1>5, <2>1, SlipsHoldStill
<1> QED BY <1>9, <1>10, <1>11, <1>14, <1>15, <1>16, <1>17, <1>18 DEF StockInvariant

LEMMA WeightOfNone == \A K : Weight(<<>>, K) = 0
<1> SUFFICES ASSUME NEW K PROVE Weight(<<>>, K) = 0
  OBVIOUS
<1>1. PICK f : f = [i \in {} |-> 0]
  OBVIOUS
<1>2. f \in [{} -> Int]
  BY <1>1
<1>3. SumFunction(f) = 0
  BY ONLY <1>2, SumEmpty
<1>4. Picked(<<>>, K) = {}
  BY DEF Picked
<1>5. [i \in Picked(<<>>, K) |-> <<>>[i].qty] = f
  BY <1>1, <1>4
<1> QED BY <1>3, <1>5 DEF Weight

\* What the ledger of a shop that opens says.
LEMMA LedgerAtOpening ==
  ASSUME StockInit
  PROVE  \E q \in Nat :
           /\ ledger \in Seq(LineRows)
           /\ shelf = [s \in Places |-> IF s = "store" THEN q ELSE 0]
           /\ DOMAIN ledger = (IF q = 0 THEN {} ELSE {1})
           /\ \A i \in DOMAIN ledger : /\ ledger[i] \in LineRows /\ ledger[i].day = 0
                                       /\ ledger[i].section = "store" /\ ledger[i].doc = "grn"
                                       /\ ledger[i].id = 1
           /\ \A s : /\ Book(s) = (IF s = "store" THEN q ELSE 0)
                     /\ Logged(s) = 0
                     /\ \A d \in Nat : Adjusted(s, d) = 0
<1>1. PICK q \in Opening : /\ ledger = IF q = 0 THEN <<>> ELSE <<Leg(0, "store", q, "grn", 1)>>
                           /\ shelf = [s \in Places |-> IF s = "store" THEN q ELSE 0]
  BY DEF StockInit
<1>2. q \in Nat
  BY <1>1, StockReportsAssumption
<1>3. CASE q = 0
  <2>1. ledger = <<>> /\ ledger \in Seq(LineRows) /\ DOMAIN ledger = {}
    BY <1>1, <1>3
  <2>2. \A s : Book(s) = 0 /\ Logged(s) = 0 /\ \A d \in Nat : Adjusted(s, d) = 0
    <3>1. \A K : Weight(ledger, K) = 0
      BY <2>1, WeightOfNone
    <3> QED BY <2>1, <3>1, Weights
  <2> QED BY <1>1, <1>2, <1>3, <2>1, <2>2
<1>4. CASE q # 0
  <2>1. PICK x : x = Leg(0, "store", q, "grn", 1)
    OBVIOUS
  <2>2. /\ x \in LineRows /\ x.day = 0 /\ x.section = "store" /\ x.qty = q /\ x.doc = "grn" /\ x.id = 1
    BY <1>2, <2>1 DEF Leg, LineRows, AnyDoc, Places
  <2>3. ledger = <<x>>
    BY <1>1, <1>4, <2>1
  <2>4. ledger \in Seq(LineRows) /\ DOMAIN ledger = {1} /\ ledger[1] = x /\ ledger = Append(<<>>, x)
    BY <2>2, <2>3
  <2>5. \A K : Weight(ledger, K) = Share(x, K)
    <3>1. <<>> \in Seq(LineRows)
      OBVIOUS
    <3>2. ASSUME NEW K PROVE Weight(Append(<<>>, x), K) = Share(x, K)
      <4>1. Weight(Append(<<>>, x), K) = Weight(<<>>, K) + Share(x, K)
        BY <2>2, <3>1, WeightOfMore
      <4>2. Share(x, K) \in Int
        BY <1>2, <2>2 DEF Share
      <4> QED BY <4>1, <4>2, WeightOfNone
    <3> QED BY <2>4, <3>2
  <2>6. ASSUME NEW s PROVE Book(s) = (IF s = "store" THEN q ELSE 0) /\ Logged(s) = 0
    <3>1. Book(s) = Share(x, AtRoom(s)) /\ Logged(s) = Share(x, SlipLines(s))
      BY <2>4, <2>5, Weights
    <3>2. x \in LineRows
      BY <2>2
    <3>3. /\ Share(x, AtRoom(s)) = IF x.section = s THEN x.qty ELSE 0
          /\ Share(x, SlipLines(s)) =
                IF x.section = s /\ x.doc = "wastage" /\ x.reversal = FALSE THEN x.qty ELSE 0
      BY <3>2, Shares
    <3> QED BY <2>2, <3>1, <3>3
  <2>7. ASSUME NEW s, NEW d \in Nat PROVE Adjusted(s, d) = 0
    <3>1. Adjusted(s, d) = Share(x, CountLines(s, d))
      BY <2>4, <2>5, Weights
    <3>2. x \in LineRows
      BY <2>2
    <3>3. Share(x, CountLines(s, d)) = IF x.section = s /\ x.doc = "count" /\ x.day = d THEN x.qty ELSE 0
      BY <3>2, Shares
    <3> QED BY <2>2, <3>1, <3>3
  <2> QED BY <1>1, <1>2, <1>4, <2>2, <2>4, <2>6, <2>7
<1> QED BY <1>2, <1>3, <1>4

LEMMA StockInitHolds ==
  ASSUME StockInit
  PROVE  StockInvariant
<1>1. PICK q \in Nat :
           /\ ledger \in Seq(LineRows)
           /\ shelf = [s \in Places |-> IF s = "store" THEN q ELSE 0]
           /\ DOMAIN ledger = (IF q = 0 THEN {} ELSE {1})
           /\ \A i \in DOMAIN ledger : /\ ledger[i] \in LineRows /\ ledger[i].day = 0
                                       /\ ledger[i].section = "store" /\ ledger[i].doc = "grn"
                                       /\ ledger[i].id = 1
           /\ \A s : /\ Book(s) = (IF s = "store" THEN q ELSE 0)
                     /\ Logged(s) = 0
                     /\ \A d \in Nat : Adjusted(s, d) = 0
  BY LedgerAtOpening
<1>2. /\ now = 1 /\ wastes = <<>> /\ counts = <<>> /\ stolen = [s \in Rooms |-> 0] /\ fresh = stolen
      /\ late = stolen
      /\ disturbed = {}
  BY DEF StockInit
<1>3. /\ wastes \in Seq(WasteRows) /\ DOMAIN wastes = {} /\ counts \in Seq(CountRows) /\ DOMAIN counts = {}
  BY <1>2
<1>4. now \in 1..LastTick /\ Today = 0
  BY <1>2, StockReportsAssumption DEF Today, BusinessDay
<1>5. StockRows
  BY <1>1, <1>2, <1>3, <1>4 DEF StockRows
<1>6. LinesHold
  <2>1. ASSUME NEW i \in DOMAIN ledger PROVE LineHolds(ledger[i])
    BY <1>1, <1>4, <2>1 DEF LineHolds
  <2> QED BY <2>1 DEF LinesHold
<1>7. DocumentsStand
  <2>1. CountIds = {}
    BY <1>3 DEF CountIds
  <2>2. Docs = (IF q = 0 THEN {} ELSE {1})
    BY <1>1 DEF Docs
  <2>3. \E k \in Nat : Docs \cup CountIds = 1..k
    <3>1. 1..0 = {} /\ 1..1 = {1} /\ 0 \in Nat /\ 1 \in Nat
      OBVIOUS
    <3> QED BY <2>1, <2>2, <3>1
  <2>4. \A i, j \in DOMAIN ledger : ledger[i].id = ledger[j].id => ledger[i].doc = ledger[j].doc
    BY <1>1
  <2>5. ASSUME NEW id \in Docs
        PROVE  \E f \in Mine(id) : Mine(id) = {f} \/ (Mine(id) = {f, f + 1} /\ ledger[f].doc # "count")
    <3>1. q # 0 /\ id = 1
      BY <2>2, <2>5
    <3>2. Mine(id) = {1}
      BY <1>1, <3>1 DEF Mine
    <3> QED BY <3>2
  <2> QED BY <1>3, <2>3, <2>4, <2>5 DEF DocumentsStand
<1>8. CountsStand /\ CountsHold
  BY <1>3 DEF CountsStand, CountsHold
<1>9. ShelvesHold
  <2> SUFFICES ASSUME NEW s \in Rooms PROVE Book(s) = shelf[s] + stolen[s] + fresh[s]
    BY DEF ShelvesHold
  <2>1. Book(s) = (IF s = "store" THEN q ELSE 0) /\ shelf[s] = (IF s = "store" THEN q ELSE 0)
    BY <1>1, RoomsArePlaces
  <2>2. stolen[s] = 0 /\ fresh[s] = 0
    BY <1>2
  <2> QED BY <2>1, <2>2
<1>10. LossesHold
  <2> SUFFICES ASSUME NEW s \in Rooms, NEW d \in Nat PROVE Adjusted(s, d) + Found(s, d) + Written(s, d) = 0
    BY DEF LossesHold
  <2>1. PICK R : R = Standing(s, d)
    OBVIOUS
  <2>2. R = {}
    BY <1>3, <2>1 DEF Standing
  <2>3. PICK f, g : f = [c \in R |-> counts[c].stolen] /\ g = [c \in R |-> counts[c].fresh]
    OBVIOUS
  <2>4. f \in [{} -> Int] /\ g \in [{} -> Int]
    BY <2>2, <2>3
  <2>5. SumFunction(f) = 0
    BY ONLY <2>4, SumEmpty
  <2>6. SumFunction(g) = 0
    BY ONLY <2>4, SumEmpty
  <2>7. Found(s, d) = 0 /\ Written(s, d) = 0
    BY <2>1, <2>3, <2>5, <2>6 DEF Found, Written
  <2> QED BY <1>1, <2>7
<1>11. SlipsHold
  <2>1. ASSUME NEW s \in Rooms PROVE Cardinality(Slips(s)) + Logged(s) = 0
    <3>1. Slips(s) = {}
      BY <1>3 DEF Slips
    <3> QED BY <1>1, <3>1, FS_EmptySet
  <2> QED BY <1>3, <2>1 DEF SlipsHold
<1> QED BY <1>5, <1>6, <1>7, <1>8, <1>9, <1>10, <1>11 DEF StockInvariant

LEMMA StockNextKeeps ==
  ASSUME StockInvariant, StockNext
  PROVE  StockInvariant'
<1>1. CASE Deliver
  BY <1>1, DeliverKeeps
<1>2. CASE Issue
  BY <1>2, IssueKeeps
<1>3. CASE ReturnToStore
  BY <1>3, ReturnToStoreKeeps
<1>4. CASE Tick
  BY <1>4, TickKeeps
<1>5. ASSUME NEW s \in Rooms, Spoil(s) \/ Steal(s) PROVE StockInvariant'
  BY <1>5, LossKeeps
<1>6. ASSUME NEW s \in Rooms, LogWastage(s) PROVE StockInvariant'
  BY <1>6, LogWastageKeeps
<1>7. ASSUME NEW s \in Rooms, StartCount(s) PROVE StockInvariant'
  BY <1>7, StartCountKeeps
<1>8. ASSUME NEW c \in DOMAIN counts, EnterCount(c) PROVE StockInvariant'
  BY <1>8, EnterCountKeeps
<1>9. ASSUME NEW c \in DOMAIN counts, CloseCount(c) PROVE StockInvariant'
  BY <1>9, CloseCountKeeps
<1>10. ASSUME NEW id \in Docs, Reverse(id) PROVE StockInvariant'
  BY <1>10, ReverseKeeps
<1> QED BY <1>1, <1>2, <1>3, <1>4, <1>5, <1>6, <1>7, <1>8, <1>9, <1>10 DEF StockNext

LEMMA NothingKeeps ==
  ASSUME StockInvariant, UNCHANGED stockVars
  PROVE  StockInvariant'
<1>1. StockRows /\ CountsHold /\ ShelvesHold
  BY DEF StockInvariant
<1>2. /\ ledger' = ledger /\ counts' = counts /\ wastes' = wastes /\ disturbed' = disturbed
      /\ now' = now /\ shelf' = shelf /\ stolen' = stolen /\ fresh' = fresh /\ late' = late
  BY DEF stockVars
<1>3. /\ LinesHold' /\ DocumentsStand' /\ CountsStand' /\ LossesHold' /\ SlipsHold' /\ Onward
      /\ \A s : Book(s)' = Book(s)
  BY <1>2, QuietStep
<1>4. StockRows'
  BY <1>1, <1>2 DEF StockRows
<1>5. \A s \in Rooms : stolen[s] \in Nat /\ fresh[s] \in Nat
  BY <1>1 DEF StockRows
<1>6. CountsHold'
  BY <1>1, <1>2, <1>3, <1>5, CountsHoldStill
<1>7. ShelvesHold'
  BY <1>1, <1>2, <1>3 DEF ShelvesHold
<1> QED BY <1>3, <1>4, <1>6, <1>7 DEF StockInvariant

THEOREM StockIsKept == StockInit /\ [][StockNext]_stockVars => []StockInvariant
<1>1. StockInit => StockInvariant
  BY StockInitHolds
<1>2. StockInvariant /\ [StockNext]_stockVars => StockInvariant'
  BY StockNextKeeps, NothingKeeps
<1> QED BY <1>1, <1>2, PTL

\* StockReportsAgree, for any recipes, reorder points, openings and days: the balances are
\* what was consumed, wasted and counted off, and two screens that show one fact of the
\* stock agree on it.
THEOREM StockReportsTellAlike == StockInit /\ [][StockNext]_stockVars => []StockReportsAgree
<1>1. StockInvariant => StockReportsAgree
  BY BooksAgreeThen, ListsAgreeThen DEF StockReportsAgree
<1> QED BY <1>1, StockIsKept, PTL

\* LossesAreTold, for any floors of the shrinkage report and any openings: the report
\* accuses no room whose books are straight and misses no theft that a count found.
THEOREM LossesReachTheReport == StockInit /\ [][StockNext]_stockVars => []LossesAreTold
<1>1. StockInvariant => LossesAreTold
  BY LossesAreToldThen
<1> QED BY <1>1, StockIsKept, PTL
=============================================================================
