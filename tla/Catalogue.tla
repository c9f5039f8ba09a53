----------------------------- MODULE Catalogue -----------------------------
(***************************************************************************)
(* Master data (api/src/routes/setup.ts, services/setup.ts and the screens  *)
(* setup-items and setup-suppliers): categories, items, the packs an item   *)
(* is bought in, suppliers.  Deliveries and orders use them while they      *)
(* change.  A handler looks at what it must not break, then writes, in      *)
(* statements of their own; nothing is ever deleted.                        *)
(***************************************************************************)
EXTENDS Integers, FiniteSets

CONSTANTS
    Category, Item, Pack, Supplier, SupplierName, Order, Unit,
    PackyUnits,   \* units that are packs
    Sizes,        \* sizes a pack can have, in stock units
    Worker,       \* handlers that can be under way at once
    FirstCategories, FirstItems, FirstPacks, FirstSuppliers, \* rows at the start
    MaxCalls      \* bound: handlers started

ASSUME CatalogueAssumption ==
    /\ PackyUnits \subseteq Unit
    /\ Sizes \subseteq Nat \ {0}
    /\ FirstCategories \subseteq Category /\ DOMAIN FirstSuppliers \subseteq Supplier
    /\ DOMAIN FirstItems \subseteq Item /\ DOMAIN FirstPacks \subseteq Pack
    /\ MaxCalls \in Nat

\* The tables' columns and references, and what src/seed/generate.ts leaves: an
\* item that is sold comes in one default pack, which is sold too.
ASSUME FirstRowsAssumption ==
    /\ FirstItems \in [DOMAIN FirstItems -> [category : FirstCategories, unit : Unit, active : BOOLEAN]]
    /\ IsFiniteSet(DOMAIN FirstItems)
    /\ FirstPacks \in [DOMAIN FirstPacks -> [item : DOMAIN FirstItems, size : Sizes,
                                            default : BOOLEAN, active : BOOLEAN]]
    /\ FirstSuppliers \in [DOMAIN FirstSuppliers -> [name : SupplierName, active : BOOLEAN]]
    /\ \A i \in DOMAIN FirstItems : FirstItems[i].active =>
         \E p \in DOMAIN FirstPacks :
           /\ FirstPacks[p].item = i /\ FirstPacks[p].active
           /\ \A q \in DOMAIN FirstPacks : FirstPacks[q].item = i => (FirstPacks[q].default <=> q = p)

VARIABLES
    category, \* is_active of the categories there are
    item,     \* items there are: category, unit, active
    pack,     \* packs there are: item, size, default, active
    supplier, \* suppliers there are: name, active
    order,    \* purchase orders: status and supplier
    used,     \* lines of deliveries and orders: the pack, its size and unit then
    handler,  \* what each worker is doing
    calls,    \* handlers started
    raced,    \* history: what two handlers were about at once, or one was lost on
    astray    \* history: items, packs and suppliers the code lets out of its rules

catalogueVars == <<category, item, pack, supplier, order, used, handler, calls, raced, astray>>
tables == <<category, item, pack, supplier, order, used>>

Keep == "keep"
NoOrder == [status |-> "none"]
Idle == [pc |-> "idle", about |-> {}]
Busy(w) == handler[w] # Idle
WithRow(f, x, row) == [y \in DOMAIN f \cup {x} |-> IF y = x THEN row ELSE f[y]]
Or(new, old) == IF new = Keep THEN old ELSE new
Same == 0 \* a size that the body leaves out
Resized(new, old) == IF new = Same THEN old ELSE new
Switched(new, old) == IF new = Keep THEN old ELSE new = "on"

PacksOf(i) == {p \in DOMAIN pack : pack[p].item = i}

\* GET /items and GET /suppliers offer what is in use, an item with the packs
\* that are still sold.
ActivePacks(i) == {p \in PacksOf(i) : pack[p].active}
itemsOffered == {i \in DOMAIN item : item[i].active}
suppliersOffered == {s \in DOMAIN supplier : supplier[s].active}

\* The overview's gaps: what cannot be ordered, and what has no usual pack.
itemsWithoutPack == {i \in itemsOffered : ActivePacks(i) = {}}
itemsWithoutDefaultPack ==
    {i \in itemsOffered \ itemsWithoutPack : \A p \in ActivePacks(i) : ~pack[p].default}

CatalogueInit ==
    /\ category = [c \in FirstCategories |-> TRUE]
    /\ item = FirstItems
    /\ pack = FirstPacks
    /\ supplier = FirstSuppliers
    /\ order = [o \in Order |-> NoOrder]
    /\ used = {}
    /\ handler = [w \in Worker |-> Idle]
    /\ calls = 0
    /\ raced = {}
    /\ astray = {}

Start(w, h) ==
    /\ ~Busy(w) /\ calls < MaxCalls
    /\ calls' = calls + 1
    /\ handler' = [handler EXCEPT ![w] = h]
    /\ raced' = raced \cup UNION {handler[v].about \cap h.about : v \in Worker}
    /\ UNCHANGED tables

At(w, pc) == handler' = [handler EXCEPT ![w].pc = pc]
End(w) == handler' = [handler EXCEPT ![w] = Idle]
Finish(w) == End(w) /\ UNCHANGED <<calls, raced, astray>>

-----------------------------------------------------------------------------
\* GET /setup/categories counts the items in use.
itemCount(c) == Cardinality({i \in itemsOffered : item[i].category = c})

\* POST /setup/categories; a name there is already is refused by the table.
AddCategory(c) ==
    /\ c \notin DOMAIN category
    /\ category' = WithRow(category, c, TRUE)
    /\ UNCHANGED <<item, pack, supplier, order, used, handler, calls, raced, astray>>

\* PATCH /setup/categories/:id, from the drawer's retire and revive buttons.
StartPatchCategory(w, c, active) ==
    /\ c \in DOMAIN category
    /\ active = "off" => itemCount(c) = 0
    /\ Start(w, [op |-> "category", pc |-> "write", about |-> {c}, of |-> c, active |-> active])
    /\ UNCHANGED astray

WritePatchCategory(w) ==
    LET h == handler[w] IN
    /\ h.pc = "write" /\ h.op = "category"
    /\ category' = [category EXCEPT ![h.of] = Switched(h.active, @)]
    /\ Finish(w)
    /\ UNCHANGED <<item, pack, supplier, order, used>>

\* assertStockUnit: a unit that is a pack is refused.
assertStockUnit(unit) == unit \notin PackyUnits

\* POST /setup/items: the category must be open.
StartAddItem(w, c, unit, size) ==
    /\ assertStockUnit(unit)
    /\ c \in DOMAIN category /\ category[c]
    /\ Start(w, [op |-> "item", pc |-> "insert", about |-> {c}, category |-> c, unit |-> unit, size |-> size])
    /\ UNCHANGED astray

\* One transaction: the item and its packs, the first of them the default.
WriteAddItem(w, i, p) ==
    LET h == handler[w] IN
    /\ h.pc = "insert" /\ h.op = "item"
    /\ i \notin DOMAIN item /\ p \notin DOMAIN pack
    /\ item' = WithRow(item, i, [category |-> h.category, unit |-> h.unit, active |-> TRUE])
    /\ pack' = WithRow(pack, p, [item |-> i, size |-> h.size, default |-> TRUE, active |-> TRUE])
    /\ Finish(w)
    /\ UNCHANGED <<category, supplier, order, used>>

\* Mutant: only an order counts as a movement.
itemHasBeenOrdered(i) == \E u \in used : u.item = i /\ u.how = "order"

itemHasMoved(i) == \E u \in used : u.item = i /\ u.how = "delivery"

\* PATCH /setup/items/:id and its read of the item.  The form sends the category
\* it shows, from a list that may be old; the switch sends on or off alone and
\* looks at no category.
StartPatchItem(w, i, body) ==
    /\ i \in DOMAIN item
    /\ body.category \in DOMAIN category \cup {Keep}
    /\ body.unit \notin {Keep, item[i].unit} => assertStockUnit(body.unit)
    /\ Start(w, [op |-> "item", about |-> {i, item[i].category, Or(body.category, item[i].category)},
                 of |-> i, body |-> body, row |-> item[i],
                 pc |-> IF body.unit \notin {Keep, item[i].unit} THEN "moved?" ELSE "write"])
    /\ astray' = astray \cup
          {x \in {i} : body.active = "on" \/ (body.category # Keep /\ ~category[body.category])}

\* A unit stays once the item has moved.
LookMoved(w) ==
    LET h == handler[w] IN
    /\ h.pc = "moved?"
    /\ IF itemHasMoved(h.of) THEN End(w) ELSE At(w, "write")
    /\ UNCHANGED <<tables, calls, raced, astray>>

WritePatchItem(w) ==
    LET h == handler[w] IN
    /\ h.pc = "write" /\ h.op = "item"
    /\ item' = [item EXCEPT ![h.of] =
                  [category |-> Or(h.body.category, h.row.category), unit |-> Or(h.body.unit, h.row.unit),
                   active |-> Switched(h.body.active, h.row.active)]]
    /\ Finish(w)
    /\ UNCHANGED <<category, pack, supplier, order, used>>

-----------------------------------------------------------------------------
\* clearOtherDefaultPacks: every other default of the item goes.
ClearedBut(i, p) ==
    [q \in DOMAIN pack |-> IF pack[q].item = i /\ q # p THEN [pack[q] EXCEPT !.default = FALSE] ELSE pack[q]]

\* POST /setup/items/:id/packs.
StartAddPack(w, i, size, default) ==
    /\ i \in DOMAIN item
    /\ Start(w, [op |-> "addpack", pc |-> "insert", about |-> {i}, item |-> i, size |-> size, default |-> default])
    /\ UNCHANGED astray

WriteAddPack(w, p) ==
    LET h == handler[w] IN
    /\ h.pc = "insert" /\ h.op = "addpack"
    /\ p \notin DOMAIN pack
    /\ pack' = WithRow(pack, p, [item |-> h.item, size |-> h.size, default |-> h.default, active |-> TRUE])
    /\ handler' = [handler EXCEPT ![w] =
                     IF h.default THEN [pc |-> "clear", about |-> h.about, of |-> p, heir |-> FALSE] ELSE Idle]
    /\ UNCHANGED <<category, item, supplier, order, used, calls, raced, astray>>

\* Mutant: a pack on an order is not in use yet.
packHasBeenDelivered(p) == \E u \in used : u.pack = p /\ u.how = "delivery"

packHasBeenUsed(p) == \E u \in used : u.pack = p

\* PATCH /setup/packs/:id, its read of the pack and its looks at the lines of
\* deliveries and orders and at the other packs.
StartPatchPack(w, p, body) ==
    LET row == pack[p] IN
    /\ p \in DOMAIN pack
    /\ body.size \notin {Same, row.size} => ~packHasBeenUsed(p)
    /\ body.active = "off" => ActivePacks(row.item) \ {p} # {}
    /\ Start(w, [op |-> "pack", pc |-> "write", about |-> {row.item}, of |-> p, body |-> body, row |-> row])
    /\ astray' = astray \cup {x \in {row.item} : body.default /\ ~row.active}

WritePatchPack(w) ==
    LET h == handler[w]
        handsOn == h.body.active = "off" /\ h.row.default
    IN
    /\ h.pc = "write" /\ h.op = "pack"
    /\ pack' = [pack EXCEPT ![h.of] =
                  [item |-> h.row.item, size |-> Resized(h.body.size, h.row.size),
                   default |-> h.body.default \/ h.row.default,
                   active |-> Switched(h.body.active, h.row.active)]]
    /\ handler' = [handler EXCEPT ![w] =
                     IF h.body.default THEN [pc |-> "clear", about |-> h.about, of |-> h.of, heir |-> handsOn]
                     ELSE IF handsOn THEN [pc |-> "heir", about |-> h.about, of |-> h.of]
                     ELSE Idle]
    /\ UNCHANGED <<category, item, supplier, order, used, calls, raced, astray>>

ClearOthers(w) ==
    LET h == handler[w] IN
    /\ h.pc = "clear"
    /\ pack' = ClearedBut(pack[h.of].item, h.of)
    /\ IF h.heir THEN At(w, "heir") ELSE End(w)
    /\ UNCHANGED <<category, item, supplier, order, used, calls, raced, astray>>

\* Mutant: any pack inherits, the retired one as well.
HeirsAll(i, p) == PacksOf(i)

Heirs(i, p) == ActivePacks(i) \ {p}

\* Retiring the default hands the flag on to the oldest pack left.
HandOn(w) ==
    LET h == handler[w]
        i == pack[h.of].item
    IN
    /\ h.pc = "heir"
    /\ \/ /\ Heirs(i, h.of) = {}
          /\ End(w)
          /\ UNCHANGED pack
       \/ \E heir \in Heirs(i, h.of) :
            /\ pack' = [pack EXCEPT ![heir].default = TRUE]
            /\ handler' = [handler EXCEPT ![w] =
                             [pc |-> "clear", about |-> h.about, of |-> heir, heir |-> FALSE]]
    /\ UNCHANGED <<category, item, supplier, order, used, calls, raced, astray>>

-----------------------------------------------------------------------------
\* Mutant: an order that is placed already is not looked at.
OpenOrdersApproved(s) == {o \in Order : order[o].status = "approved" /\ order[o].supplier = s}

OpenOrders(s) == {o \in Order : order[o].status \in {"approved", "ordered"} /\ order[o].supplier = s}

\* POST /setup/suppliers: nobody in use has the name.
StartAddSupplier(w, name) ==
    /\ \A s \in suppliersOffered : supplier[s].name # name
    /\ Start(w, [op |-> "supplier", pc |-> "insert", about |-> {name}, name |-> name])
    /\ UNCHANGED astray

WriteAddSupplier(w, s) ==
    LET h == handler[w] IN
    /\ h.pc = "insert" /\ h.op = "supplier"
    /\ s \notin DOMAIN supplier
    /\ supplier' = WithRow(supplier, s, [name |-> h.name, active |-> TRUE])
    /\ Finish(w)
    /\ UNCHANGED <<category, item, pack, order, used>>

\* PATCH /setup/suppliers/:id, from the switch of the list; the name and the
\* phone that the drawer sends are left out.
StartPatchSupplier(w, s, active) ==
    /\ s \in DOMAIN supplier
    /\ active = "off" => OpenOrders(s) = {}
    /\ Start(w, [op |-> "supplier", pc |-> "write", about |-> {s}, of |-> s, active |-> active])
    /\ astray' = astray \cup
          {x \in {s} : active = "off" /\ \E o \in Order : order[o].status = "requested" /\ order[o].supplier = s}

WritePatchSupplier(w) ==
    LET h == handler[w] IN
    /\ h.pc = "write" /\ h.op = "supplier"
    /\ supplier' = [supplier EXCEPT ![h.of].active = Switched(h.active, @)]
    /\ Finish(w)
    /\ UNCHANGED <<category, item, pack, order, used>>

\* POST /grn and POST /purchase-orders read the pack, its item and the supplier.
\* Only an order looks whether the pack is still sold; a delivery takes what the
\* form still shows.
StartUse(w, how, p, s) ==
    LET row == pack[p] IN
    /\ p \in DOMAIN pack /\ s \in suppliersOffered
    /\ how = "order" => row.active /\ item[row.item].active
    /\ Start(w, [op |-> how, pc |-> "write", about |-> {row.item, s}, supplier |-> s,
                 line |-> [how |-> how, pack |-> p, size |-> row.size,
                           item |-> row.item, unit |-> item[row.item].unit]])
    /\ UNCHANGED astray

WriteDelivery(w) ==
    LET h == handler[w] IN
    /\ h.pc = "write" /\ h.op = "delivery"
    /\ used' = used \cup {h.line}
    /\ Finish(w)
    /\ UNCHANGED <<category, item, pack, supplier, order>>

WriteOrder(w, o) ==
    LET h == handler[w] IN
    /\ h.pc = "write" /\ h.op = "order"
    /\ order[o].status = "none"
    /\ used' = used \cup {h.line}
    /\ order' = [order EXCEPT ![o] = [status |-> "requested", supplier |-> h.supplier]]
    /\ Finish(w)
    /\ UNCHANGED <<category, item, pack, supplier>>

\* An order is decided, delivered or closed; Purchasing has the handlers.  The
\* supplier it names is not looked at again.
Decide(o, status) ==
    /\ order[o].status \in {"requested", "approved", "ordered"}
    /\ order' = [order EXCEPT ![o].status = status]
    /\ raced' = raced \cup UNION {handler[v].about \cap {order[o].supplier} : v \in Worker}
    /\ UNCHANGED <<category, item, pack, supplier, used, handler, calls, astray>>

\* The connection or the process is lost between two statements.
Drop(w) ==
    /\ Busy(w)
    /\ End(w)
    /\ raced' = raced \cup handler[w].about
    /\ UNCHANGED <<tables, calls, astray>>

ItemBodies == [category : Category \cup {Keep}, unit : Unit \cup {Keep}, active : {Keep}]
                \cup [category : {Keep}, unit : {Keep}, active : {"on", "off"}]

\* The screen ticks a default or retires; a new size and reviving come from
\* other callers of the route.
PackBodies == {[size |-> n, default |-> FALSE, active |-> Keep] : n \in Sizes}
                \cup {[size |-> Same, default |-> FALSE, active |-> a] : a \in {"on", "off"}}
                \cup {[size |-> Same, default |-> TRUE, active |-> Keep]}

CatalogueNext ==
    \/ \E w \in Worker :
        \/ \E c \in Category, active \in {"on", "off"} : StartPatchCategory(w, c, active)
        \/ \E c \in Category, unit \in Unit, size \in Sizes : StartAddItem(w, c, unit, size)
        \/ \E i \in Item, p \in Pack : WriteAddItem(w, i, p)
        \/ \E i \in Item, body \in ItemBodies : StartPatchItem(w, i, body)
        \/ \E i \in Item, size \in Sizes, default \in BOOLEAN : StartAddPack(w, i, size, default)
        \/ \E p \in Pack : WriteAddPack(w, p)
        \/ \E p \in DOMAIN pack, body \in PackBodies : StartPatchPack(w, p, body)
        \/ \E s \in Supplier, active \in {"on", "off"} : StartPatchSupplier(w, s, active)
        \/ \E p \in DOMAIN pack, s \in Supplier, how \in {"order", "delivery"} : StartUse(w, how, p, s)
        \/ \E o \in Order : WriteOrder(w, o)
        \/ \E name \in SupplierName : StartAddSupplier(w, name)
        \/ \E s \in Supplier : WriteAddSupplier(w, s)
        \/ WritePatchCategory(w) \/ LookMoved(w) \/ WritePatchItem(w) \/ WritePatchPack(w)
        \/ ClearOthers(w) \/ HandOn(w) \/ WritePatchSupplier(w) \/ WriteDelivery(w) \/ Drop(w)
    \/ \E c \in Category : AddCategory(c)
    \/ \E o \in Order, status \in {"approved", "ordered", "done"} : Decide(o, status)

-----------------------------------------------------------------------------
\* Nothing reinterprets the past: every movement is in the unit its item has now
\* and every line of a delivery or an order in the size its pack has now, unless
\* the change and the use overlapped.
PastStandsAsRead ==
    \A u \in used : u.item \notin raced =>
        /\ u.size = pack[u.pack].size
        /\ u.how = "delivery" => u.unit = item[u.item].unit

\* "Exactly one default purchase pack per item, or the GRN form has to guess",
\* and a pack that is still sold: when no handler is at work on the item, none
\* overlapped or was lost on it, and nobody ticked a pack that was retired since
\* the screen was loaded; and the overview has no gap to show for it then.
OneDefaultPack ==
    \A i \in itemsOffered :
        \/ i \in raced \cup astray
        \/ \E w \in Worker : i \in handler[w].about
        \/ /\ Cardinality({p \in ActivePacks(i) : pack[p].default}) = 1
           /\ i \notin itemsWithoutPack \cup itemsWithoutDefaultPack

\* What is retired is out of use: no item that is sold is filed under a retired
\* category ("Move or retire them first"), no order that is open waits for a
\* retired supplier ("Receive or close it first"), which nobody could receive.
\* The exceptions are overlaps, an item switched on again or filed from an old
\* list, and a supplier retired over an order that was still only asked for.
RetiredIsOutOfUse ==
    /\ \A i \in DOMAIN item :
        item[i].active /\ {i, item[i].category} \cap (raced \cup astray) = {} => category[item[i].category]
    /\ \A s \in Supplier :
        /\ \E o \in Order : order[o].status \in {"approved", "ordered"} /\ order[o].supplier = s
        /\ s \notin raced \cup astray
        => supplier[s].active

\* What a form offers can be used: an item has the one pack it comes in by default,
\* and nothing open hangs on what is retired.
OfferedCanBeUsed == OneDefaultPack /\ RetiredIsOutOfUse
=============================================================================
