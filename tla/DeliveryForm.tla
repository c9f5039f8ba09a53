---------------------------- MODULE DeliveryForm ----------------------------
(***************************************************************************)
(* Receiving a delivery (grn.component.ts) over POST /grn: which order, who *)
(* delivered, what came, check and save.  An order fills the form in; the   *)
(* form keeps one key per document, so that pressing Save again after a     *)
(* lost answer replays the first result (services/idempotency.ts).  Lines   *)
(* are told apart by where they came from, prices are left out.             *)
(***************************************************************************)
EXTENDS Integers, FiniteSets

CONSTANTS Supplier,
          PlacedWith,     \* the orders on the list -> their supplier, or Anyone
          Lorries,        \* deliveries that come to the door, in turn 1..Lorries
          MaxSubmits      \* bound: times Save reaches the server

Anyone == "anyone"
Nothing == "none"
ByHand == "hand"
Orders == DOMAIN PlacedWith

ASSUME DeliveryFormAssumption ==
    /\ Anyone \notin Supplier /\ Nothing \notin Supplier \cup Orders /\ ByHand \notin Orders
    /\ \A o \in Orders : PlacedWith[o] \in Supplier \cup {Anyone}
    /\ Lorries \in Nat \ {0} /\ MaxSubmits \in Nat

VARIABLES stepIndex, po, supplierId, lines,  \* the form; lines: where they came from
          idempotencyKey,
          saving,    \* the call on its way, or NoSave
          saved,     \* the receipt on screen, or Nothing
          filed,     \* the server's deliveries
          finished,  \* orders that are done
          submits,   \* calls sent
          lorry,     \* history: the delivery at the door
          unsure,    \* history: lorries one of whose answers was lost
          restarted, \* history: lorries the form was begun again for while or after asking
          moved      \* history: the form was changed while it was being saved

formVars == <<stepIndex, po, supplierId, lines, idempotencyKey, saving, saved, filed,
              finished, submits, lorry, unsure, restarted, moved>>

NoSave == [key |-> 0, body |-> <<>>, lorry |-> 0, answer |-> "none"]
NoReceipt == {Nothing}
Body == [po |-> po, supplier |-> supplierId, lines |-> lines]
(* Keys minted with no call between them are the same: neither was sent. *)
uuid == submits + 1
Done == saved # NoReceipt
Moves == moved' = (moved \/ saving # NoSave)

DeliveryFormInit ==
    /\ stepIndex = 0 /\ po = Nothing /\ supplierId = Nothing /\ lines = {}
    /\ idempotencyKey = 1
    /\ saving = NoSave /\ saved = NoReceipt
    /\ filed = {} /\ finished = {}
    /\ submits = 0
    /\ lorry = 1 /\ unsure = {} /\ restarted = {} /\ moved = FALSE

SameServer == UNCHANGED <<filed, finished>>
SameHistory == UNCHANGED <<submits, lorry, unsure, restarted>>

(* choose, applyOrder: only the outstanding lines; an order that has none left
   opens on one empty line. *)
choose(o) ==
    /\ stepIndex = 0 /\ ~Done
    /\ po' = o
    /\ supplierId' = IF PlacedWith[o] # Anyone THEN PlacedWith[o] ELSE supplierId
    /\ lines' = {IF o \in finished THEN ByHand ELSE o}
    /\ stepIndex' = 1 /\ Moves
    /\ UNCHANGED <<idempotencyKey, saving, saved>> /\ SameServer /\ SameHistory

enterManually ==
    /\ stepIndex = 0 /\ ~Done
    /\ po' = Nothing /\ supplierId' = Nothing
    /\ lines' = IF lines = {} THEN {ByHand} ELSE lines
    /\ stepIndex' = 1 /\ Moves
    /\ UNCHANGED <<idempotencyKey, saving, saved>> /\ SameServer /\ SameHistory

supplierLocked == po # Nothing /\ PlacedWith[po] # Anyone
setSupplier(s) ==
    /\ stepIndex = 1 /\ ~Done /\ ~supplierLocked /\ s # supplierId
    /\ supplierId' = s /\ Moves
    /\ UNCHANGED <<stepIndex, po, lines, idempotencyKey, saving, saved>>
    /\ SameServer /\ SameHistory

(* addLine, removeLine. *)
editLines(new) ==
    /\ stepIndex = 2 /\ ~Done
    /\ new # lines /\ new \subseteq lines \cup {ByHand}
    /\ lines' = new /\ Moves
    /\ UNCHANGED <<stepIndex, po, supplierId, idempotencyKey, saving, saved>>
    /\ SameServer /\ SameHistory

blocked == \/ stepIndex = 0
           \/ stepIndex = 1 /\ supplierId = Nothing
           \/ stepIndex = 2 /\ lines = {}
next ==
    /\ ~Done /\ stepIndex < 3 /\ ~blocked
    /\ stepIndex' = stepIndex + 1
    /\ lines' = IF stepIndex = 1 /\ lines = {} THEN {ByHand} ELSE lines
    /\ Moves
    /\ UNCHANGED <<po, supplierId, idempotencyKey, saving, saved>> /\ SameServer /\ SameHistory

(* Back, or a tap on a step that is behind; question one throws the order away
   and the key with it. *)
(* Mutant: the lines stay. *)
goBackToKeepingLines(index) ==
    /\ ~Done /\ index < stepIndex
    /\ stepIndex' = index /\ Moves
    /\ IF index = 0
       THEN /\ po' = Nothing /\ supplierId' = Nothing /\ lines' = lines
            /\ idempotencyKey' = uuid
            /\ restarted' = IF saving # NoSave \/ lorry \in unsure THEN restarted \cup {lorry}
                          ELSE restarted
       ELSE UNCHANGED <<po, supplierId, lines, idempotencyKey, restarted>>
    /\ UNCHANGED <<saving, saved, submits, lorry, unsure>> /\ SameServer
goBackTo(index) ==
    /\ ~Done /\ index < stepIndex
    /\ stepIndex' = index /\ Moves
    /\ IF index = 0
       THEN /\ po' = Nothing /\ supplierId' = Nothing /\ lines' = {}
            /\ idempotencyKey' = uuid
            /\ restarted' = IF saving # NoSave \/ lorry \in unsure THEN restarted \cup {lorry}
                          ELSE restarted
       ELSE UNCHANGED <<po, supplierId, lines, idempotencyKey, restarted>>
    /\ UNCHANGED <<saving, saved, submits, lorry, unsure>> /\ SameServer

submit ==
    /\ stepIndex = 3 /\ ~Done /\ saving = NoSave /\ submits < MaxSubmits
    /\ supplierId # Nothing /\ lines # {}
    /\ submits' = submits + 1
    /\ saving' = [key |-> idempotencyKey, body |-> Body, lorry |-> lorry, answer |-> "none"]
    /\ moved' = FALSE
    /\ UNCHANGED <<stepIndex, po, supplierId, lines, idempotencyKey, saved, lorry, unsure,
                   restarted>> /\ SameServer

(* POST /grn: a replay, a key used for another body, an order that is finished
   or placed with somebody else, or one delivery more; it may finish the order. *)
ServeSubmit == LET s == saving
             known == {d \in filed : d.key = s.key}
             order == s.body.po
         IN
    /\ s # NoSave /\ s.answer = "none"
    /\ \/ /\ known # {}
          /\ saving' = [s EXCEPT !.answer = IF \E d \in known : d.body = s.body
                                            THEN "ok" ELSE "refused"]
          /\ SameServer
       \/ /\ known = {}
          /\ order # Nothing
          /\ order \in finished \/ PlacedWith[order] \notin {s.body.supplier, Anyone}
          /\ saving' = [s EXCEPT !.answer = "refused"] /\ SameServer
       \/ /\ known = {}
          /\ order # Nothing => order \notin finished /\ PlacedWith[order] \in {s.body.supplier, Anyone}
          /\ filed' = filed \cup {[key |-> s.key, body |-> s.body, lorry |-> s.lorry]}
          /\ finished' \in IF order = Nothing THEN {finished} ELSE {finished, finished \cup {order}}
          /\ saving' = [s EXCEPT !.answer = "ok"]
    /\ UNCHANGED <<stepIndex, po, supplierId, lines, idempotencyKey, saved, moved>> /\ SameHistory

(* describeSaved reads the form as it is when the answer is there. *)
Recorded ==
    /\ saving.answer = "ok"
    /\ saved' = lines /\ saving' = NoSave
    /\ UNCHANGED <<stepIndex, po, supplierId, lines, idempotencyKey, moved>>
    /\ SameServer /\ SameHistory

(* The answer says no, or does not come.  The form and its key stay. *)
(* Mutant: another press is another document. *)
NotRecordedRenewed(lost) ==
    /\ saving # NoSave /\ (~lost => saving.answer = "refused")
    /\ saving' = NoSave
    /\ unsure' = IF lost THEN unsure \cup {lorry} ELSE unsure
    /\ idempotencyKey' = uuid
    /\ UNCHANGED <<stepIndex, po, supplierId, lines, saved, moved, submits, lorry, restarted>>
    /\ SameServer
NotRecorded(lost) ==
    /\ saving # NoSave /\ (~lost => saving.answer = "refused")
    /\ saving' = NoSave
    /\ unsure' = IF lost THEN unsure \cup {lorry} ELSE unsure
    /\ UNCHANGED <<stepIndex, po, supplierId, lines, idempotencyKey, saved, moved, submits,
                   lorry, restarted>> /\ SameServer

(* A second lorry. *)
startAnother ==
    /\ Done /\ lorry < Lorries
    /\ lorry' = lorry + 1
    /\ saved' = NoReceipt /\ po' = Nothing /\ supplierId' = Nothing /\ lines' = {}
    /\ idempotencyKey' = uuid
    /\ stepIndex' = 0
    /\ UNCHANGED <<saving, submits, unsure, restarted, moved>> /\ SameServer

DeliveryFormNext ==
    \/ \E o \in Orders : choose(o)
    \/ enterManually
    \/ \E s \in Supplier : setSupplier(s)
    \/ \E new \in SUBSET (Orders \cup {ByHand}) : editLines(new)
    \/ next
    \/ \E index \in 0..2 : goBackTo(index)
    \/ submit
    \/ ServeSubmit
    \/ Recorded
    \/ \E lost \in BOOLEAN : NotRecorded(lost)
    \/ startAnother

-----------------------------------------------------------------------------
(* Properties *)

(* No delivery is half of one order and half of another: what is filed against
   an order has lines that came from it or were typed in, from its supplier, and
   what is filed against none has no order's lines (goBackTo: "the one delivery
   this form must never be able to produce").  And the receipt on screen shows
   what was filed, unless Back was pressed while it was being saved, which the
   screen allows. *)
OneOrderPerDelivery ==
    /\ \A d \in filed :
        /\ d.body.lines \subseteq {d.body.po, ByHand}
        /\ d.body.po # Nothing => PlacedWith[d.body.po] \in {d.body.supplier, Anyone}
    /\ Done => moved \/ \E d \in filed : d.lorry = lorry /\ d.body.lines = saved

(* One lorry is booked in twice only by starting the form again after an answer
   that was lost, or while waiting for it: pressing Save on the same form, corrected or not, never does
   it (submit: "the retry replays the first result instead of receiving the
   goods twice"). *)
LorryBookedOnce ==
    \A d, e \in filed : d.lorry = e.lorry /\ d # e => d.lorry \in restarted \cap unsure

(* A lorry is one delivery, and a delivery one order's. *)
DeliveryFiledOnce == OneOrderPerDelivery /\ LorryBookedOnce
=============================================================================
