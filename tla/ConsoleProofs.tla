--------------------------- MODULE ConsoleProofs ---------------------------
(***************************************************************************)
(* Proofs about the console's screens, each over the server it talks to.    *)
(***************************************************************************)
EXTENDS CountSheet, DeliveryForm, Drawers, AskForm, Worklists, Shortfall, Lists, SumsProofs

-----------------------------------------------------------------------------
(* Receiving a delivery. *)

\* The form keeps to one order: question one is asked with none, and a locked supplier is
\* the order's.
FormKept ==
    /\ stepIndex \in 0..3 /\ (stepIndex = 0 => po = Nothing)
    /\ po \in Orders \cup {Nothing}
    /\ lines \subseteq {po, ByHand} \ {Nothing}

CallOut == saving # NoSave

\* A call carries a sent key and the form as it was, for the lorry at the door.
CallKept ==
    /\ Done => ~CallOut
    /\ CallOut =>
        /\ saving.key \in 1..submits /\ saving.lorry = lorry
        /\ saving.answer \in {"none", "ok", "refused"}
        /\ saving.body.lines \subseteq {saving.body.po, ByHand}
        /\ ~moved => saving.body = Body
        /\ saving.key # idempotencyKey => lorry \in restarted
        /\ saving.answer = "ok" => \E d \in filed : d.key = saving.key /\ d.body = saving.body

\* Keys are not used again: one is one delivery, of one lorry.
KeysKept ==
    /\ submits \in Nat /\ idempotencyKey \in 1..submits + 1 /\ lorry \in Nat
    /\ \A d \in filed :
        /\ d.key \in 1..submits /\ d.lorry \in Nat /\ d.lorry <= lorry
        /\ d.key = idempotencyKey \/ (CallOut /\ d.key = saving.key) => d.lorry = lorry
    /\ \A d, e \in filed : d.key = e.key => d = e

\* While its form is still open, a lorry that is booked in has an answer lost or on its
\* way, and if the form has another key by now it was begun again.
BookedKept ==
    \A d \in filed : d.lorry = lorry =>
        /\ Done \/ lorry \in unsure \/ (CallOut /\ saving.key = d.key /\ saving.answer = "ok")
        /\ d.key # idempotencyKey => lorry \in restarted \/ Done

FormInvariant == FormKept /\ CallKept /\ KeysKept /\ BookedKept /\ DeliveryFiledOnce

\* The form is changed, and neither its key nor anything at the server.
LEMMA FormEdited ==
    ASSUME FormInvariant, FormKept', ~Done, Moves,
           UNCHANGED <<idempotencyKey, saving, saved, filed, submits, lorry, unsure, restarted>>
    PROVE  FormInvariant'
<1>1. ~Done' /\ (CallOut' <=> CallOut) /\ (CallOut => moved')
  BY DEF Done, NoReceipt, CallOut, Moves
<1>2. CallKept'
  BY <1>1 DEF FormInvariant, CallKept, NoSave
<1>3. KeysKept'
  BY <1>1 DEF FormInvariant, KeysKept
<1>4. BookedKept'
  BY <1>1 DEF FormInvariant, BookedKept
<1>5. DeliveryFiledOnce'
  BY <1>1 DEF FormInvariant, DeliveryFiledOnce, OneOrderPerDelivery, LorryBookedOnce
<1> QED BY <1>2, <1>3, <1>4, <1>5 DEF FormInvariant

LEMMA EditsKeepForm ==
    ASSUME FormInvariant,
           \/ \E o \in Orders : choose(o)
           \/ enterManually
           \/ \E s \in Supplier : setSupplier(s)
           \/ \E new \in SUBSET (Orders \cup {ByHand}) : editLines(new)
           \/ next
    PROVE  FormInvariant'
<1>1. FormKept
  BY DEF FormInvariant
<1>2. ASSUME NEW o \in Orders, choose(o) PROVE FormInvariant'
  <2>1. FormKept'
    BY <1>2, DeliveryFormAssumption DEF choose, FormKept, Nothing, ByHand, Orders
  <2> QED BY <1>2, <2>1, FormEdited DEF choose, SameServer, SameHistory
<1>3. CASE enterManually
  <2>1. FormKept'
    BY <1>1, <1>3 DEF enterManually, FormKept, Nothing, ByHand
  <2> QED BY <1>3, <2>1, FormEdited DEF enterManually, SameServer, SameHistory
<1>4. ASSUME NEW s \in Supplier, setSupplier(s) PROVE FormInvariant'
  <2>1. FormKept'
    BY <1>1, <1>4 DEF setSupplier, FormKept, Nothing, ByHand
  <2> QED BY <1>4, <2>1, FormEdited DEF setSupplier, SameServer, SameHistory
<1>5. ASSUME NEW new \in SUBSET (Orders \cup {ByHand}), editLines(new) PROVE FormInvariant'
  <2>1. FormKept'
    BY <1>1, <1>5 DEF editLines, FormKept, Nothing, ByHand
  <2> QED BY <1>5, <2>1, FormEdited DEF editLines, SameServer, SameHistory
<1>6. CASE next
  <2>1. FormKept'
    BY <1>1, <1>6 DEF next, FormKept, Nothing, ByHand
  <2> QED BY <1>6, <2>1, FormEdited DEF next, SameServer, SameHistory
<1> QED BY <1>2, <1>3, <1>4, <1>5, <1>6

LEMMA BackKeepsForm ==
    ASSUME FormInvariant, NEW index \in 0..2, goBackTo(index)
    PROVE  FormInvariant'
<1>0. FormKept /\ CallKept /\ KeysKept /\ BookedKept /\ DeliveryFiledOnce
  BY DEF FormInvariant
<1>1. CASE index # 0
  <2>1. FormKept'
    BY <1>0, <1>1 DEF goBackTo, FormKept, Nothing, ByHand
  <2> QED BY <1>1, <2>1, FormEdited DEF goBackTo, SameServer
<1>2. CASE index = 0
  <2>1. /\ ~Done /\ stepIndex' = 0 /\ po' = Nothing /\ lines' = {} /\ idempotencyKey' = submits + 1
        /\ moved' = (moved \/ CallOut)
        /\ restarted' = IF CallOut \/ lorry \in unsure THEN restarted \cup {lorry} ELSE restarted
        /\ UNCHANGED <<saving, saved, submits, lorry, unsure, filed>>
    BY <1>2 DEF goBackTo, Moves, SameServer, uuid, CallOut
  <2>2. ~Done' /\ (CallOut' <=> CallOut)
    BY <2>1 DEF Done, NoReceipt, CallOut
  <2>3. FormKept'
    BY <2>1 DEF FormKept
  <2>4. CallKept'
    BY <1>0, <2>1, <2>2 DEF CallKept
  <2>5. KeysKept'
    BY <1>0, <2>1, <2>2 DEF KeysKept
  <2>6. BookedKept'
    BY <1>0, <2>1, <2>2 DEF BookedKept
  <2>7. DeliveryFiledOnce'
    BY <1>0, <2>1, <2>2 DEF DeliveryFiledOnce, OneOrderPerDelivery, LorryBookedOnce
  <2> QED BY <2>3, <2>4, <2>5, <2>6, <2>7 DEF FormInvariant
<1> QED BY <1>1, <1>2

LEMMA SubmitKeepsForm ==
    ASSUME FormInvariant, submit
    PROVE  FormInvariant'
<1>0. FormKept /\ CallKept /\ KeysKept /\ BookedKept /\ DeliveryFiledOnce
  BY DEF FormInvariant
<1>1. PICK s : s = [key |-> idempotencyKey, body |-> Body, lorry |-> lorry, answer |-> "none"]
  OBVIOUS
<1>2. s.key = idempotencyKey /\ s.body = Body /\ s.lorry = lorry /\ s.answer = "none"
  BY <1>1
<1>3. /\ ~Done /\ ~CallOut /\ submits' = submits + 1 /\ saving' = s /\ moved' = FALSE
      /\ UNCHANGED <<stepIndex, po, supplierId, lines, idempotencyKey, saved, lorry, unsure,
                     restarted, filed>>
  BY <1>1 DEF submit, SameServer, CallOut
<1>4. idempotencyKey \in 1..submits' /\ submits \in Nat
  BY <1>0, <1>3 DEF KeysKept
<1>5. ~Done' /\ CallOut'
  BY <1>2, <1>3, <1>4 DEF Done, NoReceipt, CallOut, NoSave
<1>6. FormKept'
  BY <1>0, <1>3 DEF FormKept
<1>7. CallKept'
  BY <1>0, <1>2, <1>3, <1>4, <1>5 DEF CallKept, FormKept, Body
<1>8. KeysKept'
  BY <1>0, <1>2, <1>3, <1>4 DEF KeysKept
<1>9. BookedKept'
  BY <1>0, <1>3, <1>5 DEF BookedKept
<1>10. DeliveryFiledOnce'
  BY <1>0, <1>3, <1>5 DEF DeliveryFiledOnce, OneOrderPerDelivery, LorryBookedOnce
<1> QED BY <1>6, <1>7, <1>8, <1>9, <1>10 DEF FormInvariant

\* The server answers: a replay or a refusal.
LEMMA AnswerKeepsForm ==
    ASSUME FormInvariant, CallOut, saving.answer = "none", NEW a \in {"ok", "refused"},
           saving' = [saving EXCEPT !.answer = a],
           a = "ok" => \E d \in filed : d.key = saving.key /\ d.body = saving.body,
           UNCHANGED <<stepIndex, po, supplierId, lines, idempotencyKey, saved, moved, filed,
                       submits, lorry, unsure, restarted>>
    PROVE  FormInvariant'
<1>0. FormKept /\ CallKept /\ KeysKept /\ BookedKept /\ DeliveryFiledOnce
  BY DEF FormInvariant
<1>1. /\ saving'.key = saving.key /\ saving'.body = saving.body /\ saving'.lorry = saving.lorry
      /\ saving'.answer = a
  OBVIOUS
<1>2. CallOut' /\ Done' = Done /\ Body' = Body
  BY <1>1 DEF CallOut, NoSave, Done, NoReceipt, Body
<1>3. FormKept'
  BY <1>0 DEF FormKept
<1>4. CallKept'
  BY <1>0, <1>1, <1>2 DEF CallKept
<1>5. KeysKept'
  BY <1>0, <1>1, <1>2 DEF KeysKept
<1>6. BookedKept'
  BY <1>0, <1>1, <1>2 DEF BookedKept
<1>7. DeliveryFiledOnce'
  BY <1>0, <1>2 DEF DeliveryFiledOnce, OneOrderPerDelivery, LorryBookedOnce
<1> QED BY <1>3, <1>4, <1>5, <1>6, <1>7 DEF FormInvariant

\* The server files a delivery.
LEMMA FilingKeepsForm ==
    ASSUME FormInvariant, CallOut, saving.answer = "none",
           saving' = [saving EXCEPT !.answer = "ok"],
           \A d \in filed : d.key # saving.key,
           saving.body.po # Nothing => PlacedWith[saving.body.po] \in {saving.body.supplier, Anyone},
           NEW e, e.key = saving.key, e.body = saving.body, e.lorry = saving.lorry,
           filed' = filed \cup {e},
           UNCHANGED <<stepIndex, po, supplierId, lines, idempotencyKey, saved, moved,
                       submits, lorry, unsure, restarted>>
    PROVE  FormInvariant'
<1>0. FormKept /\ CallKept /\ KeysKept /\ BookedKept /\ DeliveryFiledOnce
  BY DEF FormInvariant
<1>1. /\ saving'.key = saving.key /\ saving'.body = saving.body /\ saving'.lorry = saving.lorry
      /\ saving'.answer = "ok"
  OBVIOUS
<1>2. CallOut' /\ ~Done /\ ~Done' /\ Body' = Body
  BY <1>0, <1>1 DEF CallOut, NoSave, Done, NoReceipt, Body, CallKept
<1>3. FormKept'
  BY <1>0 DEF FormKept
<1>4. CallKept'
  BY <1>0, <1>1, <1>2 DEF CallKept
<1>5. e.lorry = lorry /\ e.key \in 1..submits /\ (e.key # idempotencyKey => lorry \in restarted)
  BY <1>0 DEF CallKept
<1>6. KeysKept'
  BY <1>0, <1>1, <1>2, <1>5 DEF KeysKept
<1>7. BookedKept'
  BY <1>0, <1>1, <1>2, <1>5 DEF BookedKept
<1>8. ASSUME NEW d \in filed, d.lorry = lorry PROVE lorry \in restarted \cap unsure
  <2>1. lorry \in unsure
    BY <1>0, <1>2, <1>8 DEF BookedKept
  <2>2. d.key # idempotencyKey \/ e.key # idempotencyKey
    BY <1>8
  <2> QED BY <1>0, <1>2, <1>5, <1>8, <2>1, <2>2 DEF BookedKept
<1>9. LorryBookedOnce'
  BY <1>0, <1>5, <1>8 DEF DeliveryFiledOnce, LorryBookedOnce
<1>10. OneOrderPerDelivery'
  BY <1>0, <1>2 DEF DeliveryFiledOnce, OneOrderPerDelivery, CallKept
<1> QED BY <1>3, <1>4, <1>6, <1>7, <1>9, <1>10 DEF FormInvariant, DeliveryFiledOnce

LEMMA ServerKeepsForm ==
    ASSUME FormInvariant, ServeSubmit
    PROVE  FormInvariant'
<1>1. PICK s, known : s = saving /\ known = {d \in filed : d.key = s.key}
  OBVIOUS
<1>2. /\ CallOut /\ s.answer = "none"
      /\ UNCHANGED <<stepIndex, po, supplierId, lines, idempotencyKey, saved, moved,
                     submits, lorry, unsure, restarted>>
  BY <1>1 DEF ServeSubmit, CallOut, SameHistory
<1>3. CASE /\ known # {}
           /\ saving' = [s EXCEPT !.answer = IF \E d \in known : d.body = s.body
                                             THEN "ok" ELSE "refused"]
           /\ SameServer
  <2>1. CASE \E d \in known : d.body = s.body
    <3>1. saving' = [saving EXCEPT !.answer = "ok"]
      BY <1>1, <1>3, <2>1
    <3>2. \E d \in filed : d.key = saving.key /\ d.body = saving.body
      BY <1>1, <2>1
    <3> QED BY <1>1, <1>2, <1>3, <3>1, <3>2, AnswerKeepsForm DEF SameServer
  <2>2. CASE ~\E d \in known : d.body = s.body
    <3>1. saving' = [saving EXCEPT !.answer = "refused"]
      BY <1>1, <1>3, <2>2
    <3> QED BY <1>1, <1>2, <1>3, <3>1, AnswerKeepsForm DEF SameServer
  <2> QED BY <2>1, <2>2
<1>4. CASE saving' = [s EXCEPT !.answer = "refused"] /\ SameServer
  BY <1>1, <1>2, <1>4, AnswerKeepsForm DEF SameServer
<1>5. CASE /\ known = {}
           /\ s.body.po # Nothing =>
                s.body.po \notin finished /\ PlacedWith[s.body.po] \in {s.body.supplier, Anyone}
           /\ filed' = filed \cup {[key |-> s.key, body |-> s.body, lorry |-> s.lorry]}
           /\ saving' = [s EXCEPT !.answer = "ok"]
  <2>1. PICK e : e = [key |-> s.key, body |-> s.body, lorry |-> s.lorry]
    OBVIOUS
  <2>2. e.key = saving.key /\ e.body = saving.body /\ e.lorry = saving.lorry
    BY <1>1, <2>1
  <2>3. \A d \in filed : d.key # saving.key
    BY <1>1, <1>5
  <2>4. saving' = [saving EXCEPT !.answer = "ok"] /\ filed' = filed \cup {e}
    BY <1>1, <1>5, <2>1
  <2> QED BY <1>1, <1>2, <1>5, <2>2, <2>3, <2>4, FilingKeepsForm
<1> QED BY <1>1, <1>3, <1>4, <1>5 DEF ServeSubmit

LEMMA ReceiptKeepsForm ==
    ASSUME FormInvariant, Recorded
    PROVE  FormInvariant'
<1>0. FormKept /\ CallKept /\ KeysKept /\ BookedKept /\ DeliveryFiledOnce
  BY DEF FormInvariant
<1>1. /\ saving.answer = "ok" /\ saved' = lines /\ saving' = NoSave
      /\ UNCHANGED <<stepIndex, po, supplierId, lines, idempotencyKey, moved, filed,
                     submits, lorry, unsure, restarted>>
  BY DEF Recorded, SameServer, SameHistory
<1>2. CallOut /\ ~CallOut'
  BY <1>1 DEF CallOut, NoSave
<1>3. Done'
  BY <1>0, <1>1 DEF FormKept, Done, NoReceipt
<1>4. FormKept'
  BY <1>0, <1>1 DEF FormKept
<1>5. CallKept'
  BY <1>1, <1>2 DEF CallKept
<1>6. KeysKept'
  BY <1>0, <1>1, <1>2 DEF KeysKept
<1>7. PICK d \in filed : d.key = saving.key /\ d.body = saving.body
  BY <1>0, <1>1, <1>2 DEF CallKept
<1>8. d.lorry = lorry /\ (~moved => d.body.lines = lines)
  BY <1>0, <1>2, <1>7 DEF KeysKept, CallKept, Body
<1>9. OneOrderPerDelivery'
  BY <1>0, <1>1, <1>7, <1>8 DEF DeliveryFiledOnce, OneOrderPerDelivery
<1>10. LorryBookedOnce'
  BY <1>0, <1>1 DEF DeliveryFiledOnce, LorryBookedOnce
<1>11. BookedKept'
  BY <1>0, <1>1, <1>3 DEF BookedKept
<1> QED BY <1>4, <1>5, <1>6, <1>9, <1>10, <1>11 DEF FormInvariant, DeliveryFiledOnce

LEMMA NoAnswerKeepsForm ==
    ASSUME FormInvariant, NEW lost \in BOOLEAN, NotRecorded(lost)
    PROVE  FormInvariant'
<1>0. FormKept /\ CallKept /\ KeysKept /\ BookedKept /\ DeliveryFiledOnce
  BY DEF FormInvariant
<1>1. /\ CallOut /\ (~lost => saving.answer = "refused") /\ saving' = NoSave
      /\ unsure' = IF lost THEN unsure \cup {lorry} ELSE unsure
      /\ UNCHANGED <<stepIndex, po, supplierId, lines, idempotencyKey, saved, moved, submits,
                     lorry, restarted, filed>>
  BY DEF NotRecorded, SameServer, CallOut
<1>2. ~CallOut' /\ ~Done /\ ~Done'
  BY <1>0, <1>1 DEF CallOut, CallKept, Done, NoReceipt
<1>3. FormKept'
  BY <1>0, <1>1 DEF FormKept
<1>4. CallKept'
  BY <1>2 DEF CallKept
<1>5. KeysKept'
  BY <1>0, <1>1, <1>2 DEF KeysKept
<1>6. BookedKept'
  BY <1>0, <1>1, <1>2 DEF BookedKept
<1>7. DeliveryFiledOnce'
  BY <1>0, <1>1, <1>2 DEF DeliveryFiledOnce, OneOrderPerDelivery, LorryBookedOnce
<1> QED BY <1>3, <1>4, <1>5, <1>6, <1>7 DEF FormInvariant

LEMMA AnotherKeepsForm ==
    ASSUME FormInvariant, startAnother
    PROVE  FormInvariant'
<1>0. FormKept /\ CallKept /\ KeysKept /\ BookedKept /\ DeliveryFiledOnce
  BY DEF FormInvariant
<1>1. /\ Done /\ lorry' = lorry + 1 /\ saved' = NoReceipt /\ po' = Nothing /\ lines' = {}
      /\ idempotencyKey' = submits + 1 /\ stepIndex' = 0
      /\ UNCHANGED <<saving, submits, unsure, restarted, moved, filed>>
  BY DEF startAnother, SameServer, uuid
<1>2. ~CallOut /\ ~CallOut' /\ ~Done'
  BY <1>0, <1>1 DEF CallKept, CallOut, Done
<1>3. FormKept'
  BY <1>1 DEF FormKept
<1>4. CallKept'
  BY <1>2 DEF CallKept
<1>5. KeysKept'
  BY <1>0, <1>1, <1>2 DEF KeysKept
<1>6. \A d \in filed : d.lorry # lorry'
  BY <1>0, <1>1 DEF KeysKept
<1>7. BookedKept'
  BY <1>1, <1>6 DEF BookedKept
<1>8. DeliveryFiledOnce'
  BY <1>0, <1>1, <1>2 DEF DeliveryFiledOnce, OneOrderPerDelivery, LorryBookedOnce
<1> QED BY <1>3, <1>4, <1>5, <1>7, <1>8 DEF FormInvariant

\* One lorry is one delivery and a delivery one order's, on any form, whatever answers are
\* lost and however often Save is pressed (grn.component.ts keeps one key per document and
\* goBackTo throws the order away with its lines): only a form begun again after a lost
\* answer books a lorry in twice.
THEOREM EachLorryIsFiledOnce ==
    DeliveryFormInit /\ [][DeliveryFormNext]_formVars => []DeliveryFiledOnce
<1>1. DeliveryFormInit => FormInvariant
  <2> SUFFICES ASSUME DeliveryFormInit PROVE FormInvariant
    OBVIOUS
  <2>1. ~Done /\ ~CallOut /\ filed = {} /\ submits = 0
    BY DEF DeliveryFormInit, Done, CallOut
  <2>2. FormKept /\ KeysKept
    BY <2>1 DEF DeliveryFormInit, FormKept, KeysKept
  <2> QED BY <2>1, <2>2 DEF FormInvariant, CallKept, BookedKept, DeliveryFiledOnce,
             OneOrderPerDelivery, LorryBookedOnce
<1>2. FormInvariant /\ [DeliveryFormNext]_formVars => FormInvariant'
  <2> SUFFICES ASSUME FormInvariant, [DeliveryFormNext]_formVars PROVE FormInvariant'
    OBVIOUS
  <2>1. CASE UNCHANGED formVars
    <3>1. /\ CallOut' = CallOut /\ Done' = Done /\ Body' = Body
          /\ UNCHANGED <<stepIndex, po, supplierId, lines, idempotencyKey, saving, saved, filed,
                         submits, lorry, unsure, restarted, moved>>
      BY <2>1 DEF formVars, CallOut, Done, Body
    <3> QED BY <3>1 DEF FormInvariant, FormKept, CallKept, KeysKept, BookedKept,
               DeliveryFiledOnce, OneOrderPerDelivery, LorryBookedOnce
  <2> QED BY <2>1, EditsKeepForm, BackKeepsForm, SubmitKeepsForm, ServerKeepsForm, ReceiptKeepsForm,
             NoAnswerKeepsForm, AnotherKeepsForm DEF DeliveryFormNext
<1>3. FormInvariant => DeliveryFiledOnce
  BY DEF FormInvariant
<1> QED BY <1>1, <1>2, <1>3, PTL

-----------------------------------------------------------------------------
(* The counting screen. *)

\* Boxes and figures; a box that was typed in is not blank.
SheetTypes ==
    /\ kept \in [Shelf -> Entry] /\ work \in [Shelf -> Entry]
    /\ entries \in [Sheet -> [Shelf -> Entry]] /\ DOMAIN call = Sheet /\ DOMAIN typed = Sheet
    /\ \A t \in Sheet :
        /\ call[t].boxes \in [Shelf -> Entry] /\ call[t].sends \in [Shelf -> Entry]
        /\ \A l \in typed[t] : entries[t][l] # Blank
        /\ call[t].op \in {"none", "start", "get", "save", "close"}
        /\ call[t].op = "none" => call[t].answer = "none"
        /\ call[t].op \in {"start", "get"} => call[t].next = "show" /\ t \notin shownOn
        /\ call[t].op \in {"save", "close"} => call[t].sends = call[t].boxes
        /\ call[t].op = "close" => call[t].next = "result"
        /\ call[t].op = "save" =>
            /\ call[t].next \in {"close", "leave"}
            /\ \A l \in call[t].typed : call[t].sends[l] # Blank
            /\ \A l \in call[t].typed \ typed[t] : entries[t][l] = Blank
    /\ count = "none" => work = Blanks
    /\ count = "closed" => posted = kept

\* What was typed and saved is what is kept.
WorkKept == \A l \in Shelf : work[l] # Blank => kept[l] = work[l]

\* What is shown on a sheet nobody saved behind, typed over or not, and what its calls carry.
SheetFresh(t) ==
    /\ t \in shownOn =>
        \A l \in Shelf \ typed[t] : work[l] # Blank => entries[t][l] = work[l]
    /\ (call[t].op = "start" /\ call[t].answer = "ok") => work = Blanks
    /\ (call[t].op = "get" /\ call[t].answer = "ok") =>
        \A l \in Shelf : work[l] # Blank => call[t].sends[l] = work[l]
    /\ (call[t].op = "save" /\ call[t].answer = "none") =>
        \A l \in Shelf :
            work[l] # Blank => \/ l \in call[t].typed /\ entries[t][l] # Blank
                               \/ call[t].sends[l] \in {Blank, work[l]}

\* A sheet that has saved and is to close the count closes on what it saved, unless another
\* saved since.
SavedStands ==
    \A t \in Sheet \ behind :
        ((call[t].op = "save" /\ call[t].answer = "ok") \/ call[t].op = "close") =>
            \A l \in Shelf : call[t].boxes[l] = Blank \/ kept[l] = call[t].boxes[l]

SheetInvariant ==
    /\ SheetTypes /\ SavedStands /\ PostsWhatTheSheetShowed
    /\ ~overtaken => WorkKept /\ \A t \in Sheet \ behind : SheetFresh(t)

LEMMA FreshStays ==
    ASSUME NEW u \in Sheet, SheetFresh(u),
           call'[u] = call[u], entries'[u] = entries[u], typed'[u] = typed[u],
           u \in shownOn' => u \in shownOn,
           \A l \in Shelf : work'[l] \in {work[l], Blank}, work = Blanks => work' = Blanks
    PROVE  SheetFresh(u)'
BY DEF SheetFresh, Blank

\* A sheet calls, gives up waiting or is closed: neither the count nor a box changes.
LEMMA CallingKeepsSheet ==
    ASSUME SheetInvariant, NEW t \in Sheet, NEW c, call'[t] = c, DOMAIN call' = Sheet,
           \A u \in Sheet \ {t} : call'[u] = call[u],
           UNCHANGED <<count, kept, posted, entries, typed, work, wanted, behind, overtaken>>,
           shownOn' \subseteq shownOn,
           c.boxes \in [Shelf -> Entry], c.sends \in [Shelf -> Entry],
           c.op \in {"none", "start", "get", "save"}, c.answer = "none",
           c.op \in {"start", "get"} => c.next = "show" /\ t \notin shownOn,
           c.op = "save" =>
               /\ t \in shownOn /\ c.next \in {"close", "leave"}
               /\ c.boxes = entries[t] /\ c.sends = entries[t] /\ c.typed = typed[t]
    PROVE  SheetInvariant'
<1>0. SheetTypes /\ SavedStands /\ PostsWhatTheSheetShowed
  BY DEF SheetInvariant
<1>1. call'[t] = c /\ DOMAIN call' = Sheet /\ \A u \in Sheet \ {t} : call'[u] = call[u]
  OBVIOUS
<1>2. SheetTypes'
  BY <1>0, <1>1 DEF SheetTypes
<1>3. SavedStands'
  BY <1>0, <1>1 DEF SavedStands
<1>4. PostsWhatTheSheetShowed'
  BY <1>0 DEF PostsWhatTheSheetShowed
<1>5. ASSUME ~overtaken PROVE WorkKept' /\ \A u \in Sheet \ behind : SheetFresh(u)'
  <2>1. WorkKept /\ \A u \in Sheet \ behind : SheetFresh(u)
    BY <1>5 DEF SheetInvariant
  <2>2. WorkKept'
    BY <2>1 DEF WorkKept
  <2>3. ASSUME NEW u \in Sheet \ behind PROVE SheetFresh(u)'
    <3>1. CASE u # t
      BY <1>1, <2>1, <3>1, FreshStays
    <3>2. CASE u = t
      <4>1. t \in shownOn' =>
              \A l \in Shelf \ typed'[t] : work'[l] # Blank => entries'[t][l] = work'[l]
        BY <2>1, <3>2 DEF SheetFresh
      <4>2. c.op = "save" =>
              \A l \in Shelf : work[l] # Blank => \/ l \in c.typed /\ entries[t][l] # Blank
                                                  \/ c.sends[l] \in {Blank, work[l]}
        BY <1>0, <2>1, <3>2 DEF SheetFresh, SheetTypes
      <4> QED BY <1>1, <3>2, <4>1, <4>2 DEF SheetFresh
    <3> QED BY <3>1, <3>2
  <2> QED BY <2>2, <2>3
<1> QED BY <1>2, <1>3, <1>4, <1>5 DEF SheetInvariant

LEMMA BlanksType == Blanks \in [Shelf -> Entry]
BY DEF Blanks, Entry

LEMMA SendsKeepSheet ==
    ASSUME SheetInvariant, NEW t \in Sheet, NEW op \in {"start", "get", "save"}, NEW after,
           SheetSends(t, op, after), shownOn' \subseteq shownOn,
           IF op = "save" THEN t \in shownOn /\ after \in {"close", "leave"}
           ELSE t \notin shownOn /\ after = "show",
           UNCHANGED <<count, kept, posted, entries, typed, work, wanted, behind, overtaken>>
    PROVE  SheetInvariant'
<1>1. PICK c : c = [op |-> op, next |-> after, boxes |-> entries[t], sends |-> Payload(entries[t]),
                    typed |-> typed[t], answer |-> "none"]
  OBVIOUS
<1>2. /\ c.op = op /\ c.next = after /\ c.boxes = entries[t] /\ c.sends = entries[t] /\ c.typed = typed[t]
      /\ c.answer = "none"
  BY <1>1 DEF Payload
<1>3. entries[t] \in [Shelf -> Entry]
  BY DEF SheetInvariant, SheetTypes
<1>4. call'[t] = c /\ DOMAIN call' = Sheet /\ \A u \in Sheet \ {t} : call'[u] = call[u]
  BY <1>1 DEF SheetSends, SheetInvariant, SheetTypes
<1> QED BY <1>2, <1>3, <1>4, CallingKeepsSheet

LEMMA ForgottenKeepsSheet ==
    ASSUME SheetInvariant, NEW t \in Sheet, call'[t] = NoCall, DOMAIN call' = Sheet,
           \A u \in Sheet \ {t} : call'[u] = call[u],
           shownOn' \subseteq shownOn,
           UNCHANGED <<count, kept, posted, entries, typed, work, wanted, behind, overtaken>>
    PROVE  SheetInvariant'
<1>1. PICK c : c = NoCall
  OBVIOUS
<1>2. c.op = "none" /\ c.boxes = Blanks /\ c.sends = Blanks /\ c.answer = "none"
  BY <1>1 DEF NoCall
<1> QED BY <1>1, <1>2, BlanksType, CallingKeepsSheet

LEMMA LeavingKeepsSheet ==
    ASSUME SheetInvariant, NEW t \in Sheet, Show(t) \/ finish(t) \/ leaveCount(t) \/ CallFails(t)
    PROVE  SheetInvariant'
<1>1. CASE Show(t)
  BY <1>1, SendsKeepSheet DEF Show
<1>2. CASE finish(t)
  BY <1>2, SendsKeepSheet DEF finish
<1>3. CASE leaveCount(t)
  <2>1. CASE SheetSends(t, "save", "leave") /\ UNCHANGED shownOn
    BY <1>3, <2>1, SendsKeepSheet DEF leaveCount
  <2>2. CASE shownOn' = shownOn \ {t} /\ UNCHANGED call
    <3>1. call[t] = NoCall /\ DOMAIN call = Sheet
      BY <1>3 DEF leaveCount, busy, SheetInvariant, SheetTypes
    <3> QED BY <1>3, <2>2, <3>1, ForgottenKeepsSheet DEF leaveCount
  <2> QED BY <1>3, <2>1, <2>2 DEF leaveCount
<1>4. CASE CallFails(t)
  <2>1. DOMAIN call = Sheet
    BY DEF SheetInvariant, SheetTypes
  <2>2. call'[t] = NoCall /\ DOMAIN call' = Sheet /\ \A u \in Sheet \ {t} : call'[u] = call[u]
    BY <1>4, <2>1 DEF CallFails
  <2> QED BY <1>4, <2>2, ForgottenKeepsSheet DEF CallFails, SameSheet
<1> QED BY <1>1, <1>2, <1>3, <1>4

LEMMA TypingKeepsSheet ==
    ASSUME SheetInvariant, NEW t \in Sheet, NEW l \in Shelf, NEW v \in Entry, setEntry(t, l, v)
    PROVE  SheetInvariant'
<1>0. SheetTypes /\ SavedStands /\ PostsWhatTheSheetShowed
  BY DEF SheetInvariant
<1>1. /\ entries' = [entries EXCEPT ![t][l] = v]
      /\ typed' = [typed EXCEPT ![t] = IF v = Blank THEN @ \ {l} ELSE @ \cup {l}]
      /\ work' = IF v = Blank THEN [work EXCEPT ![l] = Blank] ELSE work
      /\ UNCHANGED <<count, kept, posted, shownOn, call, wanted, behind, overtaken>>
  BY DEF setEntry
<1>2. PICK box : box = entries[t]
  OBVIOUS
<1>3. box \in [Shelf -> Entry] /\ entries' = [entries EXCEPT ![t] = [box EXCEPT ![l] = v]]
  BY <1>0, <1>1, <1>2 DEF SheetTypes
<1>4. /\ entries'[t] = [box EXCEPT ![l] = v] /\ entries' \in [Sheet -> [Shelf -> Entry]]
      /\ \A u \in Sheet \ {t} : entries'[u] = entries[u]
  BY <1>0, <1>3 DEF SheetTypes
<1>5. \A m \in Shelf : entries'[t][m] = IF m = l THEN v ELSE entries[t][m]
  BY <1>2, <1>3, <1>4
<1>6. /\ typed'[t] = IF v = Blank THEN typed[t] \ {l} ELSE typed[t] \cup {l}
      /\ DOMAIN typed' = Sheet /\ \A u \in Sheet \ {t} : typed'[u] = typed[u]
  BY <1>0, <1>1 DEF SheetTypes
<1>7. /\ work' \in [Shelf -> Entry] /\ \A m \in Shelf : work'[m] \in {work[m], Blank}
      /\ v = Blank => work'[l] = Blank
  BY <1>0, <1>1 DEF SheetTypes, Entry
<1>8. work = Blanks => work' = Blanks
  BY <1>7 DEF Blanks
<1>9. SheetTypes'
  <2>1. \A m \in typed'[t] : entries'[t][m] # Blank
    <3>1. \A m \in typed[t] : m # l => entries'[t][m] # Blank
      <4> SUFFICES ASSUME NEW m \in typed[t], m # l PROVE entries'[t][m] # Blank
        OBVIOUS
      <4>1. entries'[t][m] = entries[t][m]
        BY <1>2, <1>3, <1>4
      <4> QED BY <1>0, <4>1 DEF SheetTypes
    <3> QED BY <1>5, <1>6, <3>1
  <2>2. call[t].op = "save" => \A m \in call[t].typed \ typed'[t] : entries'[t][m] = Blank
    <3> SUFFICES ASSUME call[t].op = "save", NEW m \in call[t].typed, m \notin typed'[t]
                 PROVE  entries'[t][m] = Blank
      OBVIOUS
    <3>1. CASE m = l
      BY <1>5, <1>6, <3>1
    <3>2. CASE m # l
      <4>1. m \notin typed[t] /\ entries'[t][m] = entries[t][m]
        BY <1>2, <1>3, <1>4, <1>6, <3>2
      <4> QED BY <1>0, <4>1 DEF SheetTypes
    <3> QED BY <3>1, <3>2
  <2>3. ASSUME NEW u \in Sheet
        PROVE  /\ \A m \in typed'[u] : entries'[u][m] # Blank
               /\ call[u].op = "save" => \A m \in call[u].typed \ typed'[u] : entries'[u][m] = Blank
    <3>1. CASE u = t
      BY <2>1, <2>2, <3>1
    <3>2. CASE u # t
      BY <1>0, <1>4, <1>6, <3>2 DEF SheetTypes
    <3> QED BY <3>1, <3>2
  <2> QED BY <1>0, <1>1, <1>4, <1>6, <1>7, <1>8, <2>3 DEF SheetTypes
<1>10. SavedStands'
  BY <1>0, <1>1 DEF SavedStands
<1>11. PostsWhatTheSheetShowed'
  BY <1>0, <1>1 DEF PostsWhatTheSheetShowed
<1>12. ASSUME ~overtaken PROVE WorkKept' /\ \A u \in Sheet \ behind : SheetFresh(u)'
  <2>1. WorkKept /\ \A u \in Sheet \ behind : SheetFresh(u)
    BY <1>12 DEF SheetInvariant
  <2>2. WorkKept'
    BY <1>1, <1>7, <2>1 DEF WorkKept
  <2>3. ASSUME NEW u \in Sheet \ behind PROVE SheetFresh(u)'
    <3>1. CASE u # t
      BY <1>1, <1>4, <1>6, <1>7, <1>8, <2>1, <3>1, FreshStays
    <3>2. CASE u = t
      <4>1. SheetFresh(t)
        BY <2>1, <3>2
      <4>2. t \in shownOn => \A m \in Shelf \ typed'[t] : work'[m] # Blank => entries'[t][m] = work'[m]
        BY <1>5, <1>6, <1>7, <4>1 DEF SheetFresh
      <4>3. (call[t].op = "save" /\ call[t].answer = "none") =>
              \A m \in Shelf :
                 work'[m] # Blank => \/ m \in call[t].typed /\ entries'[t][m] # Blank
                                     \/ call[t].sends[m] \in {Blank, work'[m]}
        BY <1>5, <1>7, <4>1 DEF SheetFresh
      <4> QED BY <1>1, <1>7, <1>8, <3>2, <4>1, <4>2, <4>3 DEF SheetFresh
    <3> QED BY <3>1, <3>2
  <2> QED BY <2>2, <2>3
<1> QED BY <1>1, <1>9, <1>10, <1>11, <1>12 DEF SheetInvariant

\* The server answers and changes no figure.
LEMMA AnswerKeepsSheet ==
    ASSUME SheetInvariant, NEW t \in Sheet, NEW c, call[t].answer = "none",
           call'[t] = c, DOMAIN call' = Sheet, \A u \in Sheet \ {t} : call'[u] = call[u],
           c.op = call[t].op, c.next = call[t].next, c.boxes = call[t].boxes,
           c.typed = call[t].typed, c.sends \in [Shelf -> Entry],
           c.op # "none", c.op # "get" => c.sends = call[t].sends,
           c.answer # "none", c.op = "save" => c.answer # "ok",
           (c.op = "start" /\ c.answer = "ok") => count = "none",
           (c.op = "get" /\ c.answer = "ok") => c.sends = kept,
           UNCHANGED <<kept, entries, typed, work, shownOn>>,
           behind' = IF c.op = "get" THEN behind \ {t} ELSE behind,
           overtaken => overtaken',
           count' = "none" => count = "none", count' = "closed" => posted' = kept,
           PostsWhatTheSheetShowed'
    PROVE  SheetInvariant'
<1>0. SheetTypes /\ SavedStands
  BY DEF SheetInvariant
<1>1. SheetTypes'
  BY <1>0 DEF SheetTypes
<1>2. SavedStands'
  BY <1>0 DEF SavedStands
<1>3. ASSUME ~overtaken PROVE WorkKept' /\ \A u \in Sheet \ behind' : SheetFresh(u)'
  <2>1. WorkKept /\ \A u \in Sheet \ behind : SheetFresh(u)
    BY <1>3 DEF SheetInvariant
  <2>2. WorkKept'
    BY <2>1 DEF WorkKept
  <2>3. ASSUME NEW u \in Sheet \ behind' PROVE SheetFresh(u)'
    <3>1. CASE u # t
      BY <2>1, <3>1, FreshStays
    <3>2. CASE u = t /\ c.op = "get"
      <4>1. t \notin shownOn'
        BY <1>0, <3>2 DEF SheetTypes
      <4>2. c.answer = "ok" => \A l \in Shelf : work'[l] # Blank => c.sends[l] = work'[l]
        BY <2>1, <3>2 DEF WorkKept
      <4> QED BY <3>2, <4>1, <4>2 DEF SheetFresh
    <3>3. CASE u = t /\ c.op # "get"
      <4>1. SheetFresh(t)
        BY <2>1, <3>3
      <4>2. count = "none" => work = Blanks
        BY <1>0 DEF SheetTypes
      <4> QED BY <3>3, <4>1, <4>2 DEF SheetFresh
    <3> QED BY <3>1, <3>2, <3>3
  <2> QED BY <2>2, <2>3
<1> QED BY <1>1, <1>2, <1>3 DEF SheetInvariant

\* An answer on the call of a sheet.
LEMMA AnswerIs ==
    ASSUME SheetInvariant, NEW t \in Sheet, NEW a, SheetAnswer(t, a), NEW c,
           c = [call[t] EXCEPT !.answer = a]
    PROVE  /\ call'[t] = c /\ DOMAIN call' = Sheet /\ \A u \in Sheet \ {t} : call'[u] = call[u]
           /\ c.op = call[t].op /\ c.next = call[t].next /\ c.boxes = call[t].boxes
           /\ c.typed = call[t].typed /\ c.sends = call[t].sends /\ c.answer = a
           /\ c.sends \in [Shelf -> Entry]
<1>1. DOMAIN call = Sheet /\ call[t].sends \in [Shelf -> Entry]
  BY DEF SheetInvariant, SheetTypes
<1> QED BY <1>1 DEF SheetAnswer

LEMMA ServedKeepsSheet ==
    ASSUME SheetInvariant, NEW t \in Sheet, ServeSheet(t), ServeStart(t) \/ ServeGet(t) \/ ServeClose(t)
    PROVE  SheetInvariant'
<1>0. SheetTypes /\ PostsWhatTheSheetShowed
  BY DEF SheetInvariant
<1>1. call[t].answer = "none" /\ UNCHANGED <<entries, typed, shownOn>>
  BY DEF ServeSheet
<1>2. CASE ServeStart(t)
  <2>1. PICK a \in {"ok", "refused"} :
          SheetAnswer(t, a) /\ (a = "ok" => count = "none" /\ count' = "open")
          /\ (a = "refused" => count' = count)
    BY <1>2 DEF ServeStart
  <2>2. PICK c : c = [call[t] EXCEPT !.answer = a]
    OBVIOUS
  <2>3. /\ call'[t] = c /\ DOMAIN call' = Sheet /\ \A u \in Sheet \ {t} : call'[u] = call[u]
        /\ c.op = call[t].op /\ c.next = call[t].next /\ c.boxes = call[t].boxes
        /\ c.typed = call[t].typed /\ c.sends = call[t].sends /\ c.answer = a
        /\ c.sends \in [Shelf -> Entry]
    BY <2>1, <2>2, AnswerIs
  <2>4. /\ c.op = "start" /\ UNCHANGED <<kept, posted, work, wanted, behind, overtaken>>
        /\ count' = "none" => count = "none"
        /\ count' = "closed" => posted' = kept
    BY <1>0, <1>2, <2>1, <2>3 DEF ServeStart, SheetTypes
  <2>5. PostsWhatTheSheetShowed'
    BY <1>0, <2>1, <2>4 DEF PostsWhatTheSheetShowed
  <2> QED BY <1>1, <2>1, <2>3, <2>4, <2>5, AnswerKeepsSheet
<1>3. CASE ServeGet(t)
  <2>1. PICK c : c = [call[t] EXCEPT !.answer = "ok", !.sends = kept]
    OBVIOUS
  <2>2. /\ call' = [call EXCEPT ![t] = c] /\ call[t].op = "get"
        /\ UNCHANGED <<count, kept, posted, work, wanted, overtaken>> /\ behind' = behind \ {t}
    BY <1>3, <2>1 DEF ServeGet
  <2>3. /\ call'[t] = c /\ DOMAIN call' = Sheet /\ \A u \in Sheet \ {t} : call'[u] = call[u]
        /\ c.op = "get" /\ c.next = call[t].next /\ c.boxes = call[t].boxes
        /\ c.typed = call[t].typed /\ c.sends = kept /\ c.answer = "ok"
    BY <1>0, <2>1, <2>2 DEF SheetTypes
  <2>4. c.sends \in [Shelf -> Entry] /\ (count' = "closed" => posted' = kept)
    BY <1>0, <2>2, <2>3 DEF SheetTypes
  <2>5. PostsWhatTheSheetShowed'
    BY <1>0, <2>2 DEF PostsWhatTheSheetShowed
  <2> QED BY <1>1, <2>2, <2>3, <2>4, <2>5, AnswerKeepsSheet
<1>4. CASE ServeClose(t) /\ count # "open"
  <2>2. PICK c : c = [call[t] EXCEPT !.answer = "refused"]
    OBVIOUS
  <2>3. /\ call'[t] = c /\ DOMAIN call' = Sheet /\ \A u \in Sheet \ {t} : call'[u] = call[u]
        /\ c.op = call[t].op /\ c.next = call[t].next /\ c.boxes = call[t].boxes
        /\ c.typed = call[t].typed /\ c.sends = call[t].sends /\ c.answer = "refused"
        /\ c.sends \in [Shelf -> Entry]
    BY <1>4, <2>2, AnswerIs DEF ServeClose
  <2>4. /\ c.op = "close" /\ UNCHANGED <<count, kept, posted, work, wanted, behind, overtaken>>
        /\ count' = "closed" => posted' = kept
    BY <1>0, <1>4, <2>3 DEF ServeClose, SheetTypes
  <2>5. PostsWhatTheSheetShowed'
    BY <1>0, <2>4 DEF PostsWhatTheSheetShowed
  <2> QED BY <1>1, <2>3, <2>4, <2>5, AnswerKeepsSheet
<1>5. CASE ServeClose(t) /\ count = "open"
  <2>2. PICK c : c = [call[t] EXCEPT !.answer = "ok"]
    OBVIOUS
  <2>3. /\ call'[t] = c /\ DOMAIN call' = Sheet /\ \A u \in Sheet \ {t} : call'[u] = call[u]
        /\ c.op = call[t].op /\ c.next = call[t].next /\ c.boxes = call[t].boxes
        /\ c.typed = call[t].typed /\ c.sends = call[t].sends /\ c.answer = "ok"
        /\ c.sends \in [Shelf -> Entry]
    BY <1>5, <2>2, AnswerIs DEF ServeClose
  <2>4. /\ c.op = "close" /\ count' = "closed" /\ posted' = kept /\ wanted' = c.boxes
        /\ overtaken' = (overtaken \/ t \in behind) /\ UNCHANGED <<kept, work, behind>>
    BY <1>5, <2>3 DEF ServeClose
  <2>5. ASSUME ~overtaken' PROVE \A l \in Shelf : kept[l] = c.boxes[l] \/ c.boxes[l] = Blank
    <3>1. t \in Sheet \ behind /\ call[t].op = "close"
      BY <2>3, <2>4, <2>5
    <3> QED BY <2>3, <3>1 DEF SheetInvariant, SavedStands
  <2>6. PostsWhatTheSheetShowed'
    BY <2>4, <2>5 DEF PostsWhatTheSheetShowed
  <2> QED BY <1>1, <2>3, <2>4, <2>6, AnswerKeepsSheet
<1> QED BY <1>2, <1>3, <1>4, <1>5

LEMMA SaveKeepsSheet ==
    ASSUME SheetInvariant, NEW t \in Sheet, ServeSheet(t), ServeSave(t)
    PROVE  SheetInvariant'
<1>0. SheetTypes /\ SavedStands /\ PostsWhatTheSheetShowed
  BY DEF SheetInvariant
<1>1. /\ call[t].answer = "none" /\ UNCHANGED <<entries, typed, shownOn, count, posted, wanted>>
      /\ call[t].op = "save"
  BY DEF ServeSheet, ServeSave
<1>2. CASE count # "open"
  <2>2. PICK c : c = [call[t] EXCEPT !.answer = "refused"]
    OBVIOUS
  <2>3. /\ call'[t] = c /\ DOMAIN call' = Sheet /\ \A u \in Sheet \ {t} : call'[u] = call[u]
        /\ c.op = call[t].op /\ c.next = call[t].next /\ c.boxes = call[t].boxes
        /\ c.typed = call[t].typed /\ c.sends = call[t].sends /\ c.answer = "refused"
        /\ c.sends \in [Shelf -> Entry]
    BY <1>2, <2>2, AnswerIs DEF ServeSave
  <2>4. /\ UNCHANGED <<kept, work, behind, overtaken>> /\ (count' = "closed" => posted' = kept)
    BY <1>0, <1>1, <1>2 DEF ServeSave, SheetTypes
  <2>5. PostsWhatTheSheetShowed'
    BY <1>0, <1>1, <2>4 DEF PostsWhatTheSheetShowed
  <2> QED BY <1>1, <2>3, <2>4, <2>5, AnswerKeepsSheet
<1>3. CASE count = "open"
  <2>1. PICK carried : carried = call[t].sends
    OBVIOUS
  <2>2. PICK c : c = [call[t] EXCEPT !.answer = "ok"]
    OBVIOUS
  <2>3. /\ call'[t] = c /\ DOMAIN call' = Sheet /\ \A u \in Sheet \ {t} : call'[u] = call[u]
        /\ c.op = call[t].op /\ c.next = call[t].next /\ c.boxes = call[t].boxes
        /\ c.typed = call[t].typed /\ c.sends = call[t].sends /\ c.answer = "ok"
        /\ c.sends \in [Shelf -> Entry]
    BY <1>3, <2>2, AnswerIs DEF ServeSave
  <2>4. /\ kept' = [l \in Shelf |-> IF carried[l] # Blank THEN carried[l] ELSE kept[l]]
        /\ work' = [l \in Shelf |-> IF l \in call[t].typed /\ entries[t][l] # Blank
                                    THEN carried[l] ELSE work[l]]
        /\ behind' = (behind \cup shownOn \cup {u \in Sheet : busy(u)}) \ {t}
        /\ overtaken' = (overtaken \/ t \in behind)
    BY <1>3, <2>1 DEF ServeSave
  <2>5. carried \in [Shelf -> Entry] /\ carried = c.boxes
    BY <1>0, <1>1, <2>1, <2>3 DEF SheetTypes
  <2>6. kept' \in [Shelf -> Entry] /\ work' \in [Shelf -> Entry]
    BY <1>0, <2>4, <2>5 DEF SheetTypes
  <2>7. SheetTypes'
    BY <1>0, <1>1, <1>3, <2>3, <2>6 DEF SheetTypes
  <2>8. \A u \in Sheet \ behind' : u # t =>
          call[u] = NoCall /\ call'[u] = NoCall /\ u \notin shownOn'
    BY <1>1, <2>3, <2>4 DEF busy
  <2>9. NoCall.op = "none"
    BY DEF NoCall
  <2>10. SavedStands'
    <3> SUFFICES ASSUME NEW u \in Sheet \ behind',
                        (call'[u].op = "save" /\ call'[u].answer = "ok") \/ call'[u].op = "close",
                        NEW l \in Shelf
                 PROVE  call'[u].boxes[l] = Blank \/ kept'[l] = call'[u].boxes[l]
      BY DEF SavedStands
    <3>1. u = t
      BY <2>8, <2>9
    <3> QED BY <2>3, <2>4, <2>5, <3>1
  <2>11. PostsWhatTheSheetShowed'
    BY <1>1, <1>3 DEF PostsWhatTheSheetShowed
  <2>12. ASSUME ~overtaken' PROVE WorkKept' /\ \A u \in Sheet \ behind' : SheetFresh(u)'
    <3>1. WorkKept /\ SheetFresh(t)
      BY <2>4, <2>12 DEF SheetInvariant
    <3>2. \A l \in Shelf : l \in call[t].typed => carried[l] # Blank
      BY <1>0, <1>1, <2>1 DEF SheetTypes
    <3>3. \A l \in Shelf :
            work[l] # Blank => \/ l \in call[t].typed /\ entries[t][l] # Blank
                               \/ carried[l] \in {Blank, work[l]}
      BY <1>1, <2>1, <3>1 DEF SheetFresh
    <3>4. WorkKept'
      <4> SUFFICES ASSUME NEW l \in Shelf, work'[l] # Blank PROVE kept'[l] = work'[l]
        BY DEF WorkKept
      <4>1. CASE l \in call[t].typed /\ entries[t][l] # Blank
        BY <2>4, <3>2, <4>1
      <4>2. CASE ~(l \in call[t].typed /\ entries[t][l] # Blank)
        <5>1. work'[l] = work[l] /\ kept[l] = work[l]
          BY <2>4, <3>1, <4>2 DEF WorkKept
        <5> QED BY <2>4, <3>3, <4>2, <5>1
      <4> QED BY <4>1, <4>2
    <3>5. ASSUME t \in shownOn, NEW l \in Shelf \ typed[t], work'[l] # Blank
          PROVE  entries[t][l] = work'[l]
      <4>1. l \in call[t].typed => entries[t][l] = Blank
        BY <1>0, <1>1, <3>5 DEF SheetTypes
      <4>2. work'[l] = work[l]
        BY <2>4, <4>1
      <4> QED BY <3>1, <3>5, <4>2 DEF SheetFresh
    <3>6. SheetFresh(t)'
      BY <1>1, <2>3, <3>5 DEF SheetFresh
    <3>7. ASSUME NEW u \in Sheet \ behind', u # t PROVE SheetFresh(u)'
      BY <2>8, <2>9, <3>7 DEF SheetFresh
    <3> QED BY <3>4, <3>6, <3>7
  <2> QED BY <2>7, <2>10, <2>11, <2>12 DEF SheetInvariant
<1> QED BY <1>2, <1>3

\* A sheet is shown, or goes away, as its call is answered.
LEMMA ShowingKeepsSheet ==
    ASSUME SheetInvariant, NEW t \in Sheet, call[t].answer = "ok", call' = [call EXCEPT ![t] = NoCall],
           NEW boxes \in [Shelf -> Entry], Shown(t, boxes),
           ~overtaken /\ t \notin behind => \A l \in Shelf : work[l] # Blank => boxes[l] = work[l],
           UNCHANGED <<count, kept, posted, work, wanted, behind, overtaken>>
    PROVE  SheetInvariant'
<1>0. SheetTypes /\ SavedStands /\ PostsWhatTheSheetShowed
  BY DEF SheetInvariant
<1>1. /\ call'[t] = NoCall /\ DOMAIN call' = Sheet /\ \A u \in Sheet \ {t} : call'[u] = call[u]
      /\ entries'[t] = boxes /\ entries' \in [Sheet -> [Shelf -> Entry]]
      /\ \A u \in Sheet \ {t} : entries'[u] = entries[u]
      /\ typed'[t] = {} /\ DOMAIN typed' = Sheet /\ \A u \in Sheet \ {t} : typed'[u] = typed[u]
      /\ shownOn' = shownOn \cup {t}
  BY <1>0 DEF Shown, SheetTypes
<1>2. /\ NoCall.op = "none" /\ NoCall.answer = "none" /\ NoCall.boxes = Blanks /\ NoCall.sends = Blanks
  BY DEF NoCall
<1>3. SheetTypes'
  BY <1>0, <1>1, <1>2, BlanksType DEF SheetTypes
<1>4. SavedStands'
  BY <1>0, <1>1, <1>2 DEF SavedStands
<1>5. PostsWhatTheSheetShowed'
  BY <1>0 DEF PostsWhatTheSheetShowed
<1>6. ASSUME ~overtaken PROVE WorkKept' /\ \A u \in Sheet \ behind : SheetFresh(u)'
  <2>1. WorkKept /\ \A u \in Sheet \ behind : SheetFresh(u)
    BY <1>6 DEF SheetInvariant
  <2>2. WorkKept'
    BY <2>1 DEF WorkKept
  <2>3. ASSUME NEW u \in Sheet \ behind PROVE SheetFresh(u)'
    <3>1. CASE u # t
      <4>1. SheetFresh(u) /\ (u \in shownOn' => u \in shownOn)
        BY <1>1, <2>1, <3>1
      <4> QED BY <1>1, <3>1, <4>1, FreshStays
    <3>2. CASE u = t
      BY <1>1, <1>2, <1>6, <2>3, <3>2 DEF SheetFresh
    <3> QED BY <3>1, <3>2
  <2> QED BY <2>2, <2>3
<1> QED BY <1>3, <1>4, <1>5, <1>6 DEF SheetInvariant

LEMMA ReceiveKeepsSheet ==
    ASSUME SheetInvariant, NEW t \in Sheet, Receive(t)
    PROVE  SheetInvariant'
<1>0. SheetTypes /\ SavedStands /\ PostsWhatTheSheetShowed
  BY DEF SheetInvariant
<1>1. PICK c : c = call[t]
  OBVIOUS
<1>2. /\ c.answer = "ok"
      /\ call' = [call EXCEPT ![t] = IF c.next # "close" THEN NoCall
                                     ELSE [c EXCEPT !.op = "close", !.next = "result",
                                                    !.answer = "none"]]
      /\ UNCHANGED <<count, kept, posted, work, wanted, behind, overtaken>>
  BY <1>1 DEF Receive
<1>3. /\ c.op \in {"start", "get", "save", "close"} /\ DOMAIN call = Sheet
      /\ c.op \in {"start", "get"} => c.next = "show"
      /\ c.op = "close" => c.next = "result"
      /\ c.op = "save" => c.next \in {"close", "leave"}
  BY <1>0, <1>1, <1>2 DEF SheetTypes
<1>4. ~overtaken /\ t \notin behind => SheetFresh(t)
  BY DEF SheetInvariant
<1>5. CASE c.op = "start"
  <2>1. Shown(t, seedFromSystem) /\ call' = [call EXCEPT ![t] = NoCall]
    BY <1>1, <1>2, <1>3, <1>5 DEF Receive
  <2>2. seedFromSystem \in [Shelf -> Entry]
    BY CountSheetAssumption DEF seedFromSystem, Entry
  <2>3. ~overtaken /\ t \notin behind => \A l \in Shelf : work[l] = Blank
    BY <1>1, <1>2, <1>4, <1>5 DEF SheetFresh, Blanks
  <2> QED BY <1>1, <1>2, <2>1, <2>2, <2>3, ShowingKeepsSheet
<1>6. CASE c.op = "get"
  <2>1. Shown(t, Resumed(c.sends)) /\ call' = [call EXCEPT ![t] = NoCall]
    BY <1>1, <1>2, <1>3, <1>6 DEF Receive
  <2>2. Resumed(c.sends) \in [Shelf -> Entry]
    BY <1>0, <1>1, CountSheetAssumption DEF Resumed, Entry, SheetTypes
  <2>3. ~overtaken /\ t \notin behind =>
          \A l \in Shelf : work[l] # Blank => Resumed(c.sends)[l] = work[l]
    BY <1>1, <1>2, <1>4, <1>6 DEF SheetFresh, Resumed
  <2> QED BY <1>1, <1>2, <2>1, <2>2, <2>3, ShowingKeepsSheet
<1>7. CASE c.next \in {"leave", "result"}
  <2>1. c.op \notin {"start", "get"} /\ c.next # "close"
    BY <1>3, <1>7
  <2>2. shownOn' = shownOn \ {t} /\ UNCHANGED <<entries, typed>>
    BY <1>1, <1>7, <2>1 DEF Receive, Gone
  <2>3. call'[t] = NoCall /\ DOMAIN call' = Sheet /\ \A u \in Sheet \ {t} : call'[u] = call[u]
    BY <1>2, <1>3, <2>1
  <2> QED BY <1>2, <2>2, <2>3, ForgottenKeepsSheet
<1>8. CASE c.op = "save" /\ c.next = "close"
  <2>1. PICK d : d = [c EXCEPT !.op = "close", !.next = "result", !.answer = "none"]
    OBVIOUS
  <2>2. /\ d.op = "close" /\ d.next = "result" /\ d.answer = "none" /\ d.boxes = c.boxes
        /\ d.sends = c.sends
    BY <2>1
  <2>3. call'[t] = d /\ DOMAIN call' = Sheet /\ \A u \in Sheet \ {t} : call'[u] = call[u]
    BY <1>2, <1>3, <1>8, <2>1
  <2>4. UNCHANGED <<shownOn, entries, typed>>
    BY <1>1, <1>8 DEF Receive, SameSheet
  <2>5. SheetTypes'
    BY <1>0, <1>1, <1>2, <1>8, <2>2, <2>3, <2>4 DEF SheetTypes
  <2>6. SavedStands'
    BY <1>0, <1>1, <1>2, <1>8, <2>2, <2>3 DEF SavedStands
  <2>7. PostsWhatTheSheetShowed'
    BY <1>0, <1>2 DEF PostsWhatTheSheetShowed
  <2>8. ASSUME ~overtaken PROVE WorkKept' /\ \A u \in Sheet \ behind : SheetFresh(u)'
    <3>1. WorkKept /\ \A u \in Sheet \ behind : SheetFresh(u)
      BY <2>8 DEF SheetInvariant
    <3>2. WorkKept'
      BY <1>2, <3>1 DEF WorkKept
    <3>3. ASSUME NEW u \in Sheet \ behind PROVE SheetFresh(u)'
      <4>1. CASE u # t
        BY <1>2, <2>3, <2>4, <3>1, <4>1, FreshStays
      <4>2. CASE u = t
        BY <1>2, <2>2, <2>3, <2>4, <3>1, <4>2 DEF SheetFresh
      <4> QED BY <4>1, <4>2
    <3> QED BY <3>2, <3>3
  <2> QED BY <1>2, <2>5, <2>6, <2>7, <2>8 DEF SheetInvariant
<1> QED BY <1>3, <1>5, <1>6, <1>7, <1>8

\* A closed count took what its sheet showed and what was typed and saved, for any shelf,
\* however many tablets show it and whichever answers are lost (counts.component.ts saves and
\* closes in two calls and resumes on what was saved): only a sheet that saves although
\* another saved since it was shown can spoil it.
THEOREM SheetsArePosted ==
    CountSheetInit /\ [][CountSheetNext]_sheetVars => []SheetIsPosted
<1>1. CountSheetInit => SheetInvariant
  <2> SUFFICES ASSUME CountSheetInit PROVE SheetInvariant
    OBVIOUS
  <2>1. NoCall.op = "none" /\ NoCall.answer = "none" /\ NoCall.boxes = Blanks /\ NoCall.sends = Blanks
    BY DEF NoCall
  <2>2. \A t \in Sheet : call[t] = NoCall /\ entries[t] = Blanks /\ typed[t] = {}
    BY DEF CountSheetInit
  <2>3. SheetTypes
    BY <2>1, <2>2, BlanksType DEF CountSheetInit, SheetTypes
  <2>4. SavedStands /\ PostsWhatTheSheetShowed
    BY <2>1, <2>2 DEF CountSheetInit, SavedStands, PostsWhatTheSheetShowed
  <2>5. WorkKept
    BY DEF CountSheetInit, WorkKept
  <2>6. \A t \in Sheet : SheetFresh(t)
    BY <2>1, <2>2 DEF CountSheetInit, SheetFresh
  <2> QED BY <2>3, <2>4, <2>5, <2>6 DEF SheetInvariant
<1>2. SheetInvariant /\ [CountSheetNext]_sheetVars => SheetInvariant'
  <2> SUFFICES ASSUME SheetInvariant, [CountSheetNext]_sheetVars PROVE SheetInvariant'
    OBVIOUS
  <2>1. CASE UNCHANGED sheetVars
    <3>1. UNCHANGED <<count, kept, posted, shownOn, entries, call, typed, work, wanted, behind, overtaken>>
      BY <2>1 DEF sheetVars
    <3> QED BY <3>1 DEF SheetInvariant, SheetTypes, SavedStands, PostsWhatTheSheetShowed, WorkKept,
               SheetFresh
  <2>2. ASSUME NEW t \in Sheet, ServeSheet(t) PROVE SheetInvariant'
    BY <2>2, ServedKeepsSheet, SaveKeepsSheet DEF ServeSheet
  <2> QED BY <2>1, <2>2, LeavingKeepsSheet, TypingKeepsSheet, ReceiveKeepsSheet DEF CountSheetNext
<1>3. SheetInvariant => SheetIsPosted
  BY DEF SheetInvariant, SheetIsPosted, SheetTypes, WorkKept, TypedWorkIsPosted
<1> QED BY <1>1, <1>2, <1>3, PTL

-----------------------------------------------------------------------------
(* AskForm: what the form says is short, and one request for one need. *)

\* At most one call has a form waiting for it, and only while the drawer is open; it
\* is about what the section needs now, and its lines are those of the form
\* unless a line was changed meanwhile.  A request that was asked without a
\* doubt is of a need the section has had: only the last one can still be there.
AskCalls == [no : Nat, op : {"check", "ask"}, lines : SUBSET LineOf, need : Nat, form : BOOLEAN]
AskTypes ==
    /\ askLines \in Seq(LineOf) /\ need \in 1..Needs /\ sends \in Nat
    /\ talking \subseteq AskCalls
    /\ sentAsks \subseteq [no : Nat, need : Nat]
OneFormWaits ==
    /\ \A c, d \in talking : c.form /\ d.form => c = d
    /\ \A c \in talking : c.form => asking
LinesAreTheForms ==
    "awaited" \notin outOfDate => \A c \in talking : c.form => c.lines \subseteq linesAsked
NeedsInTurn ==
    /\ \A c \in talking : c.form => c.need = need
    /\ \A c \in talking : c.op = "ask" /\ ~c.form => c.need \in doubtful
    /\ \A a \in sentAsks : a.need \in doubtful \/ a.need < need \/ need = Needs
AskInvariant ==
    /\ AskTypes /\ OneFormWaits /\ LinesAreTheForms /\ NeedsInTurn
    /\ ShortOfWhatIsAsked /\ AskedOnce

LEMMA AskBegins == AskFormInit => AskInvariant
<1> SUFFICES ASSUME AskFormInit PROVE AskInvariant
  OBVIOUS
<1>1. EmptyLine \in LineOf
  BY AskFormAssumption DEF EmptyLine, LineOf
<1>2. askLines \in Seq(LineOf) /\ need \in 1..Needs
  BY <1>1, AskFormAssumption DEF AskFormInit
<1>3. AskTypes
  BY <1>2 DEF AskFormInit, AskTypes
<1> QED BY <1>3 DEF AskFormInit, AskInvariant, OneFormWaits, LinesAreTheForms, NeedsInTurn,
                    ShortOfWhatIsAsked, AskedOnce

\* What a drawer that opens or closes, or a line that is changed, does to the form.
LEMMA DrawerKeepsAsk ==
    ASSUME AskInvariant, OpenAsk \/ CloseAsk
    PROVE  AskInvariant'
<1>1. AskTypes /\ OneFormWaits /\ LinesAreTheForms /\ NeedsInTurn /\ AskedOnce
  BY DEF AskInvariant
<1>2. askLines' \in Seq(LineOf)
  <2>1. EmptyLine \in LineOf
    BY AskFormAssumption DEF EmptyLine, LineOf
  <2>2. askLines' = <<EmptyLine>>
    BY DEF OpenAsk, CloseAsk
  <2> QED BY <2>1, <2>2
<1>3. CASE OpenAsk
  <2>1. \A c \in talking : ~c.form
    BY <1>1, <1>3 DEF OneFormWaits, OpenAsk
  <2>2. AskTypes'
    BY <1>1, <1>2, <1>3 DEF AskTypes, OpenAsk, SameRest
  <2>3. OneFormWaits' /\ LinesAreTheForms' /\ ShortOfWhatIsAsked'
    BY <1>3, <2>1 DEF OneFormWaits, LinesAreTheForms, ShortOfWhatIsAsked, OpenAsk
  <2>4. NeedsInTurn' /\ AskedOnce'
    BY <1>1, <1>3 DEF NeedsInTurn, AskedOnce, OpenAsk, SameRest
  <2> QED BY <2>2, <2>3, <2>4 DEF AskInvariant
<1>4. CASE CloseAsk
  <2>1. \A d \in talking' : \E c \in talking : d = [c EXCEPT !.form = FALSE]
    BY <1>4 DEF CloseAsk
  <2>2. ASSUME NEW d \in talking'
        PROVE  d \in AskCalls /\ ~d.form /\ (d.op = "ask" => d.need \in doubtful')
    <3>1. PICK c \in talking : d = [c EXCEPT !.form = FALSE]
      BY <2>1
    <3>2. c \in AskCalls
      BY <1>1 DEF AskTypes
    <3>3. d \in AskCalls /\ d.op = c.op /\ d.need = c.need /\ ~d.form
      BY <3>1, <3>2 DEF AskCalls
    <3>4. c.op = "ask" => c.need \in doubtful'
      BY <1>4 DEF CloseAsk
    <3> QED BY <3>3, <3>4
  <2>3. doubtful \subseteq doubtful' /\ UNCHANGED <<sentAsks, sends, need>> /\ shortages' = {}
    BY <1>4 DEF CloseAsk, SameRest
  <2>4. AskTypes'
    BY <1>1, <1>2, <2>2, <2>3 DEF AskTypes
  <2>5. OneFormWaits' /\ LinesAreTheForms' /\ ShortOfWhatIsAsked'
    BY <2>2, <2>3 DEF OneFormWaits, LinesAreTheForms, ShortOfWhatIsAsked
  <2>6. NeedsInTurn' /\ AskedOnce'
    BY <1>1, <2>2, <2>3 DEF NeedsInTurn, AskedOnce
  <2> QED BY <2>4, <2>5, <2>6 DEF AskInvariant
<1> QED BY <1>3, <1>4

\* The lines of the form are changed: what is short is forgotten, or out of date, and
\* what is being checked is of other lines.
LEMMA EditingKeepsAsk ==
    ASSUME AskInvariant,
           \/ \E n \in DOMAIN askLines, l \in LineOf : Edit([askLines EXCEPT ![n] = l])
           \/ addLine
           \/ \E n \in DOMAIN askLines : removeLine(n)
    PROVE  AskInvariant'
<1>1. AskTypes /\ OneFormWaits /\ LinesAreTheForms /\ NeedsInTurn /\ ShortOfWhatIsAsked /\ AskedOnce
  BY DEF AskInvariant
<1>2. UNCHANGED <<asking, talking, doubtful, sentAsks, sends, need>>
  BY DEF Edit, addLine, removeLine, SameRest
<1>3. OneFormWaits' /\ NeedsInTurn' /\ AskedOnce'
  BY <1>1, <1>2 DEF OneFormWaits, NeedsInTurn, AskedOnce
<1>4. askLines \in Seq(LineOf) /\ EmptyLine \in LineOf
  BY <1>1, AskFormAssumption DEF AskTypes, EmptyLine, LineOf
<1>5. CASE \E n \in DOMAIN askLines, l \in LineOf : Edit([askLines EXCEPT ![n] = l])
  <2>1. askLines' \in Seq(LineOf) /\ shortages' = {}
    BY <1>4, <1>5 DEF Edit
  <2>2. outOfDate' = IF waiting THEN {"awaited"} ELSE {}
    BY <1>5 DEF Edit
  <2>3. AskTypes' /\ ShortOfWhatIsAsked'
    BY <1>1, <1>2, <2>1 DEF AskTypes, ShortOfWhatIsAsked
  <2>4. LinesAreTheForms'
    BY <1>2, <2>2 DEF LinesAreTheForms, waiting
  <2> QED BY <1>3, <2>3, <2>4 DEF AskInvariant
<1>6. CASE addLine
  <2>1. askLines' = Append(askLines, EmptyLine) /\ UNCHANGED <<shortages, outOfDate>>
    BY <1>6 DEF addLine
  <2>2. askLines' \in Seq(LineOf)
    BY <1>4, <2>1
  <2>3. linesAsked \subseteq linesAsked'
    BY <1>4, <2>1 DEF linesAsked
  <2>4. AskTypes'
    BY <1>1, <1>2, <2>2 DEF AskTypes
  <2>5. ShortOfWhatIsAsked' /\ LinesAreTheForms'
    BY <1>1, <1>2, <2>1, <2>3 DEF ShortOfWhatIsAsked, LinesAreTheForms
  <2> QED BY <1>3, <2>4, <2>5 DEF AskInvariant
<1>7. CASE \E n \in DOMAIN askLines : removeLine(n)
  <2>1. PICK n \in DOMAIN askLines : removeLine(n)
    BY <1>7
  <2>2. /\ Len(askLines) > 1
        /\ askLines' = [m \in 1..Len(askLines) - 1 |-> askLines[IF m < n THEN m ELSE m + 1]]
        /\ outOfDate' = IF waiting THEN {"shown", "awaited"} ELSE {"shown"}
    BY <2>1 DEF removeLine
  <2>3. \A m \in 1..Len(askLines) - 1 : askLines[IF m < n THEN m ELSE m + 1] \in LineOf
    BY <1>4, <2>2
  <2>4. askLines' \in Seq(LineOf)
    BY <1>4, <2>2, <2>3
  <2>5. AskTypes'
    BY <1>1, <1>2, <2>4 DEF AskTypes
  <2>6. ShortOfWhatIsAsked' /\ LinesAreTheForms'
    BY <1>2, <2>2 DEF ShortOfWhatIsAsked, LinesAreTheForms, waiting
  <2> QED BY <1>3, <2>5, <2>6 DEF AskInvariant
<1> QED BY <1>5, <1>6, <1>7

\* A call is made when none is waited for.
LEMMA SayingKeepsAsk ==
    ASSUME AskInvariant, check \/ submitAsk
    PROVE  AskInvariant'
<1>1. AskTypes /\ OneFormWaits /\ LinesAreTheForms /\ NeedsInTurn /\ ShortOfWhatIsAsked /\ AskedOnce
  BY DEF AskInvariant
<1>2. PICK op \in {"check", "ask"} : asking /\ ~waiting /\ Say(op)
  BY DEF check, submitAsk
<1>3. PICK d : d = [no |-> sends + 1, op |-> op, lines |-> payloadLines, need |-> need, form |-> TRUE]
  OBVIOUS
<1>4. /\ talking' = talking \cup {d} /\ sends' = sends + 1
      /\ outOfDate' = outOfDate \ {"awaited"}
      /\ UNCHANGED <<asking, askLines, shortages, sentAsks, need, doubtful>>
  BY <1>2, <1>3 DEF Say
<1>5. payloadLines \subseteq linesAsked /\ linesAsked \subseteq LineOf
  BY <1>1 DEF payloadLines, linesAsked, AskTypes
<1>6. d \in AskCalls /\ d.form /\ d.need = need /\ d.lines = payloadLines
  BY <1>1, <1>3, <1>5 DEF AskCalls, AskTypes
<1>7. \A c \in talking : ~c.form
  BY <1>2 DEF waiting
<1>8. AskTypes'
  BY <1>1, <1>4, <1>6 DEF AskTypes
<1>9. linesAsked' = linesAsked
  BY <1>4 DEF linesAsked
<1>10. OneFormWaits' /\ LinesAreTheForms'
  BY <1>2, <1>4, <1>5, <1>6, <1>7, <1>9 DEF OneFormWaits, LinesAreTheForms
<1>11. NeedsInTurn' /\ AskedOnce'
  BY <1>1, <1>4, <1>6 DEF NeedsInTurn, AskedOnce
<1>12. ShortOfWhatIsAsked'
  BY <1>1, <1>4, <1>9 DEF ShortOfWhatIsAsked
<1> QED BY <1>8, <1>10, <1>11, <1>12 DEF AskInvariant

\* The store is looked at: what it is short of are lines of the call.
LEMMA CheckedKeepsAsk ==
    ASSUME AskInvariant, NEW c \in talking, NEW held \in OnShelf, Checked(c, held)
    PROVE  AskInvariant'
<1>1. AskTypes /\ OneFormWaits /\ LinesAreTheForms /\ NeedsInTurn /\ ShortOfWhatIsAsked /\ AskedOnce
  BY DEF AskInvariant
<1>2. talking' = talking \ {c} /\ UNCHANGED <<asking, askLines, doubtful, sentAsks, sends, need>>
  BY DEF Checked, SameRest
<1>3. AskTypes' /\ OneFormWaits' /\ NeedsInTurn' /\ AskedOnce'
  BY <1>1, <1>2 DEF AskTypes, OneFormWaits, NeedsInTurn, AskedOnce
<1>4. linesAsked' = linesAsked
  BY <1>2 DEF linesAsked
<1>5. CASE c.form
  <2>1. /\ shortages' = shortagesFor(c.lines, held)
        /\ outOfDate' = IF "awaited" \in outOfDate THEN {"shown"} ELSE {}
    BY <1>5 DEF Checked
  <2>2. "awaited" \notin outOfDate => c.lines \subseteq linesAsked
    BY <1>1, <1>5 DEF LinesAreTheForms
  <2>3. ShortOfWhatIsAsked'
    BY <1>4, <2>1, <2>2 DEF ShortOfWhatIsAsked, shortagesFor
  <2>4. \A d \in talking' : ~d.form
    BY <1>1, <1>2, <1>5 DEF OneFormWaits
  <2>5. LinesAreTheForms'
    BY <2>4 DEF LinesAreTheForms
  <2> QED BY <1>3, <2>3, <2>5 DEF AskInvariant
<1>6. CASE ~c.form
  <2>1. UNCHANGED <<shortages, outOfDate>>
    BY <1>6 DEF Checked
  <2>2. ShortOfWhatIsAsked' /\ LinesAreTheForms'
    BY <1>1, <1>2, <1>4, <2>1 DEF ShortOfWhatIsAsked, LinesAreTheForms
  <2> QED BY <1>3, <2>2 DEF AskInvariant
<1> QED BY <1>5, <1>6

\* The server has the request: the first of its need, or one that is doubted.
LEMMA SentKeepsAsk ==
    ASSUME AskInvariant, NEW c \in talking, Sent(c)
    PROVE  AskInvariant'
<1>1. AskTypes /\ OneFormWaits /\ LinesAreTheForms /\ NeedsInTurn /\ ShortOfWhatIsAsked /\ AskedOnce
  BY DEF AskInvariant
<1>2. PICK new : new = [no |-> c.no, need |-> c.need]
  OBVIOUS
<1>3. /\ c.op = "ask" /\ talking' = talking \ {c} /\ sentAsks' = sentAsks \cup {new}
      /\ UNCHANGED <<sends, doubtful>>
      /\ need = Needs => ~c.form \/ sentAsks = {}
  BY <1>2 DEF Sent
<1>4. c \in AskCalls /\ need \in 1..Needs /\ Needs \in Nat
  BY <1>1, AskFormAssumption DEF AskTypes
<1>5. new \in [no : Nat, need : Nat] /\ new.need = c.need
  BY <1>2, <1>4 DEF AskCalls
<1>6. \A a \in sentAsks : a.need \in Nat
  BY <1>1 DEF AskTypes
<1>7. CASE c.form
  <2>1. /\ asking' = FALSE /\ askLines' = <<EmptyLine>> /\ shortages' = {} /\ outOfDate' = {}
        /\ need' = IF need < Needs THEN need + 1 ELSE need
    BY <1>7 DEF Sent
  <2>2. \A d \in talking' : ~d.form
    BY <1>1, <1>3, <1>7 DEF OneFormWaits
  <2>3. askLines' \in Seq(LineOf)
    BY <2>1, AskFormAssumption DEF EmptyLine, LineOf
  <2>4. need' \in 1..Needs
    BY <1>4, <2>1
  <2>5. AskTypes'
    BY <1>1, <1>3, <1>5, <2>3, <2>4 DEF AskTypes
  <2>6. OneFormWaits' /\ LinesAreTheForms' /\ ShortOfWhatIsAsked'
    BY <2>1, <2>2 DEF OneFormWaits, LinesAreTheForms, ShortOfWhatIsAsked
  <2>7. c.need = need
    BY <1>1, <1>7 DEF NeedsInTurn
  <2>8. \A a \in sentAsks : a.need \in doubtful \/ a.need < need \/ need = Needs
    BY <1>1 DEF NeedsInTurn
  <2>9. \A a \in sentAsks : a.need = c.need => a.need \in doubtful
    BY <1>3, <1>4, <1>6, <1>7, <2>7, <2>8
  <2>10. \A a \in sentAsks' : a.need \in doubtful' \/ a.need < need' \/ need' = Needs
    <3> SUFFICES ASSUME NEW a \in sentAsks', a.need \notin doubtful', need' # Needs PROVE a.need < need'
      OBVIOUS
    <3>1. CASE a = new
      <4>1. need < need'
        <5>1. CASE need < Needs
          BY <1>4, <2>1, <5>1
        <5>2. CASE ~(need < Needs)
          BY <1>4, <2>1, <5>2
        <5> QED BY <5>1, <5>2
      <4> QED BY <1>5, <2>7, <3>1, <4>1
    <3>2. CASE a \in sentAsks
      BY <1>3, <1>4, <1>6, <2>1, <2>8, <3>2
    <3> QED BY <1>3, <3>1, <3>2
  <2>11. NeedsInTurn'
    BY <1>1, <1>3, <2>2, <2>10 DEF NeedsInTurn
  <2>12. AskedOnce'
    BY <1>1, <1>3, <1>5, <2>9 DEF AskedOnce
  <2> QED BY <2>5, <2>6, <2>11, <2>12 DEF AskInvariant
<1>8. CASE ~c.form
  <2>1. UNCHANGED <<asking, askLines, shortages, outOfDate, need>>
    BY <1>8 DEF Sent
  <2>2. c.need \in doubtful
    BY <1>1, <1>3, <1>8 DEF NeedsInTurn
  <2>3. AskTypes'
    BY <1>1, <1>3, <1>5, <2>1 DEF AskTypes
  <2>4. linesAsked' = linesAsked
    BY <2>1 DEF linesAsked
  <2>5. OneFormWaits' /\ LinesAreTheForms' /\ ShortOfWhatIsAsked'
    BY <1>1, <1>3, <2>1, <2>4 DEF OneFormWaits, LinesAreTheForms, ShortOfWhatIsAsked
  <2>6. NeedsInTurn' /\ AskedOnce'
    BY <1>1, <1>3, <1>5, <2>1, <2>2 DEF NeedsInTurn, AskedOnce
  <2> QED BY <2>3, <2>5, <2>6 DEF AskInvariant
<1> QED BY <1>7, <1>8

\* An answer is lost, which puts the need in doubt if the server has it.
LEMMA UnansweredKeepsAsk ==
    ASSUME AskInvariant, NEW c \in talking, NEW done \in BOOLEAN, Unanswered(c, done)
    PROVE  AskInvariant'
<1>1. AskTypes /\ OneFormWaits /\ LinesAreTheForms /\ NeedsInTurn /\ ShortOfWhatIsAsked /\ AskedOnce
  BY DEF AskInvariant
<1>2. PICK new : new = [no |-> c.no, need |-> c.need]
  OBVIOUS
<1>3. /\ talking' = talking \ {c}
      /\ UNCHANGED <<asking, askLines, shortages, sends, need, outOfDate>>
      /\ doubtful \subseteq doubtful'
      /\ sentAsks' = sentAsks \/ (sentAsks' = sentAsks \cup {new} /\ c.need \in doubtful')
  BY <1>2 DEF Unanswered
<1>4. new \in [no : Nat, need : Nat] /\ new.need = c.need
  BY <1>1, <1>2 DEF AskTypes, AskCalls
<1>5. AskTypes'
  BY <1>1, <1>3, <1>4 DEF AskTypes
<1>6. linesAsked' = linesAsked
  BY <1>3 DEF linesAsked
<1>7. OneFormWaits' /\ LinesAreTheForms' /\ ShortOfWhatIsAsked'
  BY <1>1, <1>3, <1>6 DEF OneFormWaits, LinesAreTheForms, ShortOfWhatIsAsked
<1>8. NeedsInTurn' /\ AskedOnce'
  BY <1>1, <1>3, <1>4 DEF NeedsInTurn, AskedOnce
<1> QED BY <1>5, <1>7, <1>8 DEF AskInvariant

\* What a section asks for is what its form shows, and is asked for once: the
\* shortages on screen are lines of the form, and a need has one request, unless
\* an answer was lost or the drawer closed on it (AskedAsShown).
THEOREM NeedsAreAskedOnce == AskFormInit /\ [][AskFormNext]_askVars => []AskedAsShown
<1>1. AskInvariant /\ UNCHANGED askVars => AskInvariant'
  BY DEF askVars, AskInvariant, AskTypes, OneFormWaits, LinesAreTheForms, NeedsInTurn,
         ShortOfWhatIsAsked, AskedOnce, linesAsked
<1>2. AskInvariant /\ [AskFormNext]_askVars => AskInvariant'
  BY <1>1, DrawerKeepsAsk, EditingKeepsAsk, SayingKeepsAsk, CheckedKeepsAsk, SentKeepsAsk,
     UnansweredKeepsAsk DEF AskFormNext
<1>3. AskInvariant => AskedAsShown
  BY DEF AskInvariant, AskedAsShown
<1> QED BY AskBegins, <1>2, <1>3, PTL

-----------------------------------------------------------------------------
(* Drawers: what is submitted is about the thing the drawer names. *)

\* Unless it was hurried, a drawer that names a thing shows that thing's lines or
\* none, and waits for no other; a return's figures were typed for it.  A release
\* drawer that is closed is empty, since a press does not empty it.
DrawerTypes ==
    /\ drawer \in DrawerKinds
    /\ heading \in Thing \cup {NoThing} /\ contents \in Thing \cup {NoThing}
    /\ coming \subseteq [id : Nat, thing : Thing \cup {NoThing}, suggested : BOOLEAN]
    /\ answers \in Nat
    /\ \A c \in coming : c.suggested => drawer.name = "ask"
ShowsWhatItNames ==
    ~hurried /\ drawer.name # "prices" /\ heading # NoThing
        => contents \in {NoThing, heading} /\ \A c \in coming : c.thing = heading
ClosedIsEmpty == drawer.name = "release" /\ ~open => contents = NoThing
TypedForIt ==
    ~hurried /\ drawer.name = "return" /\ heading # NoThing => figures \subseteq {heading}
RightlyAddressed(s) ==
    /\ drawer.to # "none" /\ s.to \in Thing
    /\ s.to = s.heading \/ (hurried /\ drawer.name = "release")
    /\ drawer.name = "return" => hurried \/ s.about = {s.to}
AllAddressed ==
    /\ sending # NotSending => RightlyAddressed(sending)
    /\ \A s \in accepted : /\ s.to = s.heading \/ (hurried /\ drawer.name = "release")
                           /\ s.about = {s.to} \/ (hurried /\ drawer.name = "return")
DrawersInvariant ==
    DrawerTypes /\ ShowsWhatItNames /\ ClosedIsEmpty /\ TypedForIt /\ AllAddressed

\* What the five drawers have in common.
LEMMA KindsOfDrawer ==
    ASSUME drawer \in DrawerKinds
    PROVE  /\ "contents" \notin drawer.clears => drawer.name \in {"release", "prices"}
           /\ drawer.name = "release" => /\ drawer.opens = "answer" /\ drawer.to = "contents"
                                         /\ drawer.fills = "always" /\ drawer.fails = "stays"
                                         /\ "contents" \in drawer.shuts
           /\ drawer.name = "return" => /\ {"contents", "figures"} \subseteq drawer.clears
                                        /\ drawer.fills = "never" /\ drawer.to = "heading"
           /\ drawer.to \in {"heading", "contents", "none"}
           /\ drawer.to = "contents" => drawer.name = "release"
           /\ drawer.to # "none" => drawer.checked \/ drawer.name = "return"
           /\ drawer.fills = "suggested" <=> drawer.name = "ask"
           /\ drawer.name = "prices" => drawer.to = "none"
BY DEF DrawerKinds, ReturnDrawer, ReleaseDrawer, AskDrawer, PricesDrawer, DeliveryDrawer

\* What was sent, or taken, stays as it is.
LEMMA AddressesStay ==
    ASSUME AllAddressed, UNCHANGED <<drawer, sending, accepted>>, hurried => hurried'
    PROVE  AllAddressed'
BY DEF AllAddressed, RightlyAddressed

\* A thing is named, and asked for: a drawer that is not emptied by it is empty.
LEMMA NamingKeepsDrawer ==
    ASSUME DrawersInvariant, NEW x \in Thing, NEW suggested \in BOOLEAN, Name(x, suggested),
           suggested => drawer.name = "ask", drawer.name = "release" => contents = NoThing,
           UNCHANGED drawer
    PROVE  /\ DrawerTypes' /\ ShowsWhatItNames' /\ ClosedIsEmpty' /\ TypedForIt'
           /\ hurried => hurried'
<1>1. DrawerTypes
  BY DEF DrawersInvariant
<1>2. PICK c : c = [id |-> answers + 1, thing |-> x, suggested |-> suggested]
  OBVIOUS
<1>3. /\ heading' = x /\ coming' = coming \cup {c} /\ answers' = answers + 1
      /\ hurried' = (hurried \/ coming # {})
      /\ contents' = IF "contents" \in drawer.clears THEN NoThing ELSE contents
      /\ figures' = IF "figures" \in drawer.clears THEN {} ELSE figures
  BY <1>2 DEF Name, AskFor, Empty
<1>4. /\ c \in [id : Nat, thing : Thing \cup {NoThing}, suggested : BOOLEAN] /\ c.thing = x
      /\ (c.suggested => drawer.name = "ask")
  BY <1>1, <1>2 DEF DrawerTypes
<1>5. drawer' \in DrawerKinds
  BY <1>1 DEF DrawerTypes
<1>6. DrawerTypes'
  BY <1>1, <1>3, <1>4, <1>5 DEF DrawerTypes
<1>7. ShowsWhatItNames'
  BY <1>1, <1>3, <1>4, KindsOfDrawer DEF ShowsWhatItNames, DrawerTypes
<1>8. ClosedIsEmpty' /\ TypedForIt'
  BY <1>1, <1>3, KindsOfDrawer DEF ClosedIsEmpty, TypedForIt, DrawerTypes
<1> QED BY <1>3, <1>6, <1>7, <1>8

\* Nothing but the thing's name goes, or nothing but what is shown.
LEMMA ShuttingKeepsDrawer ==
    ASSUME DrawersInvariant, \/ Shut
                             \/ heading' \in {heading, NoThing} /\ contents' = NoThing /\ figures' = {},
           UNCHANGED <<drawer, coming, answers, hurried>>
    PROVE  DrawerTypes' /\ ShowsWhatItNames' /\ ClosedIsEmpty' /\ TypedForIt'
<1>1. DrawerTypes /\ ShowsWhatItNames /\ TypedForIt
  BY DEF DrawersInvariant
<1>2. /\ heading' \in {heading, NoThing} /\ contents' \in {contents, NoThing}
      /\ figures' \subseteq figures
  BY DEF Shut, Empty
<1>3. drawer.name = "release" => contents' = NoThing
  BY <1>1, KindsOfDrawer DEF Shut, Empty, DrawerTypes
<1>4. DrawerTypes'
  BY <1>1, <1>2 DEF DrawerTypes
<1> QED BY <1>1, <1>2, <1>3, <1>4 DEF ShowsWhatItNames, ClosedIsEmpty, TypedForIt

\* A call is answered, or fails.
LEMMA AnswersKeepDrawer ==
    ASSUME DrawersInvariant, NEW c \in coming, Filled(c) \/ NotFilled(c)
    PROVE  DrawersInvariant'
<1>1. DrawerTypes /\ ShowsWhatItNames /\ ClosedIsEmpty /\ TypedForIt /\ AllAddressed
  BY DEF DrawersInvariant
<1>2. coming' = coming \ {c} /\ UNCHANGED <<drawer, sending, answers, accepted, hurried>>
  BY DEF Filled, NotFilled
<1>3. heading' \in {heading, NoThing} /\ contents' \in {contents, c.thing}
  BY DEF Filled, NotFilled
<1>4. c.thing \in Thing \cup {NoThing} /\ (c.suggested => drawer.name = "ask")
  BY <1>1 DEF DrawerTypes
<1>5. DrawerTypes'
  BY <1>1, <1>2, <1>3, <1>4 DEF DrawerTypes
<1>6. ShowsWhatItNames'
  BY <1>1, <1>2, <1>3 DEF ShowsWhatItNames
<1>7. drawer.name = "return" => figures' = figures
  BY <1>1, <1>4, KindsOfDrawer DEF Filled, NotFilled, DrawerTypes
<1>8. TypedForIt'
  BY <1>1, <1>2, <1>3, <1>7 DEF TypedForIt
<1>9. ClosedIsEmpty'
  <2>1. drawer.name = "release" /\ ~open' => ~open /\ contents' = contents
    BY <1>1, KindsOfDrawer DEF Filled, NotFilled, DrawerTypes
  <2> QED BY <1>1, <1>2, <2>1 DEF ClosedIsEmpty
<1>10. AllAddressed'
  BY <1>1, <1>2, AddressesStay
<1> QED BY <1>5, <1>6, <1>8, <1>9, <1>10 DEF DrawersInvariant

\* What is typed is typed under the lines on screen, and sent from there.
LEMMA FiguresKeepDrawer ==
    ASSUME DrawersInvariant, TypeFigures \/ SubmitDrawer
    PROVE  DrawersInvariant'
<1>1. DrawerTypes /\ ShowsWhatItNames /\ ClosedIsEmpty /\ TypedForIt /\ AllAddressed
  BY DEF DrawersInvariant
<1>2. /\ ShowsLines /\ drawer.to # "none"
      /\ UNCHANGED <<drawer, heading, contents, open, coming, answers, accepted, hurried>>
  BY DEF TypeFigures, SubmitDrawer
<1>3. heading \in Thing /\ (~hurried => contents = heading)
  BY <1>1, <1>2, KindsOfDrawer DEF ShowsLines, ShowsWhatItNames, DrawerTypes
<1>4. DrawerTypes' /\ ShowsWhatItNames' /\ ClosedIsEmpty'
  BY <1>1, <1>2 DEF DrawerTypes, ShowsWhatItNames, ClosedIsEmpty
<1>5. CASE TypeFigures
  <2>1. figures' = figures \cup {contents} /\ sending' = sending
    BY <1>5 DEF TypeFigures
  <2>2. TypedForIt'
    BY <1>1, <1>2, <1>3, <2>1 DEF TypedForIt
  <2>3. AllAddressed'
    BY <1>1, <1>2, <2>1, AddressesStay
  <2> QED BY <1>4, <2>2, <2>3 DEF DrawersInvariant
<1>6. CASE SubmitDrawer
  <2>1. PICK s : s = [to |-> IF drawer.to = "heading" THEN heading ELSE contents,
                      about |-> figures, heading |-> heading]
    OBVIOUS
  <2>2. sending' = s /\ figures' = figures /\ figures # {}
    BY <1>6, <2>1 DEF SubmitDrawer
  <2>3. /\ s.to = IF drawer.to = "heading" THEN heading ELSE contents
        /\ s.about = figures /\ s.heading = heading
    BY <2>1
  <2>4. TypedForIt'
    BY <1>1, <1>2, <2>2 DEF TypedForIt
  <2>5. contents \in Thing
    BY <1>1, <1>2 DEF ShowsLines, DrawerTypes
  <2>6. s.to \in Thing /\ (s.to = s.heading \/ (hurried /\ drawer.name = "release"))
    BY <1>1, <1>2, <1>3, <2>3, <2>5, KindsOfDrawer DEF DrawerTypes
  <2>7. drawer.name = "return" => hurried \/ s.about = {s.to}
    <3>1. drawer.name = "return" => s.to = heading
      BY <1>1, <2>3, KindsOfDrawer DEF DrawerTypes
    <3>2. heading # NoThing
      BY <1>2 DEF ShowsLines
    <3>3. drawer.name = "return" /\ ~hurried => figures = {heading}
      BY <1>1, <2>2, <3>2 DEF TypedForIt
    <3> QED BY <2>3, <3>1, <3>3
  <2>8. AllAddressed'
    BY <1>1, <1>2, <2>2, <2>6, <2>7 DEF AllAddressed, RightlyAddressed
  <2> QED BY <1>4, <2>4, <2>8 DEF DrawersInvariant
<1> QED BY <1>5, <1>6

\* The server takes what is sent, or does not.
LEMMA TakingKeepsDrawer ==
    ASSUME DrawersInvariant, Taken \/ Refused
    PROVE  DrawersInvariant'
<1>1. DrawerTypes /\ ShowsWhatItNames /\ ClosedIsEmpty /\ TypedForIt /\ AllAddressed
  BY DEF DrawersInvariant
<1>2. sending # NotSending /\ sending' = NotSending /\ drawer' = drawer
  BY DEF Taken, Refused
<1>3. RightlyAddressed(sending)
  BY <1>1, <1>2 DEF AllAddressed
<1>4. CASE Taken
  <2>1. /\ Shut /\ UNCHANGED <<drawer, coming, answers, hurried>>
        /\ accepted' = accepted \cup {sending} /\ (drawer.checked => sending.about = {sending.to})
    BY <1>4 DEF Taken
  <2>2. sending.about = {sending.to} \/ (hurried /\ drawer.name = "return")
    BY <1>1, <1>3, <2>1, KindsOfDrawer DEF RightlyAddressed, DrawerTypes
  <2>3. AllAddressed'
    BY <1>1, <1>2, <1>3, <2>1, <2>2 DEF AllAddressed, RightlyAddressed
  <2>4. DrawerTypes' /\ ShowsWhatItNames' /\ ClosedIsEmpty' /\ TypedForIt'
    BY <2>1, ShuttingKeepsDrawer
  <2> QED BY <2>3, <2>4 DEF DrawersInvariant
<1>5. CASE Refused
  <2>1. accepted' = accepted
    BY <1>5 DEF Refused
  <2>2. CASE drawer.name = "return"
    <3>1. Name(sending.to, FALSE) /\ sending.to \in Thing
      BY <1>3, <1>5, <2>2 DEF Refused, RightlyAddressed
    <3>2. /\ DrawerTypes' /\ ShowsWhatItNames' /\ ClosedIsEmpty' /\ TypedForIt'
          /\ hurried => hurried'
      BY <1>2, <2>2, <3>1, NamingKeepsDrawer
    <3>3. AllAddressed'
      BY <1>1, <1>2, <2>1, <3>2 DEF AllAddressed
    <3> QED BY <3>2, <3>3 DEF DrawersInvariant
  <2>3. CASE drawer.name # "return"
    <3>1. UNCHANGED <<heading, contents, figures, open, coming, answers, hurried>>
      BY <1>5, <2>3 DEF Refused
    <3> QED BY <1>1, <1>2, <2>1, <3>1 DEF DrawersInvariant, DrawerTypes, ShowsWhatItNames,
               ClosedIsEmpty, TypedForIt, AllAddressed
  <2> QED BY <2>2, <2>3
<1> QED BY <1>4, <1>5

\* A press on the list, a suggestion or a second empty ask.
LEMMA PressesKeepDrawer ==
    ASSUME DrawersInvariant, \/ \E x \in Thing : Press(x) \/ UseSuggestion(x)
                             \/ OpenRaise \/ AddPrice \/ CloseDrawer
    PROVE  DrawersInvariant'
<1>1. DrawerTypes /\ ShowsWhatItNames /\ ClosedIsEmpty /\ TypedForIt /\ AllAddressed
  BY DEF DrawersInvariant
<1>2. UNCHANGED <<drawer, sending, accepted>>
  BY DEF Press, UseSuggestion, OpenRaise, AddPrice, CloseDrawer
<1>3. CASE \E x \in Thing : Press(x) \/ UseSuggestion(x)
  <2>1. PICK x \in Thing, suggested \in BOOLEAN :
          /\ Name(x, suggested) /\ (suggested => drawer.fills = "suggested")
          /\ open = (drawer.fills = "suggested") \/ drawer.fills = "suggested"
    BY <1>3 DEF Press, UseSuggestion
  <2>2. suggested => drawer.name = "ask"
    BY <1>1, <2>1, KindsOfDrawer DEF DrawerTypes
  <2>3. drawer.name = "release" => contents = NoThing
    BY <1>1, <2>1, KindsOfDrawer DEF DrawerTypes, ClosedIsEmpty
  <2>4. /\ DrawerTypes' /\ ShowsWhatItNames' /\ ClosedIsEmpty' /\ TypedForIt'
        /\ hurried => hurried'
    BY <1>2, <2>1, <2>2, <2>3, NamingKeepsDrawer
  <2>5. AllAddressed'
    BY <1>1, <1>2, <2>4, AddressesStay
  <2> QED BY <2>4, <2>5 DEF DrawersInvariant
<1>4. CASE OpenRaise
  <2>1. heading' = NoThing /\ UNCHANGED <<drawer, coming, answers, hurried>>
    BY <1>4 DEF OpenRaise
  <2>2. contents' = NoThing /\ drawer.name = "ask"
    BY <1>1, <1>4, KindsOfDrawer DEF OpenRaise, Empty, DrawerTypes
  <2>3. DrawerTypes' /\ ShowsWhatItNames' /\ ClosedIsEmpty' /\ TypedForIt'
    BY <1>1, <2>1, <2>2 DEF DrawerTypes, ShowsWhatItNames, ClosedIsEmpty, TypedForIt
  <2>4. AllAddressed'
    BY <1>1, <1>2, <2>1, AddressesStay
  <2> QED BY <2>3, <2>4 DEF DrawersInvariant
<1>5. CASE AddPrice
  <2>1. PICK c : c = [id |-> answers + 1, thing |-> heading, suggested |-> FALSE]
    OBVIOUS
  <2>2. /\ drawer.name = "prices" /\ coming' = coming \cup {c} /\ answers' = answers + 1
        /\ (hurried => hurried') /\ UNCHANGED <<heading, contents, figures, open>>
    BY <1>5, <2>1 DEF AddPrice, AskFor
  <2>3. /\ c \in [id : Nat, thing : Thing \cup {NoThing}, suggested : BOOLEAN]
        /\ c.suggested = FALSE
    BY <1>1, <2>1 DEF DrawerTypes
  <2>4. DrawerTypes'
    <3>1. answers' \in Nat /\ drawer' = drawer
      BY <1>1, <1>2, <2>2 DEF DrawerTypes
    <3>2. \A d \in coming' : /\ d \in [id : Nat, thing : Thing \cup {NoThing}, suggested : BOOLEAN]
                             /\ d.suggested => drawer.name = "ask"
      BY <1>1, <2>2, <2>3 DEF DrawerTypes
    <3> QED BY <1>1, <2>2, <3>1, <3>2 DEF DrawerTypes
  <2>5. ShowsWhatItNames' /\ ClosedIsEmpty' /\ TypedForIt'
    BY <1>2, <2>2 DEF ShowsWhatItNames, ClosedIsEmpty, TypedForIt
  <2>6. AllAddressed'
    BY <1>1, <1>2, <2>2, AddressesStay
  <2> QED BY <2>4, <2>5, <2>6 DEF DrawersInvariant
<1>6. CASE CloseDrawer
  <2>1. Shut /\ UNCHANGED <<drawer, coming, answers, hurried>>
    BY <1>6 DEF CloseDrawer
  <2>2. DrawerTypes' /\ ShowsWhatItNames' /\ ClosedIsEmpty' /\ TypedForIt'
    BY <2>1, ShuttingKeepsDrawer
  <2>3. AllAddressed'
    BY <1>1, <1>2, <2>1, AddressesStay
  <2> QED BY <2>2, <2>3 DEF DrawersInvariant
<1> QED BY <1>3, <1>4, <1>5, <1>6

\* What a drawer shows is of the thing it names, and what the server takes from it
\* goes to that thing, with figures that were put in for it (SubmittedAsShown).
THEOREM DrawersSubmitWhatTheyShow ==
    DrawersInit /\ [][DrawersNext]_drawerVars => []SubmittedAsShown
<1>1. DrawersInit => DrawersInvariant
  <2> SUFFICES ASSUME DrawersInit PROVE DrawersInvariant
    OBVIOUS
  <2>1. drawer \in DrawerKinds
    BY DEF DrawersInit
  <2> QED BY <2>1 DEF DrawersInit, DrawersInvariant, DrawerTypes, ShowsWhatItNames, ClosedIsEmpty,
             TypedForIt, AllAddressed
<1>2. DrawersInvariant /\ UNCHANGED drawerVars => DrawersInvariant'
  BY DEF drawerVars, DrawersInvariant, DrawerTypes, ShowsWhatItNames, ClosedIsEmpty, TypedForIt,
         AllAddressed, RightlyAddressed
<1>3. DrawersInvariant /\ [DrawersNext]_drawerVars => DrawersInvariant'
  BY <1>2, PressesKeepDrawer, AnswersKeepDrawer, FiguresKeepDrawer, TakingKeepsDrawer
     DEF DrawersNext
<1>4. DrawersInvariant => SubmittedAsShown
  <2> SUFFICES ASSUME DrawersInvariant PROVE SubmittedAsShown
    OBVIOUS
  <2>1. ShowsLines => contents = heading \/ hurried \/ drawer.name = "prices"
    BY DEF DrawersInvariant, ShowsWhatItNames, ShowsLines
  <2> QED BY <2>1 DEF SubmittedAsShown, DrawersInvariant, AllAddressed
<1> QED BY <1>1, <1>3, <1>4, PTL

-----------------------------------------------------------------------------
(* Worklists: buttons the server takes, and somebody to press them. *)

\* What the rows of the five tables can be: the status goes with the kind, an ask
\* was raised by a storekeeper, a request was released by one and into another
\* section, and nothing comes back before it is confirmed.
StatusNames == {"none", "requested", "released", "received", "cancelled", "approved", "rejected",
                "ordered", "done", "raised", "sent", "settled", "logged", "open", "closed", "verified"}
Rows == [kind : {"none", "request", "order", "ask", "slip", "count"}, status : StatusNames,
         room : Room, by : Person \cup {Nobody}, back : {"none", "part", "all"},
         held : BOOLEAN, old : BOOLEAN, bin : 0..1, send : 0..1]
RightStatus(p) ==
    \/ p.kind = "request" /\ p.status \in {"requested", "released", "received", "cancelled"}
    \/ p.kind = "order" /\ p.status \in {"requested", "approved", "rejected", "ordered", "done"}
    \/ p.kind = "ask" /\ p.status \in {"raised", "approved", "sent", "settled"}
    \/ p.kind = "slip" /\ p.status \in {"logged", "approved"}
    \/ p.kind = "count" /\ p.status \in {"open", "closed", "verified"}
    \/ p.kind = "none"
ByStorekeeper(p) == p.by \in Person /\ RoleOf[p.by] = "storekeeper"
RightPaper(p) ==
    /\ p \in Rows /\ RightStatus(p)
    /\ p.kind = "request" =>
          /\ p.room # "STORE"
          /\ p.status \in {"requested", "released"} => p.back = "none"
          /\ p.status = "released" => ByStorekeeper(p)
    /\ p.kind = "ask" => ByStorekeeper(p) /\ (p.status = "approved" => p.bin > 0 \/ p.send > 0)
WorklistsInvariant ==
    /\ DOMAIN paper = Paper /\ \A i \in Paper : RightPaper(paper[i])
    /\ returned \in Nat /\ claimed \in Nat

RoleNames == {"management", "storekeeper", "kitchen", "cleaning"}
LEMMA RolesOfPersons == ASSUME NEW u \in Person PROVE RoleOf[u] \in RoleNames
BY WorklistsAssumption DEF RoleNames

LEMMA RoomsOfRoles ==
    /\ Owned("storekeeper") = {"STORE", "QUARANTINE"} /\ Owned("kitchen") = {"KITCHEN"}
    /\ Owned("cleaning") = {"CLEAN"} /\ Owned("management") = {}
    /\ Visible("storekeeper") = Room /\ Visible("management") = Room
    /\ Visible("kitchen") = {"KITCHEN"} /\ Visible("cleaning") = {"CLEAN"}
BY DEF Owned, Visible

\* What a person is shown of a paper, by its kind.
LEMMA WhatIsOffered ==
    ASSUME NEW u \in Person, NEW i \in Paper, NEW p, p = paper[i]
    PROVE  /\ p.kind = "request" =>
                 Offered(u, i) = IF p.room \in Visible(RoleOf[u]) THEN RequestButtons(u, p) ELSE {}
           /\ p.kind = "order" =>
                 Offered(u, i) = IF RoleOf[u] \in StoreAndControl THEN OrderButtons(u, p) ELSE {}
           /\ p.kind = "ask" =>
                 Offered(u, i) = IF RoleOf[u] \in StoreAndControl THEN AskButtons(u, p) ELSE {}
           /\ p.kind = "slip" =>
                 Offered(u, i) = IF p.room \in Visible(RoleOf[u]) THEN SlipButtons(u, p) ELSE {}
           /\ p.kind = "count" =>
                 Offered(u, i) = IF p.room \in Visible(RoleOf[u]) THEN CountButtons(u, p) ELSE {}
           /\ p.kind = "none" => Offered(u, i) = {}
<1>1. /\ CanUse(RoleOf[u], "requests") /\ CanUse(RoleOf[u], "wastage") /\ CanUse(RoleOf[u], "counts")
      /\ RoleOf[u] \in StoreAndControl =>
            CanUse(RoleOf[u], "purchases") /\ CanUse(RoleOf[u], "supplierReturns")
  BY DEF CanUse
<1>2. /\ i \in RequestsOf(u) <=> p.kind = "request" /\ p.room \in Visible(RoleOf[u])
      /\ i \in BranchWide("order", u) <=> p.kind = "order" /\ RoleOf[u] \in StoreAndControl
      /\ i \in BranchWide("ask", u) <=> p.kind = "ask" /\ RoleOf[u] \in StoreAndControl
      /\ i \in ByRoom("slip", u) <=> p.kind = "slip" /\ p.room \in Visible(RoleOf[u])
      /\ i \in ByRoom("count", u) <=> p.kind = "count" /\ p.room \in Visible(RoleOf[u])
  BY DEF RequestsOf, BranchWide, ByRoom, Papers
<1>3. CASE p.kind = "request"
  BY <1>1, <1>2, <1>3 DEF Offered
<1>4. CASE p.kind = "order"
  BY <1>1, <1>2, <1>4 DEF Offered
<1>5. CASE p.kind = "ask"
  BY <1>1, <1>2, <1>5 DEF Offered
<1>6. CASE p.kind = "slip"
  BY <1>1, <1>2, <1>6 DEF Offered
<1>7. CASE p.kind = "count"
  BY <1>1, <1>2, <1>7 DEF Offered
<1>8. CASE p.kind \notin {"request", "order", "ask", "slip", "count"}
  BY <1>1, <1>2, <1>8 DEF Offered
<1> QED BY <1>3, <1>4, <1>5, <1>6, <1>7, <1>8

LEMMA WriteKeepsPapers ==
    ASSUME WorklistsInvariant, NEW i \in Paper, NEW q, RightPaper(q), Write(i, q),
           returned' \in Nat, claimed' \in Nat
    PROVE  WorklistsInvariant'
BY DEF WorklistsInvariant, Write

LEMMA RaisingKeepsPapers ==
    ASSUME WorklistsInvariant, NEW u \in Person, NEW i \in Paper, Raise(u, i)
    PROVE  WorklistsInvariant'
<1>1. returned' \in Nat /\ claimed' \in Nat
  <2>1. returned \in Nat /\ claimed \in Nat
    BY DEF WorklistsInvariant
  <2>2. returned' = returned /\ (claimed' = claimed \/ claimed' = claimed + 1)
    BY DEF Raise, SameReturns
  <2> QED BY <2>1, <2>2
<1>2. NoPaper \in Rows
  BY DEF NoPaper, Rows, Room, StatusNames
<1>3. CASE \E room \in Room : /\ MayAsk(u, room)
                              /\ Write(i, [NoPaper EXCEPT !.kind = "request", !.status = "requested",
                                                          !.room = room])
  <2>1. PICK room \in Room : /\ MayAsk(u, room)
                             /\ Write(i, [NoPaper EXCEPT !.kind = "request", !.status = "requested",
                                                          !.room = room])
    BY <1>3
  <2>2. RightPaper([NoPaper EXCEPT !.kind = "request", !.status = "requested", !.room = room])
    <3>1. PICK q : q = [NoPaper EXCEPT !.kind = "request", !.status = "requested", !.room = room]
      OBVIOUS
    <3>2. /\ q \in Rows /\ q.kind = "request" /\ q.status = "requested" /\ q.room = room
        /\ q.by = NoPaper.by /\ q.back = NoPaper.back /\ q.bin = NoPaper.bin /\ q.send = NoPaper.send
      BY <1>2, <2>1, <3>1 DEF Rows, StatusNames
    <3> QED BY <2>1, <3>1, <3>2 DEF RightPaper, RightStatus, MayAsk, NoPaper
  <2> QED BY <1>1, <2>1, <2>2, WriteKeepsPapers
<1>4. CASE Write(i, [NoPaper EXCEPT !.kind = "order", !.status = "requested"])
  <2>1. RightPaper([NoPaper EXCEPT !.kind = "order", !.status = "requested"])
    <3>1. PICK q : q = [NoPaper EXCEPT !.kind = "order", !.status = "requested"]
      OBVIOUS
    <3>2. /\ q \in Rows /\ q.kind = "order" /\ q.status = "requested"
        /\ q.room = NoPaper.room /\ q.by = NoPaper.by /\ q.back = NoPaper.back /\ q.bin = NoPaper.bin /\ q.send = NoPaper.send
      BY <1>2, <3>1 DEF Rows, StatusNames
    <3> QED BY <1>2, <3>1, <3>2 DEF RightPaper, RightStatus, ByStorekeeper
  <2> QED BY <1>1, <1>4, <2>1, WriteKeepsPapers
<1>5. CASE /\ RoleOf[u] = "storekeeper"
           /\ Write(i, [NoPaper EXCEPT !.kind = "ask", !.status = "raised", !.by = u])
  <2>1. RightPaper([NoPaper EXCEPT !.kind = "ask", !.status = "raised", !.by = u])
    <3>1. PICK q : q = [NoPaper EXCEPT !.kind = "ask", !.status = "raised", !.by = u]
      OBVIOUS
    <3>2. /\ q \in Rows /\ q.kind = "ask" /\ q.status = "raised" /\ q.by = u
        /\ q.room = NoPaper.room /\ q.back = NoPaper.back /\ q.bin = NoPaper.bin /\ q.send = NoPaper.send
      BY <1>2, <1>5, <3>1 DEF Rows, StatusNames
    <3> QED BY <1>2, <1>5, <3>1, <3>2 DEF RightPaper, RightStatus, ByStorekeeper
  <2> QED BY <1>1, <1>5, <2>1, WriteKeepsPapers
<1>6. CASE \E room \in Visible(RoleOf[u]), new \in {<<"slip", "logged">>, <<"count", "open">>} :
             Write(i, [NoPaper EXCEPT !.kind = new[1], !.status = new[2], !.room = room,
                                      !.by = IF new[1] = "count" THEN u ELSE Nobody])
  <2>1. PICK room \in Visible(RoleOf[u]), new \in {<<"slip", "logged">>, <<"count", "open">>} :
             Write(i, [NoPaper EXCEPT !.kind = new[1], !.status = new[2], !.room = room,
                                      !.by = IF new[1] = "count" THEN u ELSE Nobody])
    BY <1>6
  <2>2. room \in Room
    BY RolesOfPersons, RoomsOfRoles DEF Room, RoleNames
  <2>3. PICK by \in Person \cup {Nobody} : by = IF new[1] = "count" THEN u ELSE Nobody
    OBVIOUS
  <2>4. RightPaper([NoPaper EXCEPT !.kind = new[1], !.status = new[2], !.room = room, !.by = by])
    <3>1. PICK q : q = [NoPaper EXCEPT !.kind = new[1], !.status = new[2], !.room = room, !.by = by]
      OBVIOUS
    <3>2. \/ new[1] = "slip" /\ new[2] = "logged"
          \/ new[1] = "count" /\ new[2] = "open"
      OBVIOUS
    <3>3. q \in Rows /\ q.kind = new[1] /\ q.status = new[2]
      BY <1>2, <2>2, <3>1, <3>2 DEF Rows, StatusNames
    <3> QED BY <3>1, <3>2, <3>3 DEF RightPaper, RightStatus
  <2> QED BY <1>1, <2>1, <2>3, <2>4, WriteKeepsPapers
<1> QED BY <1>3, <1>4, <1>5, <1>6 DEF Raise

LEMMA RequestsKeepPapers ==
    ASSUME WorklistsInvariant, NEW i \in Paper, (\E u \in Person : RequestStep(u, i)) \/ ShelfOrClock(i)
    PROVE  WorklistsInvariant'
<1>1. PICK p : p = paper[i]
  OBVIOUS
<1>2. RightPaper(p) /\ p \in Rows /\ p.kind = "request"
  BY <1>1 DEF WorklistsInvariant, RightPaper, RequestStep, ShelfOrClock
<1>3. returned' \in Nat /\ claimed' \in Nat
  <2>1. returned \in Nat /\ claimed \in Nat
    BY DEF WorklistsInvariant
  <2>2. (returned' = returned \/ returned' = returned + 1) /\ claimed' = claimed
    BY DEF RequestStep, ShelfOrClock, SameReturns
  <2> QED BY <2>1, <2>2
<1>4. CASE \E u \in Person :
             /\ MayRelease(u, p)
             /\ Write(i, [p EXCEPT !.status = "released", !.by = u, !.held = TRUE])
  <2>0. PICK u \in Person :
             /\ MayRelease(u, p)
             /\ Write(i, [p EXCEPT !.status = "released", !.by = u, !.held = TRUE])
    BY <1>4
  <2>1. RightPaper([p EXCEPT !.status = "released", !.by = u, !.held = TRUE])
    <3>1. PICK q : q = [p EXCEPT !.status = "released", !.by = u, !.held = TRUE]
      OBVIOUS
    <3>2. /\ q \in Rows /\ q.status = "released" /\ q.by = u /\ q.held = TRUE
        /\ q.kind = p.kind /\ q.room = p.room /\ q.back = p.back /\ q.bin = p.bin /\ q.send = p.send
      BY <1>2, <2>0, <3>1 DEF Rows, StatusNames
    <3> QED BY <1>2, <2>0, <3>1, <3>2 DEF RightPaper, RightStatus, ByStorekeeper, MayRelease
  <2> QED BY <1>3, <2>0, <2>1, WriteKeepsPapers
<1>5. CASE \E s \in {"received", "cancelled"} : Write(i, [p EXCEPT !.status = s])
  <2>1. PICK s \in {"received", "cancelled"} : Write(i, [p EXCEPT !.status = s])
    BY <1>5
  <2>2. RightPaper([p EXCEPT !.status = s])
    <3>1. PICK q : q = [p EXCEPT !.status = s]
      OBVIOUS
    <3>2. /\ q \in Rows /\ q.status = s
        /\ q.kind = p.kind /\ q.room = p.room /\ q.by = p.by /\ q.back = p.back /\ q.bin = p.bin /\ q.send = p.send
      BY <1>2, <3>1 DEF Rows, StatusNames
    <3> QED BY <1>2, <3>1, <3>2 DEF RightPaper, RightStatus, ByStorekeeper
  <2> QED BY <1>3, <2>1, <2>2, WriteKeepsPapers
<1>6. CASE \E much \in {"part", "all"} : Write(i, [p EXCEPT !.status = "received", !.back = much])
  <2>1. PICK much \in {"part", "all"} : Write(i, [p EXCEPT !.status = "received", !.back = much])
    BY <1>6
  <2>2. RightPaper([p EXCEPT !.status = "received", !.back = much])
    <3>1. PICK q : q = [p EXCEPT !.status = "received", !.back = much]
      OBVIOUS
    <3>2. /\ q \in Rows /\ q.status = "received" /\ q.back = much
        /\ q.kind = p.kind /\ q.room = p.room /\ q.by = p.by /\ q.bin = p.bin /\ q.send = p.send
      BY <1>2, <3>1 DEF Rows, StatusNames
    <3> QED BY <1>2, <3>1, <3>2 DEF RightPaper, RightStatus, ByStorekeeper
  <2> QED BY <1>3, <2>1, <2>2, WriteKeepsPapers
<1>7. CASE Write(i, [p EXCEPT !.held = ~p.held])
  <2>1. RightPaper([p EXCEPT !.held = ~p.held])
    <3>1. PICK q : q = [p EXCEPT !.held = ~p.held]
      OBVIOUS
    <3>2. /\ q \in Rows /\ q.held = ~p.held
        /\ q.kind = p.kind /\ q.status = p.status /\ q.room = p.room /\ q.by = p.by
        /\ q.back = p.back /\ q.bin = p.bin /\ q.send = p.send
      BY <1>2, <3>1 DEF Rows, StatusNames
    <3> QED BY <1>2, <3>1, <3>2 DEF RightPaper, RightStatus, ByStorekeeper
  <2> QED BY <1>3, <1>7, <2>1, WriteKeepsPapers
<1>8. CASE Write(i, [p EXCEPT !.old = TRUE])
  <2>1. RightPaper([p EXCEPT !.old = TRUE])
    <3>1. PICK q : q = [p EXCEPT !.old = TRUE]
      OBVIOUS
    <3>2. /\ q \in Rows /\ q.old = TRUE
        /\ q.kind = p.kind /\ q.status = p.status /\ q.room = p.room /\ q.by = p.by
        /\ q.back = p.back /\ q.bin = p.bin /\ q.send = p.send
      BY <1>2, <3>1 DEF Rows, StatusNames
    <3> QED BY <1>2, <3>1, <3>2 DEF RightPaper, RightStatus, ByStorekeeper
  <2> QED BY <1>3, <1>8, <2>1, WriteKeepsPapers
<1> QED BY <1>1, <1>4, <1>5, <1>6, <1>7, <1>8 DEF RequestStep, ShelfOrClock

LEMMA OrdersKeepPapers ==
    ASSUME WorklistsInvariant, NEW u \in Person, NEW i \in Paper, OrderStep(u, i)
    PROVE  WorklistsInvariant'
<1>1. PICK p : p = paper[i]
  OBVIOUS
<1>2. RightPaper(p) /\ p \in Rows /\ p.kind = "order"
  BY <1>1 DEF WorklistsInvariant, RightPaper, OrderStep
<1>3. returned' \in Nat /\ claimed' \in Nat
  BY DEF OrderStep, WorklistsInvariant, SameReturns
<1>4. PICK s \in {"approved", "rejected", "ordered", "done"} : Write(i, [p EXCEPT !.status = s])
  BY <1>1 DEF OrderStep
<1>5. RightPaper([p EXCEPT !.status = s])
  <2>1. PICK q : q = [p EXCEPT !.status = s]
    OBVIOUS
  <2>2. /\ q \in Rows /\ q.status = s
      /\ q.kind = p.kind /\ q.room = p.room /\ q.by = p.by /\ q.back = p.back /\ q.bin = p.bin /\ q.send = p.send
    BY <1>2, <2>1 DEF Rows, StatusNames
  <2> QED BY <1>2, <2>1, <2>2 DEF RightPaper, RightStatus, ByStorekeeper
<1> QED BY <1>3, <1>4, <1>5, WriteKeepsPapers

LEMMA AsksKeepPapers ==
    ASSUME WorklistsInvariant, NEW u \in Person, NEW i \in Paper, AskStep(u, i)
    PROVE  WorklistsInvariant'
<1>1. PICK p : p = paper[i]
  OBVIOUS
<1>2. RightPaper(p) /\ p \in Rows /\ p.kind = "ask" /\ ByStorekeeper(p)
  BY <1>1 DEF WorklistsInvariant, RightPaper, AskStep
<1>3. returned' \in Nat /\ claimed' \in Nat
  BY DEF AskStep, WorklistsInvariant, SameReturns
<1>4. CASE \E bin, send \in 0..1 :
             bin + send > 0 /\ Write(i, [p EXCEPT !.status = "approved", !.bin = bin, !.send = send])
  <2>1. PICK bin \in 0..1, send \in 0..1 :
             bin + send > 0 /\ Write(i, [p EXCEPT !.status = "approved", !.bin = bin, !.send = send])
    BY <1>4
  <2>2. bin > 0 \/ send > 0
    BY <2>1
  <2>3. RightPaper([p EXCEPT !.status = "approved", !.bin = bin, !.send = send])
    <3>1. PICK q : q = [p EXCEPT !.status = "approved", !.bin = bin, !.send = send]
      OBVIOUS
    <3>2. /\ q \in Rows /\ q.status = "approved" /\ q.bin = bin /\ q.send = send
        /\ q.kind = p.kind /\ q.room = p.room /\ q.by = p.by /\ q.back = p.back
      BY <1>2, <2>2, <3>1 DEF Rows, StatusNames
    <3> QED BY <1>2, <2>2, <3>1, <3>2 DEF RightPaper, RightStatus, ByStorekeeper
  <2> QED BY <1>3, <2>1, <2>3, WriteKeepsPapers
<1>5. CASE /\ MayBin(u, p)
           /\ Write(i, [p EXCEPT !.bin = 0,
                                 !.status = IF p.send = 0 /\ @ = "approved" THEN "settled" ELSE @])
  <2>1. PICK s : s = IF p.send = 0 /\ p.status = "approved" THEN "settled" ELSE p.status
    OBVIOUS
  <2>2. s \in {"raised", "approved", "sent", "settled"} /\ (s = "approved" => p.send > 0)
    BY <1>2, <2>1 DEF RightPaper, RightStatus, Rows
  <2>3. RightPaper([p EXCEPT !.bin = 0, !.status = s])
    <3>1. PICK q : q = [p EXCEPT !.bin = 0, !.status = s]
      OBVIOUS
    <3>2. /\ q \in Rows /\ q.status = s /\ q.bin = 0
          /\ q.kind = p.kind /\ q.room = p.room /\ q.by = p.by /\ q.send = p.send
      <4>1. s \in StatusNames /\ 0 \in 0..1
        BY <2>2 DEF StatusNames
      <4> QED BY <1>2, <3>1, <4>1 DEF Rows
    <3> QED BY <1>2, <2>2, <3>1, <3>2 DEF RightPaper, RightStatus, ByStorekeeper
  <2>4. Write(i, [p EXCEPT !.bin = 0, !.status = s])
    BY <1>2, <1>5, <2>1 DEF Rows
  <2> QED BY <1>3, <2>3, <2>4, WriteKeepsPapers
<1>6. CASE \E s \in {"sent", "settled"} : Write(i, [p EXCEPT !.status = s])
  <2>1. PICK s \in {"sent", "settled"} : Write(i, [p EXCEPT !.status = s])
    BY <1>6
  <2>2. RightPaper([p EXCEPT !.status = s])
    <3>1. PICK q : q = [p EXCEPT !.status = s]
      OBVIOUS
    <3>2. /\ q \in Rows /\ q.status = s
        /\ q.kind = p.kind /\ q.room = p.room /\ q.by = p.by /\ q.back = p.back /\ q.bin = p.bin /\ q.send = p.send
      BY <1>2, <3>1 DEF Rows, StatusNames
    <3> QED BY <1>2, <3>1, <3>2 DEF RightPaper, RightStatus, ByStorekeeper
  <2> QED BY <1>3, <2>1, <2>2, WriteKeepsPapers
<1> QED BY <1>1, <1>4, <1>5, <1>6 DEF AskStep

LEMMA SlipsAndCountsKeepPapers ==
    ASSUME WorklistsInvariant, NEW u \in Person, NEW i \in Paper, SlipOrCountStep(u, i)
    PROVE  WorklistsInvariant'
<1>1. PICK p : p = paper[i]
  OBVIOUS
<1>2. RightPaper(p) /\ p \in Rows /\ p.kind \in {"slip", "count"}
  BY <1>1 DEF WorklistsInvariant, RightPaper, SlipOrCountStep
<1>3. returned' \in Nat /\ claimed' \in Nat
  BY DEF SlipOrCountStep, WorklistsInvariant, SameReturns
<1>4. PICK s \in {"approved", "closed", "verified"} :
        /\ Write(i, [p EXCEPT !.status = s])
        /\ \/ p.kind = "slip" /\ s = "approved"
           \/ p.kind = "count" /\ s \in {"closed", "verified"}
  BY <1>1, <1>2 DEF SlipOrCountStep, MayApprove, MayCount, MayVerify, RightPaper, RightStatus
<1>5. RightPaper([p EXCEPT !.status = s])
  <2>1. PICK q : q = [p EXCEPT !.status = s]
    OBVIOUS
  <2>2. /\ q \in Rows /\ q.status = s
      /\ q.kind = p.kind /\ q.room = p.room /\ q.by = p.by /\ q.back = p.back /\ q.bin = p.bin /\ q.send = p.send
    BY <1>2, <1>4, <2>1 DEF Rows, StatusNames
  <2> QED BY <1>2, <1>4, <2>1, <2>2 DEF RightPaper, RightStatus, ByStorekeeper
<1> QED BY <1>3, <1>4, <1>5, WriteKeepsPapers

LEMMA PapersStayRight == WorklistsInit /\ [][WorklistsNext]_worklistVars => []WorklistsInvariant
<1>1. WorklistsInit => WorklistsInvariant
  <2>1. NoPaper \in Rows /\ NoPaper.kind = "none"
    BY DEF NoPaper, Rows, Room, StatusNames
  <2>2. RightPaper(NoPaper)
    BY <2>1 DEF RightPaper, RightStatus
  <2> QED BY <2>2 DEF WorklistsInit, WorklistsInvariant
<1>2. WorklistsInvariant /\ UNCHANGED worklistVars => WorklistsInvariant'
  BY DEF worklistVars, WorklistsInvariant
<1>3. ASSUME WorklistsInvariant, NEW u \in Person, ReturnOwnStock(u) PROVE WorklistsInvariant'
  BY <1>3 DEF WorklistsInvariant, ReturnOwnStock
<1>4. WorklistsInvariant /\ [WorklistsNext]_worklistVars => WorklistsInvariant'
  BY <1>2, <1>3, RaisingKeepsPapers, RequestsKeepPapers, OrdersKeepPapers, AsksKeepPapers,
     SlipsAndCountsKeepPapers DEF WorklistsNext
<1> QED BY <1>1, <1>4, PTL

\* The server takes what a fresh row offers, but for the four it refuses all the
\* same (OfferedIsAccepted).
THEOREM ButtonsAreTaken == WorklistsInit /\ [][WorklistsNext]_worklistVars => []OfferedIsAccepted
<1>1. ASSUME WorklistsInvariant, NEW u \in Person, NEW i \in Paper, NEW b \in Offered(u, i)
      PROVE  Accepts(u, b, paper[i]) \/ RefusedAllTheSame(u, b, paper[i])
  <2>1. PICK p : p = paper[i]
    OBVIOUS
  <2>2. RightPaper(p) /\ p.kind \in {"none", "request", "order", "ask", "slip", "count"}
    BY <1>1, <2>1 DEF WorklistsInvariant, RightPaper, Rows
  <2>3. PICK role \in RoleNames : role = RoleOf[u]
    BY RolesOfPersons
  <2>4. Owned(role) \subseteq Visible(role) /\ Visible(role) \subseteq Room /\ "QUARANTINE" # "STORE"
    BY <2>3, RoomsOfRoles DEF RoleNames, Room
  <2>5. CASE p.kind = "request"
    <3>1. b \in RequestButtons(u, p) /\ p.room \in Visible(role)
      BY <1>1, <2>1, <2>3, <2>5, WhatIsOffered
    <3>2. CASE b = "Release"
      BY <2>1, <3>1, <3>2 DEF RequestButtons, canRelease, Accepts, MayRelease
    <3>3. CASE b = "It came"
      BY <2>1, <3>1, <3>3 DEF RequestButtons, isMine, Accepts, MayConfirm, RefusedAllTheSame
    <3>4. CASE b = "Return"
      <4>1. canReturn(p) /\ p.room \in Owned(role)
        BY <2>3, <3>1, <3>4 DEF RequestButtons, isMine
      <4>2. role \in Floor \cup {"storekeeper"}
        BY <2>3, <4>1, RoomsOfRoles DEF RoleNames, Floor
      <4> QED BY <2>1, <2>3, <3>1, <3>4, <4>1, <4>2
              DEF canReturn, Accepts, MayHandBack, RefusedAllTheSame
    <3>5. CASE b = "Cancel"
      BY <2>1, <2>3, <3>1, <3>5 DEF RequestButtons, Accepts, MayCancel
    <3> QED BY <3>1, <3>2, <3>3, <3>4, <3>5 DEF RequestButtons
  <2>6. CASE p.kind = "order"
    <3>1. b \in OrderButtons(u, p) /\ role \in StoreAndControl
      BY <1>1, <2>1, <2>3, <2>6, WhatIsOffered
    <3> QED BY <2>1, <2>3, <3>1
            DEF OrderButtons, canDecide, StoreAndControl, Accepts, MayDecideOrder, MayReceive
  <2>7. CASE p.kind = "ask"
    <3>1. b \in AskButtons(u, p)
      BY <1>1, <2>1, <2>3, <2>7, WhatIsOffered
    <3>2. ByStorekeeper(p)
      BY <2>2, <2>7 DEF RightPaper
    <3> QED BY <2>1, <2>3, <3>1, <3>2
            DEF AskButtons, canDecide, canRaiseReturn, ByStorekeeper, Accepts, MayDecideAsk, MayBin,
                MaySend, MaySettle
  <2>8. CASE p.kind = "slip"
    <3>1. b \in SlipButtons(u, p)
      BY <1>1, <2>1, <2>3, <2>8, WhatIsOffered
    <3> QED BY <2>1, <3>1 DEF SlipButtons, Accepts, MayApprove
  <2>9. CASE p.kind = "count"
    <3>1. b \in CountButtons(u, p)
      BY <1>1, <2>1, <2>3, <2>9, WhatIsOffered
    <3> QED BY <2>1, <3>1 DEF CountButtons, Accepts, MayCount, MayVerify, RefusedAllTheSame
  <2>10. CASE p.kind = "none"
    BY <1>1, <2>1, <2>10, WhatIsOffered
  <2> QED BY <2>2, <2>5, <2>6, <2>7, <2>8, <2>9, <2>10
<1>2. ASSUME NEW u \in Person, canAsk(u)
      PROVE  MayAsk(u, homeSectionFor(RoleOf[u])) \/ RoleOf[u] = "management"
  <2>1. \/ RoleOf[u] = "management"
        \/ RoleOf[u] = "kitchen" /\ homeSectionFor(RoleOf[u]) = "KITCHEN"
        \/ RoleOf[u] = "cleaning" /\ homeSectionFor(RoleOf[u]) = "CLEAN"
    BY <1>2, RoomsOfRoles DEF canAsk, Floor, homeSectionFor
  <2> QED BY <2>1, RoomsOfRoles DEF MayAsk
<1>3. WorklistsInvariant => OfferedIsAccepted
  BY <1>1, <1>2 DEF OfferedIsAccepted
<1> QED BY PapersStayRight, <1>3, PTL

\* A branch where every role has somebody and the store has two: with one, what is
\* released into quarantine could be confirmed by nobody else.
Staffed ==
    /\ \A role \in RoleNames : \E u \in Person : RoleOf[u] = role
    /\ \A u \in Person : \E v \in Person : v # u /\ RoleOf[v] = "storekeeper"

LEMMA SomebodyIsOffered ==
    ASSUME WorklistsInvariant, Staffed
    PROVE  NobodyIsLeftWaiting
<1> SUFFICES ASSUME NEW i \in Paper, NEW p, p = paper[i], Unfinished(p),
                    ~OnlyManagerCounted(p), ~(p.kind = "ask" /\ p.status = "settled" /\ p.bin > 0)
             PROVE  \E u \in Person : \E b \in Offered(u, i) : Accepts(u, b, p)
  BY DEF NobodyIsLeftWaiting
<1>1. RightPaper(p) /\ p.room \in Room /\ p.bin \in 0..1 /\ p.send \in 0..1
  BY DEF WorklistsInvariant, RightPaper, Rows
<1>2. PICK mg \in Person : RoleOf[mg] = "management"
  BY DEF Staffed, RoleNames
<1>3. PICK sk \in Person : RoleOf[sk] = "storekeeper"
  BY DEF Staffed, RoleNames
<1>4. CASE p.kind = "request"
  <2>1. CASE p.status = "requested"
    <3>1. "Release" \in Offered(sk, i)
      BY <1>1, <1>3, <1>4, <2>1, WhatIsOffered, RoomsOfRoles DEF RequestButtons, canRelease
    <3> QED BY <1>3, <2>1, <3>1 DEF Accepts, MayRelease
  <2>2. CASE p.status = "released"
    <3>1. ByStorekeeper(p) /\ p.room \in {"KITCHEN", "CLEAN", "QUARANTINE"}
      BY <1>1, <1>4, <2>2 DEF RightPaper, Room
    <3>2. PICK u \in Person : p.room \in Owned(RoleOf[u]) /\ u # p.by
      <4>1. CASE p.room = "KITCHEN"
        <5>1. PICK ki \in Person : RoleOf[ki] = "kitchen"
          BY DEF Staffed, RoleNames
        <5> QED BY <3>1, <4>1, <5>1, RoomsOfRoles DEF ByStorekeeper
      <4>2. CASE p.room = "CLEAN"
        <5>1. PICK cl \in Person : RoleOf[cl] = "cleaning"
          BY DEF Staffed, RoleNames
        <5> QED BY <3>1, <4>2, <5>1, RoomsOfRoles DEF ByStorekeeper
      <4>3. CASE p.room = "QUARANTINE"
        <5>1. PICK v \in Person : v # p.by /\ RoleOf[v] = "storekeeper"
          BY <3>1 DEF Staffed, ByStorekeeper
        <5> QED BY <4>3, <5>1, RoomsOfRoles
      <4> QED BY <3>1, <4>1, <4>2, <4>3
    <3>3. p.room \in Visible(RoleOf[u])
      BY <3>2, RolesOfPersons, RoomsOfRoles DEF RoleNames, Room
    <3>4. "It came" \in Offered(u, i)
      BY <1>4, <2>2, <3>2, <3>3, WhatIsOffered DEF RequestButtons, isMine
    <3> QED BY <2>2, <3>2, <3>4 DEF Accepts, MayConfirm
  <2> QED BY <1>1, <1>4, <2>1, <2>2 DEF Unfinished, RightPaper, RightStatus
<1>5. CASE p.kind = "order"
  <2>1. Offered(mg, i) = OrderButtons(mg, p)
    BY <1>2, <1>5, WhatIsOffered DEF StoreAndControl
  <2>2. p.status \in {"requested", "approved", "ordered"}
    BY <1>1, <1>5 DEF Unfinished, RightPaper, RightStatus
  <2>3. PICK b \in {"Approve", "Mark as ordered", "Close it short"} : b \in Offered(mg, i)
    BY <1>2, <2>1, <2>2 DEF OrderButtons, canDecide
  <2> QED BY <1>2, <2>2, <2>3 DEF Accepts, MayDecideOrder
<1>6. CASE p.kind = "ask"
  <2>1. /\ Offered(mg, i) = AskButtons(mg, p) /\ Offered(sk, i) = AskButtons(sk, p)
    BY <1>2, <1>3, <1>6, WhatIsOffered DEF StoreAndControl
  <2>2. ByStorekeeper(p) /\ (p.status = "approved" => p.bin > 0 \/ p.send > 0)
    BY <1>1, <1>6 DEF RightPaper
  <2>3. CASE p.status = "raised"
    <3>1. "Decide" \in Offered(mg, i)
      BY <1>2, <2>1, <2>3 DEF AskButtons, canDecide
    <3> QED BY <1>2, <2>2, <2>3, <3>1 DEF Accepts, MayDecideAsk, ByStorekeeper
  <2>4. CASE p.status = "approved" /\ p.bin > 0
    <3>1. "Bin them" \in Offered(sk, i)
      BY <1>3, <2>1, <2>4 DEF AskButtons, canRaiseReturn
    <3> QED BY <1>3, <2>4, <3>1 DEF Accepts, MayBin
  <2>5. CASE p.status = "approved" /\ p.send > 0
    <3>1. "It has gone" \in Offered(sk, i)
      BY <1>3, <2>1, <2>5 DEF AskButtons, canRaiseReturn
    <3> QED BY <1>3, <2>5, <3>1 DEF Accepts, MaySend
  <2>6. CASE p.status = "sent"
    <3>1. "Settle" \in Offered(mg, i)
      BY <1>2, <2>1, <2>6 DEF AskButtons, canDecide
    <3> QED BY <1>2, <2>6, <3>1 DEF Accepts, MaySettle
  <2>7. p.status \in {"raised", "approved", "sent"}
    BY <1>1, <1>6 DEF Unfinished, RightPaper, RightStatus
  <2> QED BY <2>2, <2>3, <2>4, <2>5, <2>6, <2>7
<1>7. CASE p.kind = "slip"
  <2>1. p.status = "logged"
    BY <1>7 DEF Unfinished
  <2>2. "Approve slip" \in Offered(mg, i)
    BY <1>1, <1>2, <1>7, <2>1, WhatIsOffered, RoomsOfRoles DEF SlipButtons
  <2> QED BY <1>2, <2>1, <2>2 DEF Accepts, MayApprove
<1>8. CASE p.kind = "count"
  <2>1. CASE p.status = "open"
    <3>1. "Resume" \in Offered(mg, i)
      BY <1>1, <1>2, <1>8, <2>1, WhatIsOffered, RoomsOfRoles DEF CountButtons
    <3> QED BY <2>1, <3>1 DEF Accepts, MayCount
  <2>2. CASE p.status = "closed"
    <3>1. PICK v \in Person : RoleOf[v] = "management" /\ v # p.by
      BY <1>8, <2>2 DEF OnlyManagerCounted
    <3>2. "Verify" \in Offered(v, i)
      BY <1>1, <1>8, <2>2, <3>1, WhatIsOffered, RoomsOfRoles DEF CountButtons
    <3> QED BY <2>2, <3>1, <3>2 DEF Accepts, MayVerify
  <2> QED BY <1>1, <1>8, <2>1, <2>2 DEF Unfinished, RightPaper, RightStatus
<1> QED BY <1>4, <1>5, <1>6, <1>7, <1>8 DEF Unfinished

\* The rows that show a button, for the four buttons Home counts.
LEMMA ButtonsAreOf ==
    ASSUME WorklistsInvariant, NEW u \in Person, NEW i \in Paper, NEW p, p = paper[i]
    PROVE  /\ "Release" \in Offered(u, i) <=>
                 p.kind = "request" /\ p.status = "requested" /\ RoleOf[u] = "storekeeper"
           /\ "It came" \in Offered(u, i) <=>
                 p.kind = "request" /\ p.status = "released" /\ p.room \in Owned(RoleOf[u])
           /\ "Approve" \in Offered(u, i) <=>
                 p.kind = "order" /\ p.status = "requested" /\ RoleOf[u] = "management"
<1>1. p.kind \in {"none", "request", "order", "ask", "slip", "count"} /\ p.room \in Room
  BY DEF WorklistsInvariant, RightPaper, Rows
<1>2. Owned(RoleOf[u]) \subseteq Visible(RoleOf[u])
  BY RolesOfPersons, RoomsOfRoles DEF RoleNames, Room
<1>3. RoleOf[u] = "storekeeper" => p.room \in Visible(RoleOf[u])
  BY <1>1, RoomsOfRoles
<1>4. CASE p.kind = "request"
  <2>1. /\ "Release" \in RequestButtons(u, p) <=> p.status = "requested" /\ RoleOf[u] = "storekeeper"
        /\ "It came" \in RequestButtons(u, p) <=>
              p.status = "released" /\ p.room \in Owned(RoleOf[u])
        /\ "Approve" \notin RequestButtons(u, p)
    BY DEF RequestButtons, canRelease, isMine
  <2> QED BY <1>2, <1>3, <1>4, <2>1, WhatIsOffered
<1>5. CASE p.kind = "order"
  <2>1. /\ OrderButtons(u, p) \cap {"Release", "It came"} = {}
        /\ "Approve" \in OrderButtons(u, p) <=> p.status = "requested" /\ RoleOf[u] = "management"
    BY DEF OrderButtons, canDecide
  <2> QED BY <1>5, <2>1, WhatIsOffered DEF StoreAndControl
<1>6. CASE p.kind = "ask"
  <2>1. AskButtons(u, p) \cap {"Release", "It came", "Approve"} = {}
    BY DEF AskButtons
  <2> QED BY <1>6, <2>1, WhatIsOffered
<1>7. CASE p.kind = "slip"
  <2>1. SlipButtons(u, p) \cap {"Release", "It came", "Approve"} = {}
    BY DEF SlipButtons
  <2> QED BY <1>7, <2>1, WhatIsOffered
<1>8. CASE p.kind = "count"
  <2>1. CountButtons(u, p) \cap {"Release", "It came", "Approve"} = {}
    BY DEF CountButtons
  <2> QED BY <1>8, <2>1, WhatIsOffered
<1>9. CASE p.kind = "none"
  BY <1>9, WhatIsOffered
<1> QED BY <1>1, <1>4, <1>5, <1>6, <1>7, <1>8, <1>9

LEMMA ApproveIsOf ==
    ASSUME WorklistsInvariant, NEW u \in Person, NEW i \in Paper
    PROVE  "Approve" \in Offered(u, i) <=>
             paper[i].kind = "order" /\ paper[i].status = "requested" /\ RoleOf[u] = "management"
<1>1. PICK p : p = paper[i]
  OBVIOUS
<1>2. "Approve" \in Offered(u, i) <=>
        p.kind = "order" /\ p.status = "requested" /\ RoleOf[u] = "management"
  BY <1>1, ButtonsAreOf, ZenonT(40)
<1> QED BY <1>1, <1>2

LEMMA BadgesAreRight ==
    ASSUME WorklistsInvariant
    PROVE  BadgesCountWhatIsOffered
<1>1. ReturnedBadge >= returned - claimed
  BY DEF WorklistsInvariant, ReturnedBadge
<1>2. ASSUME NEW u \in Person, canRelease(u)
      PROVE  toRelease = Cardinality(RowsWith(u, "Release"))
  <2>1. {i \in Papers("request") : paper[i].status = "requested"} = RowsWith(u, "Release")
    BY <1>2, ButtonsAreOf DEF Papers, RowsWith, canRelease
  <2> QED BY <2>1 DEF toRelease
<1>3. ASSUME NEW u \in Person, RoleOf[u] \in Floor
      PROVE  toConfirm(u) = Cardinality(RowsWith(u, "It came"))
  <2>1. Visible(RoleOf[u]) = Owned(RoleOf[u])
    BY <1>3, RoomsOfRoles DEF Floor
  <2>2. {i \in RequestsOf(u) : paper[i].status = "released"} = RowsWith(u, "It came")
    <3>1. \A i \in Paper : "It came" \in Offered(u, i) <=>
             /\ paper[i].kind = "request" /\ paper[i].status = "released"
             /\ paper[i].room \in Visible(RoleOf[u])
      <4> SUFFICES ASSUME NEW i \in Paper
                   PROVE  "It came" \in Offered(u, i) <=>
                            /\ paper[i].kind = "request" /\ paper[i].status = "released"
                            /\ paper[i].room \in Visible(RoleOf[u])
        OBVIOUS
      <4>1. "It came" \in Offered(u, i) <=>
              /\ paper[i].kind = "request" /\ paper[i].status = "released"
              /\ paper[i].room \in Owned(RoleOf[u])
        BY ButtonsAreOf
      <4> QED BY <2>1, <4>1
    <3> QED BY <3>1 DEF RequestsOf, Papers, RowsWith
  <2> QED BY <2>2 DEF toConfirm
<1>4. ASSUME NEW u \in Person, canDecide(u)
      PROVE  posWaiting = Cardinality(RowsWith(u, "Approve"))
  <2>1. \A i \in Paper : "Approve" \in Offered(u, i) <=>
           paper[i].kind = "order" /\ paper[i].status = "requested" /\ RoleOf[u] = "management"
    BY ApproveIsOf
  <2>2. {i \in Papers("order") : paper[i].status = "requested"} = RowsWith(u, "Approve")
    BY <1>4, <2>1 DEF Papers, RowsWith, canDecide
  <2> QED BY <2>2 DEF posWaiting
<1>5. ASSUME NEW u \in Person
      PROVE  WaitingOnMe(u) = RowsWith(u, "Release") \cup RowsWith(u, "It came")
  <2>1. \A i \in Paper : (paper[i].kind = "request" /\ needsMeFilter(u, paper[i])) <=>
           ("Release" \in Offered(u, i) \/ "It came" \in Offered(u, i))
    <3> SUFFICES ASSUME NEW i \in Paper
                 PROVE  (paper[i].kind = "request" /\ needsMeFilter(u, paper[i])) <=>
                          ("Release" \in Offered(u, i) \/ "It came" \in Offered(u, i))
      OBVIOUS
    <3>1. PICK p : p = paper[i]
      OBVIOUS
    <3>2. /\ "Release" \in Offered(u, i) <=>
               p.kind = "request" /\ p.status = "requested" /\ RoleOf[u] = "storekeeper"
          /\ "It came" \in Offered(u, i) <=>
               p.kind = "request" /\ p.status = "released" /\ p.room \in Owned(RoleOf[u])
      BY <3>1, ButtonsAreOf
    <3> QED BY <3>1, <3>2 DEF needsMeFilter, canRelease
  <2> QED BY <2>1 DEF WaitingOnMe, RowsWith, Papers
<1>6. ASSUME NEW u \in Person, NEW i \in WaitingOnMe(u)
      PROVE  needsMe(u, paper[i])
  <2>1. RightPaper(paper[i]) /\ paper[i].kind = "request" /\ needsMeFilter(u, paper[i])
    BY <1>6 DEF WaitingOnMe, Papers, WorklistsInvariant
  <2> QED BY <2>1 DEF needsMeFilter, needsMe, isMine, RightPaper
<1> QED BY <1>1, <1>2, <1>3, <1>4, <1>5, <1>6 DEF BadgesCountWhatIsOffered

\* In a branch with somebody for every role, every paper that is not finished is on
\* the screen of somebody whose button the server takes, and what Home counts is
\* what its screens offer (WorkFindsItsHands).
THEOREM NoPaperIsForgotten ==
    Staffed => (WorklistsInit /\ [][WorklistsNext]_worklistVars => []WorkFindsItsHands)
<1>1. Staffed /\ WorklistsInvariant => WorkFindsItsHands
  BY SomebodyIsOffered, BadgesAreRight DEF WorkFindsItsHands
<1>2. CASE Staffed
  <2>1. WorklistsInvariant => WorkFindsItsHands
    BY <1>1, <1>2
  <2> QED BY PapersStayRight, <2>1, PTL
<1> QED BY <1>2

-----------------------------------------------------------------------------
(* Shortfall: an order is tied to the request it is for, and bought once. *)

\* What has been ordered, is on its way, or stands in the drawer is tied to what the
\* drawer was opened for.  A request the drawer was opened for once, and whose
\* orders were all heard of, is in one place only: still being read, in the
\* drawer and perhaps on its way from there, on its way alone, or ordered.
Request == Short \cup {Untied}
PurchaseOrders == [no : Nat, issue : Request, lines : [BuyItem -> Request \cup {Typed}],
                   meant : Request, late : BOOLEAN, form : BOOLEAN]
ShortfallTypes ==
    /\ {prefill, fromIssue, meant, offer, releasing, detail.request} \subseteq Request
    /\ draft \in [BuyItem -> Request \cup {Typed}] /\ tiedLate \in BOOLEAN
    /\ raises \cup bought \subseteq PurchaseOrders /\ calls \in Nat
    /\ openings \in [once : SUBSET Short, twice : SUBSET Short]
    /\ openings.twice \subseteq openings.once
Tied(issue, has, for, late) ==
    /\ issue # Untied => for = issue \/ late
    /\ for \in Short /\ (\E i \in BuyItem : has[i] = for) => issue = for
OrdersAreTied ==
    /\ \A o \in raises \cup bought : Tied(o.issue, o.lines, o.meant, o.late)
    /\ Tied(fromIssue, draft, meant, tiedLate)
    /\ meant # Untied /\ prefill # Untied => prefill = meant
Raises(r) == {o \in raises : o.issue = r}
Bought(r) == {o \in bought : o.issue = r}
InOnePlace(r) ==
    /\ \A o, p \in Raises(r) : o = p
    /\ \A o, p \in Bought(r) : o = p
    /\ Bought(r) # {} => Raises(r) = {} /\ fromIssue # r
    /\ fromIssue = r => \A o \in Raises(r) : o.form
    /\ prefill = r => Raises(r) = {} /\ Bought(r) = {} /\ fromIssue # r
    /\ r \notin openings.once => Raises(r) = {} /\ Bought(r) = {} /\ fromIssue # r /\ prefill # r
ShortfallInvariant ==
    /\ ShortfallTypes /\ OrdersAreTied
    /\ \A r \in Short : r \in openings.twice \cup unheard \/ InOnePlace(r)

\* What neither the orders nor the drawer that raises them see.
LEMMA QuietKeepsShortfall ==
    ASSUME ShortfallInvariant,
           UNCHANGED <<prefill, fromIssue, meant, draft, tiedLate, raises, bought, openings, unheard>>,
           {offer', releasing', detail.request'} \subseteq Request, calls' \in Nat
    PROVE  ShortfallInvariant'
<1>1. ShortfallTypes'
  BY DEF ShortfallInvariant, ShortfallTypes
<1>2. OrdersAreTied'
  BY DEF ShortfallInvariant, OrdersAreTied, Tied
<1>3. ASSUME NEW r \in Short PROVE r \in openings'.twice \cup unheard' \/ InOnePlace(r)'
  BY DEF ShortfallInvariant, InOnePlace, Raises, Bought
<1> QED BY <1>1, <1>2, <1>3 DEF ShortfallInvariant

\* A screen is new: what it was sending goes on without it, and a request it is
\* opened for is opened for once or twice.
LEMMA FreshKeepsShortfall ==
    ASSUME ShortfallInvariant, NEW to, NEW x \in Request, Fresh(to, x)
    PROVE  ShortfallInvariant'
<1>1. ShortfallTypes /\ OrdersAreTied
  BY DEF ShortfallInvariant
<1>2. /\ prefill' = x /\ meant' = x /\ draft' = EmptyDraft /\ fromIssue' = Untied /\ tiedLate' = FALSE
      /\ raises' = {[o EXCEPT !.form = FALSE] : o \in raises}
      /\ detail' = NoDetail /\ releasing' = Untied /\ offer' = Untied
      /\ UNCHANGED <<bought, calls, unheard>>
  BY DEF Fresh, server, counters
<1>3. /\ openings' \in [once : SUBSET Short, twice : SUBSET Short]
      /\ openings'.twice \subseteq openings'.once
      /\ openings.once \subseteq openings'.once /\ openings.twice \subseteq openings'.twice
      /\ x # Untied => x \in openings'.once /\ (x \in openings.once => x \in openings'.twice)
  <2>1. openings \in [once : SUBSET Short, twice : SUBSET Short] /\ openings.twice \subseteq openings.once
    BY <1>1 DEF ShortfallTypes
  <2>2. CASE x = Untied
    BY <2>1, <2>2 DEF Fresh
  <2>3. CASE x # Untied
    <3>1. openings' = [once |-> openings.once \cup {x},
                       twice |-> openings.twice \cup ({x} \cap openings.once)]
      BY <2>3 DEF Fresh
    <3>2. x \in Short
      BY <2>3 DEF Request
    <3> QED BY <2>1, <3>1, <3>2
  <2> QED BY <2>2, <2>3
<1>4. ASSUME NEW d \in raises'
      PROVE  \E o \in raises : /\ d = [o EXCEPT !.form = FALSE] /\ d \in PurchaseOrders
                               /\ d.issue = o.issue /\ d.lines = o.lines /\ d.meant = o.meant
                               /\ d.late = o.late
  <2>1. PICK o \in raises : d = [o EXCEPT !.form = FALSE]
    BY <1>2
  <2>2. o \in PurchaseOrders
    BY <1>1 DEF ShortfallTypes
  <2> QED BY <2>1, <2>2 DEF PurchaseOrders
<1>5. ShortfallTypes'
  <2>1. EmptyDraft \in [BuyItem -> Request \cup {Typed}] /\ NoDetail.request = Untied /\ Untied \in Request
    BY DEF EmptyDraft, NoDetail, Request
  <2>2. raises' \cup bought' \subseteq PurchaseOrders
    BY <1>1, <1>2, <1>4 DEF ShortfallTypes
  <2> QED BY <1>1, <1>2, <1>3, <2>1, <2>2 DEF ShortfallTypes
<1>6. OrdersAreTied'
  <2>1. Tied(fromIssue', draft', meant', tiedLate')
    BY <1>2, ShortfallAssumption DEF Tied, EmptyDraft
  <2>2. ASSUME NEW o \in raises' \cup bought' PROVE Tied(o.issue, o.lines, o.meant, o.late)
    BY <1>1, <1>2, <1>4 DEF OrdersAreTied
  <2> QED BY <1>2, <2>1, <2>2 DEF OrdersAreTied
<1>7. ASSUME NEW r \in Short PROVE r \in openings'.twice \cup unheard' \/ InOnePlace(r)'
  <2> SUFFICES ASSUME r \notin openings'.twice, r \notin unheard' PROVE InOnePlace(r)'
    OBVIOUS
  <2>1. InOnePlace(r) /\ r # Untied
    BY <1>2, <1>3, ShortfallAssumption DEF ShortfallInvariant
  <2>2. Bought(r)' = Bought(r)
    BY <1>2 DEF Bought
  <2>3. Raises(r) = {} => Raises(r)' = {}
    BY <1>4 DEF Raises
  <2>4. \A o, p \in Raises(r)' : o = p
    <3> SUFFICES ASSUME NEW d \in Raises(r)', NEW e \in Raises(r)' PROVE d = e
      OBVIOUS
    <3>1. PICK o \in raises : d = [o EXCEPT !.form = FALSE] /\ o.issue = r
      BY <1>4 DEF Raises
    <3>2. PICK p \in raises : e = [p EXCEPT !.form = FALSE] /\ p.issue = r
      BY <1>4 DEF Raises
    <3>3. o \in Raises(r) /\ p \in Raises(r)
      BY <3>1, <3>2 DEF Raises
    <3> QED BY <2>1, <3>1, <3>2, <3>3 DEF InOnePlace
  <2>5. x = r => Raises(r) = {} /\ Bought(r) = {}
    BY <1>3, <2>1 DEF InOnePlace
  <2> QED BY <1>2, <1>3, <2>1, <2>2, <2>3, <2>4, <2>5 DEF InOnePlace
<1> QED BY <1>5, <1>6, <1>7 DEF ShortfallInvariant

\* The drawer is opened empty-handed, filled in from its request, or by hand.
LEMMA DraftingKeepsShortfall ==
    ASSUME ShortfallInvariant,
           openRaise \/ Prefilled \/ PrefillFails \/ (\E i \in BuyItem : EditDraft(i))
    PROVE  ShortfallInvariant'
<1>1. ShortfallTypes /\ OrdersAreTied
  BY DEF ShortfallInvariant
<1>2. UNCHANGED <<raises, bought, openings, unheard, offer, releasing, detail, calls>>
  BY DEF openRaise, Prefilled, PrefillFails, EditDraft, OnlyRaise, server, releaseDrawer, counters, history
<1>3. \A r \in Short : Raises(r)' = Raises(r) /\ Bought(r)' = Bought(r)
  BY <1>2 DEF Raises, Bought
<1>4. Untied \in Request /\ Untied \notin Short /\ Typed \notin Short
  BY ShortfallAssumption DEF Request
<1>5. CASE openRaise
  <2>1. fromIssue' = Untied /\ meant' = Untied /\ tiedLate' = FALSE /\ UNCHANGED <<draft, prefill>>
    BY <1>5 DEF openRaise
  <2>2. ShortfallTypes'
    BY <1>1, <1>2, <1>4, <2>1 DEF ShortfallTypes
  <2>3. OrdersAreTied'
    BY <1>1, <1>2, <1>4, <2>1 DEF OrdersAreTied, Tied
  <2>4. ASSUME NEW r \in Short PROVE r \in openings'.twice \cup unheard' \/ InOnePlace(r)'
    BY <1>2, <1>3, <1>4, <2>1 DEF ShortfallInvariant, InOnePlace
  <2> QED BY <2>2, <2>3, <2>4 DEF ShortfallInvariant
<1>6. CASE PrefillFails
  <2>1. prefill' = Untied /\ UNCHANGED <<draft, fromIssue, meant, tiedLate>>
    BY <1>6 DEF PrefillFails
  <2>2. ShortfallTypes'
    BY <1>1, <1>2, <1>4, <2>1 DEF ShortfallTypes
  <2>3. OrdersAreTied'
    BY <1>1, <1>2, <2>1 DEF OrdersAreTied, Tied
  <2>4. ASSUME NEW r \in Short PROVE r \in openings'.twice \cup unheard' \/ InOnePlace(r)'
    BY <1>2, <1>3, <1>4, <2>1 DEF ShortfallInvariant, InOnePlace
  <2> QED BY <2>2, <2>3, <2>4 DEF ShortfallInvariant
<1>7. CASE \E i \in BuyItem : EditDraft(i)
  <2>1. PICK i \in BuyItem, t \in {Typed, Untied} : draft' = [draft EXCEPT ![i] = t]
    BY <1>7 DEF EditDraft
  <2>2. UNCHANGED <<prefill, fromIssue, meant, tiedLate>>
    BY <1>7 DEF EditDraft
  <2>3. draft' \in [BuyItem -> Request \cup {Typed}]
    BY <1>1, <1>4, <2>1 DEF ShortfallTypes
  <2>4. ShortfallTypes'
    BY <1>1, <1>2, <2>2, <2>3 DEF ShortfallTypes
  <2>5. \A j \in BuyItem : draft'[j] = draft[j] \/ draft'[j] \notin Short
    BY <1>1, <1>4, <2>1 DEF ShortfallTypes
  <2>6. Tied(fromIssue, draft', meant, tiedLate)
    BY <1>1, <2>5 DEF OrdersAreTied, Tied
  <2>7. OrdersAreTied'
    BY <1>1, <1>2, <2>2, <2>6 DEF OrdersAreTied
  <2>8. ASSUME NEW r \in Short PROVE r \in openings'.twice \cup unheard' \/ InOnePlace(r)'
    BY <1>2, <1>3, <2>2 DEF ShortfallInvariant, InOnePlace
  <2> QED BY <2>4, <2>7, <2>8 DEF ShortfallInvariant
<1>8. CASE Prefilled
  <2>1. prefill # Untied /\ prefill' = Untied /\ meant' = meant
    BY <1>8 DEF Prefilled
  <2>2. CASE UNCHANGED <<draft, fromIssue, tiedLate>>
    <3>1. ShortfallTypes'
      BY <1>1, <1>2, <1>4, <2>1, <2>2 DEF ShortfallTypes
    <3>2. OrdersAreTied'
      BY <1>1, <1>2, <2>1, <2>2 DEF OrdersAreTied, Tied
    <3>3. ASSUME NEW r \in Short PROVE r \in openings'.twice \cup unheard' \/ InOnePlace(r)'
      BY <1>2, <1>3, <1>4, <2>1, <2>2 DEF ShortfallInvariant, InOnePlace
    <3> QED BY <3>1, <3>2, <3>3 DEF ShortfallInvariant
  <2>3. CASE ~UNCHANGED <<draft, fromIssue, tiedLate>>
    <3>1. PICK fill \in SUBSET BuyItem :
            /\ draft' = [i \in BuyItem |-> IF i \in fill THEN prefill ELSE draft[i]]
            /\ fromIssue' = prefill /\ tiedLate' = (meant # prefill)
      BY <1>8, <2>3 DEF Prefilled, Outstanding
    <3>2. prefill \in Request /\ meant \in Request /\ (meant # Untied => meant = prefill)
      BY <1>1, <2>1 DEF ShortfallTypes, OrdersAreTied
    <3>3. draft' \in [BuyItem -> Request \cup {Typed}]
      BY <1>1, <3>1, <3>2 DEF ShortfallTypes
    <3>4. ShortfallTypes'
      BY <1>1, <1>2, <1>4, <2>1, <3>1, <3>2, <3>3 DEF ShortfallTypes
    <3>5. Tied(fromIssue', draft', meant', tiedLate')
      BY <1>4, <2>1, <3>1, <3>2 DEF Tied
    <3>6. OrdersAreTied'
      BY <1>1, <1>2, <2>1, <3>5 DEF OrdersAreTied
    <3>7. ASSUME NEW r \in Short PROVE r \in openings'.twice \cup unheard' \/ InOnePlace(r)'
      BY <1>2, <1>3, <1>4, <2>1, <3>1 DEF ShortfallInvariant, InOnePlace
    <3> QED BY <3>4, <3>6, <3>7 DEF ShortfallInvariant
  <2> QED BY <2>2, <2>3
<1> QED BY <1>5, <1>6, <1>7, <1>8

\* The drawer's order is sent, when none is waited for.
LEMMA RaisingKeepsShortfall ==
    ASSUME ShortfallInvariant, submitRaise
    PROVE  ShortfallInvariant'
<1>1. ShortfallTypes /\ OrdersAreTied
  BY DEF ShortfallInvariant
<1>2. PICK new : new = [no |-> calls + 1, issue |-> fromIssue, lines |-> draft,
                        meant |-> meant, late |-> tiedLate, form |-> TRUE]
  OBVIOUS
<1>3. /\ calls' = calls + 1 /\ raises' = raises \cup {new} /\ \A o \in raises : ~o.form
      /\ UNCHANGED <<prefill, fromIssue, meant, draft, tiedLate, bought, openings, unheard, offer,
                     releasing, detail>>
  BY <1>2 DEF submitRaise, SendOrder, server, releaseDrawer, history
<1>4. /\ new.issue = fromIssue /\ new.lines = draft /\ new.meant = meant /\ new.late = tiedLate
      /\ new.form = TRUE /\ new \in PurchaseOrders
  BY <1>1, <1>2 DEF PurchaseOrders, ShortfallTypes
<1>5. ShortfallTypes'
  BY <1>1, <1>3, <1>4 DEF ShortfallTypes
<1>6. OrdersAreTied'
  BY <1>1, <1>3, <1>4 DEF OrdersAreTied
<1>7. ASSUME NEW r \in Short PROVE r \in openings'.twice \cup unheard' \/ InOnePlace(r)'
  <2> SUFFICES ASSUME r \notin openings.twice, r \notin unheard PROVE InOnePlace(r)'
    BY <1>3
  <2>1. InOnePlace(r)
    BY DEF ShortfallInvariant
  <2>2. Bought(r)' = Bought(r) /\ Raises(r)' = Raises(r) \cup {o \in {new} : fromIssue = r}
    BY <1>3, <1>4 DEF Raises, Bought
  <2>3. fromIssue = r => Raises(r) = {}
    BY <1>3, <2>1 DEF InOnePlace, Raises
  <2> QED BY <1>3, <1>4, <2>1, <2>2, <2>3 DEF InOnePlace
<1> QED BY <1>5, <1>6, <1>7 DEF ShortfallInvariant

\* An order is answered: it is bought, and the drawer that waited is empty.
LEMMA AnsweringKeepsShortfall ==
    ASSUME ShortfallInvariant, NEW o \in raises, RaiseAnswered(o)
    PROVE  ShortfallInvariant'
<1>1. ShortfallTypes /\ OrdersAreTied
  BY DEF ShortfallInvariant
<1>2. /\ raises' = raises \ {o} /\ bought' = bought \cup {o}
      /\ UNCHANGED <<prefill, meant, tiedLate, openings, unheard, offer, releasing, detail, calls>>
  BY DEF RaiseAnswered, releaseDrawer, counters, history
<1>3. \/ o.form /\ draft' = EmptyDraft /\ fromIssue' = Untied
      \/ ~o.form /\ UNCHANGED <<draft, fromIssue>>
  BY DEF RaiseAnswered
<1>4. Untied \in Request /\ Untied \notin Short /\ EmptyDraft \in [BuyItem -> Request \cup {Typed}]
  BY ShortfallAssumption DEF Request, EmptyDraft
<1>5. ShortfallTypes'
  BY <1>1, <1>2, <1>3, <1>4 DEF ShortfallTypes
<1>6. Tied(fromIssue', draft', meant', tiedLate')
  BY <1>1, <1>2, <1>3, <1>4 DEF OrdersAreTied, Tied, EmptyDraft
<1>7. OrdersAreTied'
  BY <1>1, <1>2, <1>6 DEF OrdersAreTied
<1>8. ASSUME NEW r \in Short PROVE r \in openings'.twice \cup unheard' \/ InOnePlace(r)'
  <2> SUFFICES ASSUME r \notin openings.twice, r \notin unheard PROVE InOnePlace(r)'
    BY <1>2
  <2>1. InOnePlace(r)
    BY DEF ShortfallInvariant
  <2>2. CASE o.issue = r
    <3>1. o \in Raises(r) /\ Raises(r)' = Raises(r) \ {o} /\ Bought(r)' = Bought(r) \cup {o}
      BY <1>2, <2>2 DEF Raises, Bought
    <3>2. Bought(r)' = {o} /\ Raises(r)' = {} /\ prefill # r /\ fromIssue' # r
      BY <1>3, <1>4, <2>1, <3>1 DEF InOnePlace
    <3>3. r \in openings.once
      BY <2>1, <3>1 DEF InOnePlace
    <3> QED BY <1>2, <3>2, <3>3 DEF InOnePlace
  <2>3. CASE o.issue # r
    <3>1. Raises(r)' = Raises(r) /\ Bought(r)' = Bought(r)
      BY <1>2, <2>3 DEF Raises, Bought
    <3> QED BY <1>2, <1>3, <1>4, <2>1, <3>1 DEF InOnePlace
  <2> QED BY <2>2, <2>3
<1> QED BY <1>5, <1>7, <1>8 DEF ShortfallInvariant

\* An order fails: it is not there, or it is and nobody has heard of it.
LEMMA FailingKeepsShortfall ==
    ASSUME ShortfallInvariant, NEW o \in raises, NEW done \in BOOLEAN, RaiseFails(o, done)
    PROVE  ShortfallInvariant'
<1>1. ShortfallTypes /\ OrdersAreTied
  BY DEF ShortfallInvariant
<1>2. /\ raises' = raises \ {o}
      /\ UNCHANGED <<prefill, fromIssue, draft, meant, tiedLate, openings, offer, releasing, detail, calls>>
      /\ \/ bought' = bought /\ unheard' = unheard
         \/ bought' = bought \cup {o} /\ unheard' = unheard \cup {o.issue}
  BY DEF RaiseFails, releaseDrawer, counters
<1>3. ShortfallTypes'
  BY <1>1, <1>2 DEF ShortfallTypes
<1>4. OrdersAreTied'
  BY <1>1, <1>2 DEF OrdersAreTied
<1>5. ASSUME NEW r \in Short PROVE r \in openings'.twice \cup unheard' \/ InOnePlace(r)'
  <2> SUFFICES ASSUME r \notin openings.twice, r \notin unheard' PROVE InOnePlace(r)'
    BY <1>2
  <2>1. InOnePlace(r)
    BY <1>2 DEF ShortfallInvariant
  <2>2. Raises(r)' \subseteq Raises(r) /\ Bought(r)' = Bought(r)
    BY <1>2 DEF Raises, Bought
  <2> QED BY <1>2, <2>1, <2>2 DEF InOnePlace
<1> QED BY <1>3, <1>4, <1>5 DEF ShortfallInvariant

\* The release drawer and the steps of the other leave the orders alone.
LEMMA ReleasingKeepsShortfall ==
    ASSUME ShortfallInvariant,
           \/ \E r \in Short : startRelease(r)
           \/ \E i \in BuyItem, q \in 0..MaxGiven : setGiving(i, q)
           \/ doRelease \/ ReleaseAnswered \/ ReleaseFails \/ CloseRelease
           \/ \E i \in BuyItem, q \in 0..MaxHeld : ShelfMoves(i, q)
           \/ TypeReason \/ raiseNext \/ raiseBack \/ onRaiseVisible
    PROVE  ShortfallInvariant'
<1>1. ShortfallTypes
  BY DEF ShortfallInvariant
<1>2. UNCHANGED <<prefill, fromIssue, meant, draft, tiedLate, raises, bought, openings, unheard>>
  BY DEF startRelease, setGiving, doRelease, ReleaseAnswered, ReleaseFails, CloseRelease, ShelfMoves,
         TypeReason, raiseNext, raiseBack, onRaiseVisible, OnlyRaise, server, releaseDrawer,
         raiseDrawer, counters, history
<1>3. calls' \in Nat
  BY <1>1 DEF ShortfallTypes, startRelease, setGiving, doRelease, ReleaseAnswered, ReleaseFails,
         CloseRelease, ShelfMoves, TypeReason, raiseNext, raiseBack, onRaiseVisible, OnlyRaise, counters
<1>4. /\ detail' \in {detail, NoDetail} \cup {Detail(r) : r \in Short}
      /\ releasing' \in {releasing, Untied, detail.request}
      /\ offer' \in {offer, Untied, releasing}
  BY DEF startRelease, setGiving, doRelease, ReleaseAnswered, ReleaseFails, CloseRelease, ShelfMoves,
         TypeReason, raiseNext, raiseBack, onRaiseVisible, OnlyRaise, releaseDrawer
<1>5. detail.request' \in Request /\ releasing' \in Request /\ offer' \in Request
  BY <1>1, <1>4 DEF ShortfallTypes, NoDetail, Detail, Request
<1> QED BY <1>2, <1>3, <1>5, QuietKeepsShortfall

LEMMA GoingKeepsShortfall ==
    ASSUME ShortfallInvariant,
           \/ orderShortfall \/ \E yes \in BOOLEAN : AnswerOffer(yes)
           \/ \E to \in {"requests", "purchases"} : GoTo(to)
    PROVE  ShortfallInvariant'
<1>1. ShortfallTypes
  BY DEF ShortfallInvariant
<1>2. Untied \in Request
  BY DEF Request
<1>3. CASE orderShortfall
  <2>1. Fresh("purchases", detail.request)
    BY <1>3 DEF orderShortfall
  <2> QED BY <1>1, <2>1, FreshKeepsShortfall DEF ShortfallTypes
<1>4. CASE \E to \in {"requests", "purchases"} : GoTo(to)
  <2>1. \E to \in {"requests", "purchases"} : Fresh(to, Untied)
    BY <1>4 DEF GoTo
  <2> QED BY <1>2, <2>1, FreshKeepsShortfall
<1>5. CASE AnswerOffer(TRUE)
  <2>1. Fresh("purchases", offer)
    BY <1>5 DEF AnswerOffer
  <2> QED BY <1>1, <2>1, FreshKeepsShortfall DEF ShortfallTypes
<1>6. CASE AnswerOffer(FALSE)
  <2>1. /\ offer' = Untied
        /\ UNCHANGED <<prefill, fromIssue, meant, draft, tiedLate, raises, bought, openings, unheard,
                       releasing, detail, calls>>
    BY <1>6 DEF AnswerOffer, server, raiseDrawer, counters, history
  <2> QED BY <1>1, <1>2, <2>1, QuietKeepsShortfall DEF ShortfallTypes
<1> QED BY <1>3, <1>4, <1>5, <1>6

\* An order is tied to the request its drawer was filled in from, and what one
\* request was short of is ordered once (ShortfallBought).
THEOREM ShortfallsAreBoughtOnce == ShortfallInit /\ [][ShortfallNext]_shortVars => []ShortfallBought
<1>1. ShortfallInit => ShortfallInvariant
  <2> SUFFICES ASSUME ShortfallInit PROVE ShortfallInvariant
    OBVIOUS
  <2>1. Untied \in Request /\ Untied \notin Short /\ EmptyDraft \in [BuyItem -> Request \cup {Typed}]
    BY ShortfallAssumption DEF Request, EmptyDraft
  <2>2. ShortfallTypes
    BY <2>1 DEF ShortfallInit, ShortfallTypes, NoDetail
  <2>3. OrdersAreTied
    BY <2>1 DEF ShortfallInit, OrdersAreTied, Tied
  <2>4. \A r \in Short : InOnePlace(r)
    BY <2>1 DEF ShortfallInit, InOnePlace, Raises, Bought
  <2> QED BY <2>2, <2>3, <2>4 DEF ShortfallInvariant
<1>2. ShortfallInvariant /\ UNCHANGED shortVars => ShortfallInvariant'
  <2> SUFFICES ASSUME ShortfallInvariant, UNCHANGED shortVars PROVE ShortfallInvariant'
    OBVIOUS
  <2>1. /\ UNCHANGED <<prefill, fromIssue, meant, draft, tiedLate, raises, bought, openings, unheard>>
        /\ UNCHANGED <<offer, releasing, detail, calls>>
    BY DEF shortVars
  <2> QED BY <2>1, QuietKeepsShortfall DEF ShortfallInvariant, ShortfallTypes
<1>3. ShortfallInvariant /\ [ShortfallNext]_shortVars => ShortfallInvariant'
  BY <1>2, ReleasingKeepsShortfall, GoingKeepsShortfall, DraftingKeepsShortfall,
     RaisingKeepsShortfall, AnsweringKeepsShortfall, FailingKeepsShortfall DEF ShortfallNext
<1>4. ShortfallInvariant => ShortfallBought
  <2> SUFFICES ASSUME ShortfallInvariant PROVE ShortfallBought
    OBVIOUS
  <2>1. TiedToWhatItIsFor
    BY DEF ShortfallInvariant, OrdersAreTied, Tied, TiedToWhatItIsFor
  <2>2. ASSUME NEW o \in bought, NEW p \in bought, o # p, o.issue = p.issue, o.issue # Untied
        PROVE  o.issue \in openings.twice \cup unheard
    <3>1. o.issue \in Short
      BY <2>2 DEF ShortfallInvariant, ShortfallTypes, PurchaseOrders, Request
    <3>2. ~InOnePlace(o.issue)
      BY <2>2 DEF InOnePlace, Bought
    <3> QED BY <3>1, <3>2 DEF ShortfallInvariant
  <2> QED BY <2>1, <2>2 DEF ShortfallBought, BoughtOnce
<1> QED BY <1>1, <1>3, <1>4, PTL

-----------------------------------------------------------------------------
(* Lists: the newest answer is of what the controls say. *)

\* Every call is for a page of a list, and the newest for the page and the list the
\* controls name, unless there is typing to be asked about or a report to be run.
\* An answer given when as many rows had been dealt with as now is what the server
\* would say now.  A page that was turned to was on the list its pager was drawn
\* for, so that it is empty only if rows have left that list since.
Filters == {"todo", "done", "all"}
Answers == [items : SUBSET RowIds, total : 0..LastRow, moves : Nat]
PageCalls == [id : Nat, what : [filter : Filters, words : BOOLEAN], page : Nat \ {0},
              answer : {NotYet} \cup Answers]
Now == Cardinality(DealtWith)
ListTypes ==
    /\ screen \in Screens /\ filter \in Filters /\ words \in BOOLEAN /\ page \in Nat \ {0}
    /\ rows \in [RowIds -> [status : {"todo", "done"}, hit : BOOLEAN]]
    /\ asked \in Nat \ {0} /\ pressed \in [own : BOOLEAN, moves : Nat]
    /\ shown.answer # NotYet /\ (shown.id = 0 => shown.answer.total = 0)
    /\ screen.filter = "run" => page = 1
    /\ typing => screen.words \in {"reset", "keep"}
PickedStands == picked \in {"none", screen.lands, filter} \/ screen.name = "purchases"
OnItsList(p, what) == p = 1 \/ p <= pageCount(Cardinality(Matching(what)))
NewestFits(c) ==
    /\ c.answer # NotYet => pressed.moves <= c.answer.moves
    /\ screen.name \notin PageKeepers /\ pressed.own =>
          IF c.answer = NotYet THEN Now = pressed.moves => OnItsList(c.page, c.what)
          ELSE c.answer.moves = pressed.moves => c.answer.items # {} \/ c.answer.total = 0
CallHolds(c) ==
    /\ c \in PageCalls /\ c.id <= asked
    /\ c.id = asked =>
          /\ c.page = page /\ (typing \/ screen.filter = "run" \/ c.what = Listed)
          /\ NewestFits(c)
    /\ c.answer # NotYet =>
          /\ c.answer.moves <= Now
          /\ c.id # 0 /\ c.answer.moves = Now => c.answer = toPage(c.what, c.page)
ListsInvariant ==
    /\ ListTypes /\ PickedStands /\ pressed.moves <= Now
    /\ CallHolds(shown) /\ \A c \in flight : CallHolds(c) /\ c.id # 0

\* Whatever rows are listed, each place of the list has a row.
LEMMA EveryPlaceHasItsRow ==
  ASSUME NEW n \in Nat, NEW T \in SUBSET (1..n), NEW k \in 1..Cardinality(T)
  PROVE  \E r \in T : Rank(r, T) = k
<1> DEFINE G == {m \in Nat : \A U \in SUBSET (1..m) : \A j \in 1..Cardinality(U) :
                                 \E r \in U : Rank(r, U) = j}
<1>1. 0 \in G
  <2>1. \A U \in SUBSET (1..0) : U = {}
    OBVIOUS
  <2>2. Cardinality({}) = 0
    BY FS_EmptySet
  <2> QED BY <2>1, <2>2
<1>2. ASSUME NEW m \in Nat, m \in G PROVE m + 1 \in G
  <2> SUFFICES ASSUME NEW U \in SUBSET (1..(m + 1)), NEW j \in 1..Cardinality(U)
               PROVE  \E r \in U : Rank(r, U) = j
    OBVIOUS
  <2>1. CASE m + 1 \notin U
    <3>1. U \in SUBSET (1..m)
      BY <2>1
    <3> QED BY <3>1, <1>2
  <2>2. CASE m + 1 \in U
    <3> DEFINE V == U \ {m + 1}
    <3>1. V \in SUBSET (1..m)
      OBVIOUS
    <3>2. IsFiniteSet(1..(m + 1))
      BY FS_Interval
    <3>3. IsFiniteSet(U)
      BY <3>2, FS_Subset
    <3>4. Cardinality(V) = Cardinality(U) - 1 /\ Cardinality(U) \in Nat
      BY <3>3, <2>2, FS_RemoveElement, FS_CardinalityType
    <3>5. CASE j = Cardinality(U)
      <4>1. \A x \in U : x \in 1..(m + 1) /\ x <= m + 1
        BY <2>2
      <4>2. {s \in U : s <= m + 1} = U
        BY <4>1
      <4> QED BY <4>2, <3>5, <2>2 DEF Rank
    <3>6. CASE j # Cardinality(U)
      <4>1. j \in 1..Cardinality(V)
        BY <3>4, <3>6
      <4>2. PICK r \in V : Rank(r, V) = j
        BY <4>1, <3>1, <1>2
      <4>3. {s \in U : s <= r} = {s \in V : s <= r}
        BY <3>1, <4>2
      <4> QED BY <4>2, <4>3 DEF Rank
    <3> QED BY <3>5, <3>6
  <2> QED BY <2>1, <2>2
<1> HIDE DEF G
<1>3. Nat \subseteq G
  BY <1>1, <1>2, NatSetInduction
<1> QED BY <1>3 DEF G

\* The first place of a page the pager offers is a place of the list.
LEMMA FirstPlaceOfAPage ==
  ASSUME NEW s \in Nat \ {0}, NEW n \in Nat \ {0}, NEW p \in Nat \ {0},
         p = 1 \/ p <= (n + s - 1) \div s
  PROVE  (p - 1) * s \in Nat /\ (p - 1) * s + 1 <= n
<1>1. CASE p = 1
  BY <1>1
<1>2. CASE p <= (n + s - 1) \div s
  <2> DEFINE q == (n + s - 1) \div s
  <2>1. q \in Int /\ s * q <= n + s - 1
    OBVIOUS
  <2>2. p <= q
    BY <1>2
  <2> HIDE DEF q
  <2>3. PICK d \in Nat : q = p + d
    <3>1. q - p \in Nat /\ q = p + (q - p)
      BY <2>1, <2>2
    <3> QED BY <3>1
  <2>4. s * d \in Nat /\ s * q = s * p + s * d
    BY <2>3
  <2>5. PICK e \in Nat : p = e + 1
    <3>1. p - 1 \in Nat /\ p = (p - 1) + 1
      OBVIOUS
    <3> QED BY <3>1
  <2>6. s * p = s * e + s /\ s * e \in Nat /\ e * s = s * e
    BY <2>5
  <2>7. s * e + s + s * d <= n + s - 1
    BY <2>1, <2>4, <2>6
  <2>8. s * e + 1 <= n
    BY <2>7, <2>4, <2>6
  <2>9. (p - 1) * s = s * e
    BY <2>5, <2>6
  <2> QED BY <2>6, <2>8, <2>9
<1> QED BY <1>1, <1>2

LEMMA RowsAreFew ==
  ASSUME ListTypes
  PROVE  /\ Now \in Nat /\ pageSize \in Nat \ {0} /\ IsFiniteSet(DealtWith)
         /\ \A w : /\ Matching(w) \in SUBSET (1..LastRow)
                   /\ Cardinality(Matching(w)) \in 0..LastRow
<1>1. IsFiniteSet(RowIds) /\ Cardinality(RowIds) = LastRow
  BY ListsAssumption, FS_Interval DEF RowIds
<1>2. \A w : Matching(w) \subseteq RowIds
  BY DEF Matching
<1>3. DealtWith \subseteq RowIds
  BY DEF DealtWith
<1>4. \A w : IsFiniteSet(Matching(w)) /\ Cardinality(Matching(w)) <= LastRow
  BY <1>1, <1>2, FS_Subset
<1>5. \A w : Cardinality(Matching(w)) \in Nat
  BY <1>4, FS_CardinalityType
<1>6. IsFiniteSet(DealtWith) /\ Now \in Nat
  BY <1>1, <1>3, FS_Subset, FS_CardinalityType DEF Now
<1>7. pageSize \in Nat \ {0}
  BY ListsAssumption DEF pageSize
<1> QED BY <1>2, <1>4, <1>5, <1>6, <1>7, ListsAssumption DEF RowIds

LEMMA RowsCount == ListTypes => Now \in Nat
BY RowsAreFew

\* What the server says of a page of a list is empty only of an empty list.
LEMMA PagesHaveRows ==
  ASSUME ListTypes, NEW w, NEW p \in Nat \ {0}
  PROVE  /\ toPage(w, p) \in Answers /\ toPage(w, p).moves = Now
         /\ OnItsList(p, w) => toPage(w, p).items # {} \/ toPage(w, p).total = 0
<1>1. PICK R : R = Matching(w)
  OBVIOUS
<1>2. R \in SUBSET (1..LastRow) /\ Cardinality(R) \in 0..LastRow /\ Now \in Nat /\ pageSize \in Nat \ {0}
  BY <1>1, RowsAreFew
<1>3. toPage(w, p) = [items |-> {r \in R : Rank(r, R) \in offsetOf(p) + 1 .. offsetOf(p) + pageSize},
                      total |-> Cardinality(R), moves |-> Now]
  BY <1>1 DEF toPage, Now
<1>4. ASSUME OnItsList(p, w), Cardinality(R) # 0 PROVE toPage(w, p).items # {}
  <2>1. PICK n \in Nat \ {0} : n = Cardinality(R)
    BY <1>2, <1>4
  <2>2. PICK s \in Nat \ {0} : s = pageSize
    BY <1>2
  <2>3. p = 1 \/ p <= (n + s - 1) \div s
    BY <1>1, <1>4, <2>1, <2>2 DEF OnItsList, pageCount
  <2>4. (p - 1) * s \in Nat /\ (p - 1) * s + 1 <= n
    BY <2>3, FirstPlaceOfAPage
  <2>5. PICK k \in Nat : k = (p - 1) * s
    BY <2>4
  <2>6. k + 1 \in 1..Cardinality(R) /\ LastRow \in Nat
    BY <2>1, <2>4, <2>5, ListsAssumption
  <2>7. PICK r \in R : Rank(r, R) = k + 1
    BY <1>2, <2>6, EveryPlaceHasItsRow
  <2>8. offsetOf(p) = k
    BY <2>2, <2>5 DEF offsetOf
  <2>9. k + 1 \in k + 1 .. k + pageSize
    BY <2>2
  <2> QED BY <1>3, <2>7, <2>8, <2>9
<1>5. toPage(w, p) \in Answers
  <2>1. {r \in R : Rank(r, R) \in offsetOf(p) + 1 .. offsetOf(p) + pageSize} \subseteq RowIds
    BY <1>2 DEF RowIds
  <2> QED BY <2>1, <1>2, <1>3 DEF Answers
<1> QED BY <1>3, <1>4, <1>5

\* Rows only leave "todo", and count up as they do.
Onward == screen' = screen /\ (rows' = rows \/ Now' > Now)

LEMMA AsTheServerSaid ==
  ASSUME screen' = screen, rows' = rows
  PROVE  /\ Now' = Now /\ pageSize' = pageSize
         /\ \A w, p : toPage(w, p)' = toPage(w, p) /\ OnItsList(p, w)' = OnItsList(p, w)
<1>1. pageSize' = pageSize
  BY DEF pageSize
<1>2. \A w : Matching(w)' = Matching(w)
  BY DEF Matching
<1>3. DealtWith' = DealtWith
  BY DEF DealtWith
<1>4. \A p : offsetOf(p)' = offsetOf(p)
  BY <1>1 DEF offsetOf
<1>5. \A n : pageCount(n)' = pageCount(n)
  BY <1>1 DEF pageCount
<1> QED BY <1>1, <1>2, <1>3, <1>4, <1>5 DEF toPage, OnItsList, Now

\* A call that was known before holds after a step that lets it be the newest no more.
LEMMA OlderCallsHold ==
  ASSUME ListTypes, ListTypes', Onward, NEW c, CallHolds(c), asked' = asked + 1
  PROVE  CallHolds(c)'
<1>1. c \in PageCalls /\ c.id \in Nat /\ c.id <= asked /\ asked \in Nat
  BY DEF CallHolds, PageCalls, ListTypes
<1>2. c.id <= asked' /\ c.id # asked'
  BY <1>1
<1>3. ASSUME c.answer # NotYet
      PROVE  c.answer.moves <= Now' /\ (c.id # 0 /\ c.answer.moves = Now' => c.answer = toPage(c.what, c.page)')
  <2>1. c.answer.moves <= Now /\ (c.id # 0 /\ c.answer.moves = Now => c.answer = toPage(c.what, c.page))
    BY <1>3 DEF CallHolds
  <2>2. c.answer.moves \in Nat /\ Now \in Nat /\ Now' \in Nat
    <3>1. c.answer \in Answers
      BY <1>1, <1>3 DEF PageCalls
    <3>2. Now \in Nat
      BY RowsAreFew
    <3>3. (ListTypes => Now \in Nat)'
      BY RowsCount, PTL
    <3> QED BY <3>1, <3>2, <3>3 DEF Answers
  <2>3. CASE rows' = rows
    BY <2>1, <2>3, AsTheServerSaid DEF Onward
  <2>4. CASE Now' > Now
    BY <2>1, <2>2, <2>4
  <2> QED BY <2>3, <2>4 DEF Onward
<1> QED BY <1>1, <1>2, <1>3 DEF CallHolds

\* And after one that leaves the newest what it was.
LEMMA NewestStillHolds ==
  ASSUME ListTypes, ListTypes', Onward, pressed.moves <= Now,
         NEW c, CallHolds(c), asked' = asked, page' = page, pressed' = pressed,
         screen.filter = "run" \/ typing' \/ (filter' = filter /\ words' = words /\ typing' = typing)
  PROVE  CallHolds(c)'
<1>1. c \in PageCalls /\ c.id <= asked'
  BY DEF CallHolds
<1>2. Now \in Nat /\ pressed.moves \in Nat
  BY RowsAreFew DEF ListTypes
<1>3. Now' \in Nat
  <2>1. (ListTypes => Now \in Nat)'
    BY RowsCount, PTL
  <2> QED BY <2>1
<1>4. screen' = screen
  BY DEF Onward
<1>5. ASSUME c.id = asked'
      PROVE  c.page = page' /\ (typing' \/ screen'.filter = "run" \/ c.what = Listed') /\ NewestFits(c)'
  <2>1. c.page = page /\ (typing \/ screen.filter = "run" \/ c.what = Listed) /\ NewestFits(c)
    BY <1>5 DEF CallHolds
  <2>2. typing' \/ screen'.filter = "run" \/ c.what = Listed'
    BY <2>1, <1>4 DEF Listed
  <2>3. NewestFits(c)'
    <3>1. CASE rows' = rows
      BY <2>1, <3>1, <1>4, AsTheServerSaid DEF NewestFits
    <3>2. CASE Now' > Now
      <4>1. Now' # pressed.moves
        BY <1>2, <1>3, <3>2
      <4> QED BY <2>1, <4>1, <1>4 DEF NewestFits
    <3> QED BY <3>1, <3>2 DEF Onward
  <2> QED BY <2>1, <2>2, <2>3
<1>6. ASSUME c.answer # NotYet
      PROVE  c.answer.moves <= Now' /\ (c.id # 0 /\ c.answer.moves = Now' => c.answer = toPage(c.what, c.page)')
  <2>1. c.answer.moves <= Now /\ (c.id # 0 /\ c.answer.moves = Now => c.answer = toPage(c.what, c.page))
    BY <1>6 DEF CallHolds
  <2>2. c.answer.moves \in Nat
    BY <1>1, <1>6 DEF PageCalls, Answers
  <2>3. CASE rows' = rows
    BY <2>1, <2>3, <1>4, AsTheServerSaid
  <2>4. CASE Now' > Now
    BY <2>1, <2>2, <2>4, <1>2, <1>3
  <2> QED BY <2>3, <2>4 DEF Onward
<1> QED BY <1>1, <1>5, <1>6 DEF CallHolds

\* A step that asks for a page keeps everything, if it asks for what the controls now
\* say and either for a first page or for a page the list has.
LEMMA AskingKeeps ==
  ASSUME ListsInvariant, ListTypes', PickedStands', Onward,
         NEW w \in [filter : Filters, words : BOOLEAN], NEW p \in Nat \ {0}, Ask(w, p),
         page' = p, typing' \/ screen.filter = "run" \/ w = Listed', shown' = shown,
         pressed'.moves <= Now,
         screen.name \notin PageKeepers /\ pressed'.own /\ Now' = pressed'.moves => OnItsList(p, w)'
  PROVE  ListsInvariant'
<1>1. asked' = asked + 1 /\ asked \in Nat /\ Now \in Nat /\ pressed'.moves \in Nat
  BY RowsAreFew DEF Ask, ListsInvariant, ListTypes
<1>2. Now' \in Nat /\ Now <= Now'
  <2>1. (ListTypes => Now \in Nat)'
    BY RowsCount, PTL
  <2>2. Now' \in Nat
    BY <2>1
  <2>3. rows' = rows => Now' = Now
    BY AsTheServerSaid DEF Onward
  <2> QED BY <2>2, <2>3, <1>1 DEF Onward
<1>0. PICK c : c = [id |-> asked + 1, what |-> w, page |-> p, answer |-> NotYet]
  OBVIOUS
<1>3. flight' = flight \cup {c}
  BY <1>0 DEF Ask
<1>4. CallHolds(c)'
  <2>1. c \in PageCalls
    BY <1>0, <1>1 DEF PageCalls
  <2>2. c.id = asked' /\ c.what = w /\ c.page = p /\ c.answer = NotYet
    BY <1>0, <1>1
  <2>3. NewestFits(c)'
    BY <2>2 DEF NewestFits, Onward
  <2>4. c.id <= asked' /\ (typing' \/ screen'.filter = "run" \/ c.what = Listed')
    BY <2>2, <1>1 DEF Onward
  <2> QED BY <2>1, <2>2, <2>3, <2>4 DEF CallHolds
<1>5. c.id # 0
  BY <1>0, <1>1
<1>6. \A d \in flight : CallHolds(d)' /\ d.id # 0
  BY <1>1, OlderCallsHold DEF ListsInvariant
<1>7. CallHolds(shown)'
  <2>1. PICK d : d = shown
    OBVIOUS
  <2>2. CallHolds(d)'
    BY <2>1, <1>1, OlderCallsHold DEF ListsInvariant
  <2> QED BY <2>1, <2>2
<1>8. pressed'.moves <= Now'
  BY <1>1, <1>2
<1> QED BY <1>3, <1>4, <1>5, <1>6, <1>7, <1>8 DEF ListsInvariant

\* What the steps need of the fourteen screens.
ScreenIsKnown(s) ==
    /\ s.lands \in Filters
    /\ s.filter = "keep" \/ s.words = "keep" => s.name \in PageKeepers
    /\ s.filter \in {"reset", "keep", "run", "none"}
    /\ s.filter = "run" => s.words = "none" /\ ~s.acts /\ s.empty = "stay"
    /\ s.empty = "any" => s.name = "purchases"

LEMMA ScreensAreKnown == \A s \in Screens : ScreenIsKnown(s)
<1>1. ScreenIsKnown(RequestsScreen)
  BY DEF ScreenIsKnown, RequestsScreen, Filters
<1>2. ScreenIsKnown(ManagersRequests)
  BY DEF ScreenIsKnown, ManagersRequests, RequestsScreen, Filters
<1>3. ScreenIsKnown(PurchasesScreen)
  BY DEF ScreenIsKnown, PurchasesScreen, Filters
<1>4. ScreenIsKnown(StockScreen)
  BY DEF ScreenIsKnown, StockScreen, Filters, PageKeepers
<1>5. ScreenIsKnown(MyStockScreen)
  BY DEF ScreenIsKnown, MyStockScreen, Filters
<1>6. ScreenIsKnown(DeliveriesScreen)
  BY DEF ScreenIsKnown, DeliveriesScreen, Filters
<1>7. ScreenIsKnown(WastageScreen)
  BY DEF ScreenIsKnown, WastageScreen, Filters, PageKeepers
<1>8. ScreenIsKnown(SupplierReturnsScreen)
  BY DEF ScreenIsKnown, SupplierReturnsScreen, Filters, PageKeepers
<1>9. ScreenIsKnown(SectionReturnsScreen)
  BY DEF ScreenIsKnown, SectionReturnsScreen, Filters
<1>10. ScreenIsKnown(CountsScreen)
  BY DEF ScreenIsKnown, CountsScreen, SectionReturnsScreen, Filters
<1>11. ScreenIsKnown(UsersScreen)
  BY DEF ScreenIsKnown, UsersScreen, SectionReturnsScreen, Filters
<1>12. ScreenIsKnown(ItemsScreen)
  BY DEF ScreenIsKnown, ItemsScreen, Filters
<1>13. ScreenIsKnown(SuppliersScreen)
  BY DEF ScreenIsKnown, SuppliersScreen, ItemsScreen, Filters
<1>14. ScreenIsKnown(ReportsScreen)
  BY DEF ScreenIsKnown, ReportsScreen, Filters
<1> QED BY <1>1, <1>2, <1>3, <1>4, <1>5, <1>6, <1>7, <1>8, <1>9, <1>10, <1>11, <1>12, <1>13,
           <1>14 DEF Screens

LEMMA ScreensAre ==
  ASSUME screen \in Screens
  PROVE  /\ screen.lands \in Filters
         /\ screen.filter = "keep" \/ screen.words = "keep" => screen.name \in PageKeepers
         /\ screen.filter \in {"reset", "keep", "run", "none"}
         /\ screen.filter = "run" => screen.words = "none" /\ ~screen.acts /\ screen.empty = "stay"
         /\ screen.empty = "any" => screen.name = "purchases"
BY ScreensAreKnown DEF ScreenIsKnown

LEMMA ListsBegin == ListsInit => ListsInvariant
<1> SUFFICES ASSUME ListsInit PROVE ListsInvariant
  OBVIOUS
<1>1. screen.lands \in Filters
  BY ScreensAre DEF ListsInit
<1>2. NotYet # [items |-> {}, total |-> 0, moves |-> 0]
  BY DEF NotYet
<1>3. ListTypes
  <2>1. shown.answer # NotYet /\ (shown.id = 0 => shown.answer.total = 0)
    BY <1>2 DEF ListsInit
  <2>2. pressed \in [own : BOOLEAN, moves : Nat]
    BY DEF ListsInit
  <2>3. filter \in Filters /\ words \in BOOLEAN /\ page = 1 /\ asked = 1 /\ typing = FALSE
    BY <1>1 DEF ListsInit
  <2>4. screen \in Screens /\ rows \in [RowIds -> [status : {"todo", "done"}, hit : BOOLEAN]]
    BY DEF ListsInit
  <2> QED BY <2>1, <2>2, <2>3, <2>4 DEF ListTypes
<1>4. Now \in Nat
  BY <1>3, RowsCount
<1>5. PICK c : c = [id |-> 1, what |-> [filter |-> screen.lands, words |-> FALSE], page |-> 1, answer |-> NotYet]
  OBVIOUS
<1>6. CallHolds(c)
  <2>1. c \in PageCalls
    BY <1>1, <1>5 DEF PageCalls
  <2>2. NewestFits(c)
    BY <1>5 DEF NewestFits, OnItsList
  <2>3. c.id = 1 /\ c.page = 1 /\ c.answer = NotYet /\ c.what = Listed
    BY <1>5 DEF Listed, ListsInit
  <2>4. page = 1 /\ asked = 1
    BY DEF ListsInit
  <2> QED BY <2>1, <2>2, <2>3, <2>4 DEF CallHolds
<1>7. PICK d : d = shown
  OBVIOUS
<1>8. CallHolds(d)
  <2>1. d = [id |-> 0, what |-> [filter |-> screen.lands, words |-> FALSE], page |-> 1,
             answer |-> [items |-> {}, total |-> 0, moves |-> 0]]
    BY <1>7 DEF ListsInit
  <2>2. [items |-> {}, total |-> 0, moves |-> 0] \in Answers
    BY ListsAssumption DEF Answers
  <2>3. d \in PageCalls
    BY <2>1, <2>2, <1>1 DEF PageCalls
  <2>4. d.id = 0 /\ asked = 1 /\ d.answer.moves = 0
    BY <2>1 DEF ListsInit
  <2> QED BY <2>3, <2>4, <1>4 DEF CallHolds
<1>9. flight = {c} /\ c.id # 0 /\ pressed.moves <= Now /\ PickedStands
  BY <1>4, <1>5 DEF ListsInit, PickedStands
<1> QED BY <1>3, <1>6, <1>7, <1>8, <1>9 DEF ListsInvariant

LEMMA FilterKeepsList ==
  ASSUME ListsInvariant, NEW f \in Filters, SetFilter(f)
  PROVE  ListsInvariant'
<1>1. ListTypes /\ Onward /\ pressed' = pressed /\ shown' = shown /\ pressed.moves <= Now
  BY DEF ListsInvariant, SetFilter, Onward
<1>2. page' \in Nat \ {0} /\ (screen.filter = "run" => page' = page)
  BY <1>1 DEF SetFilter, ListTypes
<1>3. asked' \in Nat \ {0}
  BY <1>1 DEF SetFilter, ListTypes, Ask
<1>4. ListTypes'
  BY <1>1, <1>2, <1>3 DEF ListTypes, SetFilter
<1>5. PickedStands'
  BY DEF SetFilter, PickedStands
<1>6. CASE screen.filter = "run"
  <2>1. asked' = asked /\ flight' = flight /\ page' = page
    BY <1>2, <1>6 DEF SetFilter
  <2>2. \A c : CallHolds(c) => CallHolds(c)'
    BY <2>1, <1>1, <1>4, <1>6, NewestStillHolds
  <2>3. PICK d : d = shown
    OBVIOUS
  <2>4. CallHolds(d)'
    BY <2>2, <2>3 DEF ListsInvariant
  <2>5. Now' = Now
    BY AsTheServerSaid DEF SetFilter
  <2> QED BY <2>1, <2>2, <2>3, <2>4, <2>5, <1>1, <1>4, <1>5 DEF ListsInvariant
<1>7. CASE screen.filter # "run"
  <2>1. PICK w : w = [filter |-> f, words |-> words]
    OBVIOUS
  <2>2. PICK p : p = page'
    OBVIOUS
  <2>3. Ask(w, p)
    BY <1>7, <2>1, <2>2 DEF SetFilter, Ask
  <2>4. w \in [filter : Filters, words : BOOLEAN] /\ w = Listed'
    BY <2>1, <1>1 DEF ListTypes, Listed, SetFilter
  <2>5. screen.name \notin PageKeepers => p = 1
    BY <1>1, <1>7, <2>2, ScreensAre DEF ListTypes, SetFilter
  <2>6. screen.name \notin PageKeepers => OnItsList(p, w)'
    BY <2>5 DEF OnItsList
  <2> QED BY <1>1, <1>2, <1>4, <1>5, <2>2, <2>3, <2>4, <2>6, AskingKeeps
<1> QED BY <1>6, <1>7

LEMMA RunKeepsList ==
  ASSUME ListsInvariant, RunReport
  PROVE  ListsInvariant'
<1>1. ListTypes /\ Onward /\ pressed' = pressed /\ shown' = shown /\ pressed.moves <= Now /\ page = 1 /\ page' = 1
  BY DEF ListsInvariant, ListTypes, RunReport, Onward
<1>2. asked' \in Nat \ {0}
  BY <1>1 DEF RunReport, ListTypes, Ask
<1>3. ListTypes'
  BY <1>1, <1>2 DEF ListTypes, RunReport
<1>4. PickedStands'
  BY DEF ListsInvariant, RunReport, PickedStands
<1>5. PICK w : w = Listed
  OBVIOUS
<1>6. Ask(w, 1) /\ w = Listed'
  BY <1>1, <1>5 DEF RunReport, Ask, Listed
<1>7. w \in [filter : Filters, words : BOOLEAN]
  BY <1>1, <1>5 DEF ListTypes, Listed
<1>8. OnItsList(1, w)'
  BY DEF OnItsList
<1> QED BY <1>1, <1>3, <1>4, <1>6, <1>7, <1>8, AskingKeeps

LEMMA ChipKeepsList ==
  ASSUME ListsInvariant, TapChip
  PROVE  ListsInvariant'
<1>1. ListTypes /\ Onward /\ pressed' = pressed /\ shown' = shown /\ pressed.moves <= Now /\ page' = 1
  BY DEF ListsInvariant, TapChip, Onward
<1>2. asked' \in Nat \ {0}
  BY <1>1 DEF TapChip, ListTypes, Ask
<1>3. ListTypes'
  BY <1>1, <1>2 DEF ListTypes, TapChip
<1>4. PickedStands'
  BY DEF ListsInvariant, TapChip, PickedStands
<1>5. PICK w : w = [filter |-> filter, words |-> ~words]
  OBVIOUS
<1>6. Ask(w, 1) /\ w = Listed'
  BY <1>5 DEF TapChip, Ask, Listed
<1>7. w \in [filter : Filters, words : BOOLEAN]
  BY <1>1, <1>5 DEF ListTypes
<1>8. OnItsList(1, w)'
  BY DEF OnItsList
<1> QED BY <1>1, <1>3, <1>4, <1>6, <1>7, <1>8, AskingKeeps

\* After a step that asks for nothing and turns no page, all calls hold as they did.
LEMMA WaitingKeeps ==
  ASSUME ListsInvariant, ListTypes', PickedStands', Onward, asked' = asked, page' = page,
         pressed' = pressed, flight' = flight, shown' = shown,
         typing' \/ (filter' = filter /\ words' = words /\ typing' = typing)
  PROVE  ListsInvariant'
<1>1. ListTypes /\ pressed.moves <= Now
  BY DEF ListsInvariant
<1>2. \A c : CallHolds(c) => CallHolds(c)'
  BY <1>1, NewestStillHolds
<1>3. PICK d : d = shown
  OBVIOUS
<1>4. CallHolds(d)'
  BY <1>2, <1>3 DEF ListsInvariant
<1>5. pressed.moves \in Nat /\ Now \in Nat
  BY <1>1, RowsCount DEF ListTypes
<1>6. (ListTypes => Now \in Nat)'
  BY RowsCount, PTL
<1>7. pressed.moves <= Now'
  BY <1>1, <1>5, <1>6, AsTheServerSaid DEF Onward
<1> QED BY <1>2, <1>3, <1>4, <1>7 DEF ListsInvariant

LEMMA TypingKeepsList ==
  ASSUME ListsInvariant, TypeWords
  PROVE  ListsInvariant'
<1>1. ListTypes' /\ PickedStands' /\ Onward
  BY DEF ListsInvariant, ListTypes, PickedStands, TypeWords, Onward
<1> QED BY <1>1, WaitingKeeps DEF TypeWords

LEMMA TimerKeepsList ==
  ASSUME ListsInvariant, TimerFires
  PROVE  ListsInvariant'
<1>1. ListTypes /\ Onward /\ pressed' = pressed /\ shown' = shown /\ pressed.moves <= Now
  BY DEF ListsInvariant, TimerFires, Onward
<1>2. asked' \in Nat \ {0} /\ page' \in Nat \ {0} /\ (screen.filter = "run" => page' = 1)
  BY <1>1 DEF TimerFires, ListTypes, Ask
<1>3. ListTypes'
  BY <1>1, <1>2 DEF ListTypes, TimerFires
<1>4. PickedStands'
  BY DEF ListsInvariant, TimerFires, PickedStands
<1>5. PICK w : w = Listed
  OBVIOUS
<1>6. PICK p : p = page'
  OBVIOUS
<1>7. Ask(w, p) /\ w = Listed'
  BY <1>5, <1>6 DEF TimerFires, Ask, Listed
<1>8. w \in [filter : Filters, words : BOOLEAN]
  BY <1>1, <1>5 DEF ListTypes, Listed
<1>9. CASE screen.words = "reset"
  <2>1. OnItsList(p, w)'
    BY <1>6, <1>9 DEF OnItsList, TimerFires
  <2> QED BY <2>1, <1>1, <1>2, <1>3, <1>4, <1>6, <1>7, <1>8, AskingKeeps
<1>10. CASE screen.words # "reset"
  <2>1. screen.name \in PageKeepers
    BY <1>1, <1>10, ScreensAre DEF ListTypes, TimerFires
  <2> QED BY <2>1, <1>1, <1>2, <1>3, <1>4, <1>6, <1>7, <1>8, AskingKeeps
<1> QED BY <1>9, <1>10

\* A page that is turned to is on the list the pager was drawn for.
LEMMA TurningKeepsList ==
  ASSUME ListsInvariant, NEW p \in 1..LastRow, TurnPage(p)
  PROVE  ListsInvariant'
<1>1. ListTypes /\ Onward /\ shown' = shown /\ page' = p /\ rows' = rows /\ screen' = screen
  BY DEF ListsInvariant, TurnPage, Onward
<1>2. PICK d : d = shown
  OBVIOUS
<1>3. d \in PageCalls /\ d.answer \in Answers /\ d.answer # NotYet /\ (d.id = 0 => d.answer.total = 0)
  BY <1>2 DEF ListsInvariant, ListTypes, CallHolds, PageCalls
<1>4. d.answer.moves \in Nat /\ d.answer.total \in 0..LastRow /\ d.page \in Nat \ {0}
  BY <1>3 DEF Answers, PageCalls
<1>5. d.answer.moves <= Now /\ (d.id # 0 /\ d.answer.moves = Now => d.answer = toPage(d.what, d.page))
  BY <1>2, <1>3 DEF ListsInvariant, CallHolds
<1>6. pageSize \in Nat \ {0} /\ d.answer.total > pageSize
  BY <1>1, <1>2, RowsAreFew DEF TurnPage, PagerShows
<1>7. screen.filter # "run"
  BY <1>4, <1>6, ListsAssumption DEF pageSize
<1>8. pressed' = [own |-> d.what = Listed, moves |-> d.answer.moves]
  BY <1>2 DEF TurnPage
<1>9. asked' \in Nat \ {0}
  BY <1>1 DEF TurnPage, ListTypes, Ask
<1>10. p \in Nat \ {0}
  BY ListsAssumption
<1>11. ListTypes'
  <2>1. pressed' \in [own : BOOLEAN, moves : Nat]
    BY <1>4, <1>8
  <2> QED BY <1>1, <1>7, <1>9, <1>10, <2>1 DEF ListTypes, TurnPage
<1>12. PickedStands'
  BY DEF ListsInvariant, TurnPage, PickedStands
<1>13. PICK w : w = Listed
  OBVIOUS
<1>14. Ask(w, p) /\ w = Listed'
  BY <1>13 DEF TurnPage, Ask, Listed
<1>15. w \in [filter : Filters, words : BOOLEAN]
  BY <1>1, <1>13 DEF ListTypes, Listed
<1>16. Now' = Now
  BY <1>1, AsTheServerSaid
<1>17. ASSUME pressed'.own, Now' = pressed'.moves PROVE OnItsList(p, w)'
  <2>1. d.what = w /\ d.answer.moves = Now
    BY <1>8, <1>13, <1>16, <1>17
  <2>2. d.id # 0
    BY <1>3, <1>6
  <2>3. d.answer = toPage(w, d.page)
    BY <1>5, <2>1, <2>2
  <2>4. d.answer.total = Cardinality(Matching(w))
    BY <2>3 DEF toPage
  <2>5. p <= pageCount(d.answer.total)
    <3>1. p \in 1..pageCount(d.answer.total)
      BY <1>2 DEF TurnPage
    <3> QED BY <3>1
  <2>6. OnItsList(p, w)
    BY <2>4, <2>5 DEF OnItsList
  <2> QED BY <2>6, <1>1, AsTheServerSaid
<1>18. pressed'.moves <= Now
  BY <1>5, <1>8
<1> QED BY <1>1, <1>10, <1>11, <1>12, <1>14, <1>15, <1>17, <1>18, AskingKeeps

\* The answer to a call is the page it asked for, as the rows are now.
LEMMA ServingKeepsList ==
  ASSUME ListsInvariant, NEW c \in flight, ServePage(c)
  PROVE  ListsInvariant'
<1>1. ListTypes /\ Onward /\ shown' = shown /\ rows' = rows /\ screen' = screen
        /\ asked' = asked /\ page' = page /\ pressed' = pressed /\ pressed.moves <= Now
  BY DEF ListsInvariant, ServePage, Onward
<1>2. ListTypes' /\ PickedStands'
  BY DEF ListsInvariant, ServePage, ListTypes, PickedStands
<1>3. \A d : CallHolds(d) => CallHolds(d)'
  BY <1>1, <1>2, NewestStillHolds DEF ServePage
<1>4. PICK a : a = toPage(c.what, c.page)
  OBVIOUS
<1>5. PICK e : e = [c EXCEPT !.answer = a]
  OBVIOUS
<1>6. c \in PageCalls /\ c.id # 0 /\ c.id <= asked /\ c.answer = NotYet
  BY DEF ListsInvariant, CallHolds, ServePage
<1>7. c.page \in Nat \ {0}
  BY <1>6 DEF PageCalls
<1>8. a \in Answers /\ a.moves = Now /\ (OnItsList(c.page, c.what) => a.items # {} \/ a.total = 0)
  BY <1>1, <1>4, <1>7, PagesHaveRows
<1>9. e.id = c.id /\ e.what = c.what /\ e.page = c.page /\ e.answer = a /\ e \in PageCalls
  BY <1>5, <1>6, <1>8 DEF PageCalls
<1>10. a # NotYet /\ Now \in Nat
  <2>1. a.total \in 0..LastRow
    BY <1>8 DEF Answers
  <2>2. NotYet.total = -1
    BY DEF NotYet
  <2> QED BY <2>1, <2>2, <1>1, RowsCount
<1>11. CallHolds(e)
  <2>1. ASSUME e.id = asked
        PROVE  e.page = page /\ (typing \/ screen.filter = "run" \/ e.what = Listed) /\ NewestFits(e)
    <3>1. c.page = page /\ (typing \/ screen.filter = "run" \/ c.what = Listed) /\ NewestFits(c)
      BY <1>9, <2>1 DEF ListsInvariant, CallHolds
    <3>2. NewestFits(e)
      BY <3>1, <1>1, <1>6, <1>8, <1>9, <1>10 DEF NewestFits
    <3> QED BY <3>1, <3>2, <1>9
  <2> QED BY <2>1, <1>4, <1>6, <1>8, <1>9, <1>10 DEF CallHolds
<1>12. flight' = (flight \ {c}) \cup {e}
  BY <1>4, <1>5 DEF ServePage
<1>13. PICK d : d = shown
  OBVIOUS
<1>14. CallHolds(d)'
  BY <1>3, <1>13 DEF ListsInvariant
<1>15. Now' = Now
  BY <1>1, AsTheServerSaid
<1> QED BY <1>1, <1>2, <1>3, <1>6, <1>9, <1>11, <1>12, <1>13, <1>14, <1>15 DEF ListsInvariant

\* Whether the answer is shown or not, what it gives way to is a first page.
LEMMA SettlingKeepsList ==
  ASSUME ListsInvariant, NEW c \in flight, Settle(c), shown' \in {c, shown}, shown'.answer # NotYet,
         UNCHANGED <<screen, rows, words, typing, picked, pressed>>
  PROVE  ListsInvariant'
<1>1. ListTypes /\ Onward /\ rows' = rows /\ screen' = screen /\ pressed' = pressed /\ pressed.moves <= Now
  BY DEF ListsInvariant, Onward
<1>2. Now' = Now /\ pressed.moves <= Now'
  BY <1>1, AsTheServerSaid
<1>3. PICK d : d = shown'
  OBVIOUS
<1>4. CallHolds(d) /\ d.answer # NotYet /\ (d.id = 0 => d.answer.total = 0)
  BY <1>3 DEF ListsInvariant, ListTypes
<1>5. CASE flight' = flight \ {c} /\ UNCHANGED <<filter, page, asked>>
  <2>1. ListTypes' /\ PickedStands'
    BY <1>3, <1>4, <1>5 DEF ListsInvariant, ListTypes, PickedStands
  <2>2. \A b : CallHolds(b) => CallHolds(b)'
    BY <1>1, <1>5, <2>1, NewestStillHolds
  <2>3. CallHolds(d)'
    BY <1>4, <2>2
  <2> QED BY <1>1, <1>2, <1>3, <1>5, <2>1, <2>2, <2>3 DEF ListsInvariant
<1>6. CASE /\ (screen.empty = "landing" /\ filter = screen.lands) \/ screen.empty = "any"
           /\ filter' = "all" /\ page' = 1 /\ asked' = asked + 1
           /\ flight' = (flight \ {c}) \cup
                  {[id |-> asked + 1, what |-> [filter |-> "all", words |-> words], page |-> 1,
                    answer |-> NotYet]}
  <2>1. PickedStands'
    BY <1>1, <1>6, ScreensAre DEF ListsInvariant, ListTypes, PickedStands
  <2>2. asked \in Nat /\ asked' \in Nat \ {0}
    BY <1>1, <1>6 DEF ListTypes
  <2>3. ListTypes'
    BY <1>1, <1>3, <1>4, <1>6, <2>2 DEF ListTypes, Filters
  <2>4. \A b : CallHolds(b) => CallHolds(b)'
    BY <1>1, <1>6, <2>3, OlderCallsHold
  <2>5. CallHolds(d)'
    BY <1>4, <2>4
  <2>6. PICK e : e = [id |-> asked + 1, what |-> [filter |-> "all", words |-> words], page |-> 1,
                      answer |-> NotYet]
    OBVIOUS
  <2>7. e.id = asked' /\ e.id # 0 /\ e.what = Listed' /\ e.page = page' /\ page' = 1 /\ e.answer = NotYet
    BY <1>6, <2>2, <2>6 DEF Listed
  <2>8. e \in PageCalls
    BY <2>2, <2>6, <1>1 DEF PageCalls, ListTypes, Filters
  <2>9. NewestFits(e)'
    BY <2>7 DEF NewestFits, OnItsList
  <2>10. CallHolds(e)'
    BY <2>2, <2>7, <2>8, <2>9 DEF CallHolds
  <2>11. flight' = (flight \ {c}) \cup {e}
    BY <1>6, <2>6
  <2> QED BY <1>1, <1>2, <1>3, <2>1, <2>3, <2>4, <2>5, <2>7, <2>10, <2>11 DEF ListsInvariant
<1> QED BY <1>5, <1>6 DEF Settle

LEMMA ArrivingKeepsList ==
  ASSUME ListsInvariant, NEW c \in flight, Arrive(c)
  PROVE  ListsInvariant'
BY SettlingKeepsList DEF Arrive

LEMMA FailingKeepsList ==
  ASSUME ListsInvariant, NEW c \in flight, PageFails(c)
  PROVE  ListsInvariant'
BY SettlingKeepsList DEF PageFails, ListsInvariant, ListTypes

\* A row that is dealt with makes one more.
LEMMA DealingCounts ==
  ASSUME ListTypes, NEW r \in RowIds, rows[r].status = "todo",
         rows' = [rows EXCEPT ![r].status = "done"], screen' = screen
  PROVE  Onward /\ rows' \in [RowIds -> [status : {"todo", "done"}, hit : BOOLEAN]]
<1>1. rows \in [RowIds -> [status : {"todo", "done"}, hit : BOOLEAN]]
  BY DEF ListTypes
<1>2. rows[r] \in [status : {"todo", "done"}, hit : BOOLEAN]
  BY <1>1
<1>3. rows' \in [RowIds -> [status : {"todo", "done"}, hit : BOOLEAN]]
  BY <1>1, <1>2
<1>4. \A s \in RowIds : rows'[s].status = IF s = r THEN "done" ELSE rows[s].status
  BY <1>1, <1>2
<1>5. DealtWith' = DealtWith \cup {r} /\ r \notin DealtWith
  BY <1>4 DEF DealtWith
<1>6. IsFiniteSet(DealtWith) /\ Now \in Nat
  BY RowsAreFew
<1>7. Cardinality(DealtWith \cup {r}) = Cardinality(DealtWith) + 1
  BY <1>5, <1>6, FS_AddElement
<1>8. Now' = Now + 1
  BY <1>5, <1>7 DEF Now
<1> QED BY <1>3, <1>6, <1>8 DEF Onward

LEMMA DealingKeepsList ==
  ASSUME ListsInvariant, NEW r \in RowIds, DealWith(r)
  PROVE  ListsInvariant'
<1>1. ListTypes /\ shown' = shown /\ page' = page /\ screen' = screen /\ pressed' = pressed /\ pressed.moves <= Now
  BY DEF ListsInvariant, DealWith
<1>2. Onward /\ rows' \in [RowIds -> [status : {"todo", "done"}, hit : BOOLEAN]]
  BY <1>1, DealingCounts DEF DealWith
<1>3. asked' \in Nat \ {0}
  BY <1>1 DEF DealWith, ListTypes, Ask
<1>4. ListTypes'
  BY <1>1, <1>2, <1>3 DEF ListTypes, DealWith
<1>5. PickedStands'
  BY DEF ListsInvariant, DealWith, PickedStands
<1>6. PICK w : w = Listed
  OBVIOUS
<1>7. PICK p : p = page
  OBVIOUS
<1>8. Ask(w, p) /\ w = Listed' /\ p \in Nat \ {0}
  BY <1>1, <1>6, <1>7 DEF DealWith, Ask, Listed, ListTypes
<1>9. w \in [filter : Filters, words : BOOLEAN]
  BY <1>1, <1>6 DEF ListTypes, Listed
<1>10. Now' # pressed.moves
  <2>1. rows[r] \in [status : {"todo", "done"}, hit : BOOLEAN]
    BY <1>1 DEF ListTypes
  <2>2. rows' # rows
    <3>1. rows'[r].status = "done"
      BY <1>1, <2>1 DEF DealWith, ListTypes
    <3> QED BY <3>1 DEF DealWith
  <2>3. Now' > Now
    BY <1>2, <2>2 DEF Onward
  <2>4. (ListTypes => Now \in Nat)'
    BY RowsCount, PTL
  <2>5. Now \in Nat /\ pressed.moves \in Nat
    BY <1>1, RowsCount DEF ListTypes
  <2> QED BY <2>3, <2>4, <2>5, <1>1, <1>4
<1> QED BY <1>1, <1>2, <1>4, <1>5, <1>7, <1>8, <1>9, <1>10, AskingKeeps

LEMMA ElsewhereKeepsList ==
  ASSUME ListsInvariant, NEW r \in RowIds, Elsewhere(r)
  PROVE  ListsInvariant'
<1>1. Onward /\ rows' \in [RowIds -> [status : {"todo", "done"}, hit : BOOLEAN]]
  BY DealingCounts DEF Elsewhere, ListsInvariant
<1>2. ListTypes' /\ PickedStands'
  BY <1>1 DEF ListsInvariant, ListTypes, PickedStands, Elsewhere
<1> QED BY <1>1, <1>2, WaitingKeeps DEF Elsewhere

\* ListSaysWhatItShows: a quiet list with its newest answer on it shows the rows its
\* filter, words and page name, and is empty only of nothing, or for one of the three
\* reasons the property names; for every number of rows, of rows on a page and of calls.
THEOREM ListsSayWhatTheyShow == ListsInit /\ [][ListsNext]_listVars => []ListSaysWhatItShows
<1>1. ListsInvariant /\ UNCHANGED listVars => ListsInvariant'
  <2> SUFFICES ASSUME ListsInvariant, UNCHANGED listVars PROVE ListsInvariant'
    OBVIOUS
  <2>1. ListTypes' /\ PickedStands' /\ Onward
    BY DEF ListsInvariant, ListTypes, PickedStands, listVars, Onward
  <2> QED BY <2>1, WaitingKeeps DEF listVars
<1>2. ListsInvariant /\ [ListsNext]_listVars => ListsInvariant'
  BY <1>1, FilterKeepsList, RunKeepsList, ChipKeepsList, TypingKeepsList, TimerKeepsList,
     TurningKeepsList, ServingKeepsList, ArrivingKeepsList, FailingKeepsList, DealingKeepsList,
     ElsewhereKeepsList DEF ListsNext, Filters
<1>3. ListsInvariant => ListSaysWhatItShows
  <2> SUFFICES ASSUME ListsInvariant PROVE ListSaysWhatItShows
    OBVIOUS
  <2>1. PICK d : d = shown
    OBVIOUS
  <2>2. CallHolds(d) /\ d.answer # NotYet /\ PickedStands
    BY <2>1 DEF ListsInvariant, ListTypes
  <2>3. d.answer.moves \in Nat /\ pressed.moves \in Nat /\ d.answer.total \in 0..LastRow
    BY <2>2 DEF CallHolds, PageCalls, Answers, ListsInvariant, ListTypes
  <2>4. ListAnswersTheFilter
    BY <2>1, <2>2 DEF CallHolds, ListAnswersTheFilter, NewestShown, Quiet, PickedStands
  <2>5. ASSUME NewestShown, d.answer.items = {}, d.answer.total > 0
        PROVE  d.answer.moves > pressed.moves \/ ~pressed.own \/ screen.name \in PageKeepers
    <3>1. NewestFits(d)
      BY <2>1, <2>2, <2>5 DEF CallHolds, NewestShown
    <3> QED BY <2>2, <2>3, <2>5, <3>1 DEF NewestFits
  <2>6. EmptyMeansNothing
    BY <2>1, <2>5 DEF EmptyMeansNothing
  <2> QED BY <2>4, <2>6 DEF ListSaysWhatItShows
<1> QED BY <1>2, <1>3, ListsBegin, PTL
====
