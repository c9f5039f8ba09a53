------------------------------ MODULE AskForm ------------------------------
(***************************************************************************)
(* A section asks the store (ask.component.ts in the drawer of the request  *)
(* list, over POST /requests/check and POST /requests).  The form lives as  *)
(* long as its drawer is open; a call it made goes on without it.  The      *)
(* buying it offers to those who may raise a purchase is left out: nobody   *)
(* who may ask for a section may buy (Worklists).                           *)
(***************************************************************************)
EXTENDS Integers, Sequences, FiniteSets

CONSTANTS AskItem,
          OnShelf,    \* what the store may hold when the server looks: item -> quantity
          MaxLines, MaxWanted,  \* bounds: lines of the form, quantity of a line
          Needs,      \* things the section finds it needs, in turn 1..Needs
          MaxAsks     \* bound: times Send is pressed

NoItem == "none"

ASSUME AskFormAssumption ==
    /\ NoItem \notin AskItem
    /\ \A held \in OnShelf : held \in [AskItem -> Nat]
    /\ {MaxLines, MaxWanted, MaxAsks} \subseteq Nat /\ Needs \in Nat \ {0}

VARIABLES asking,     \* the drawer is open
          askLines,   \* the lines of the form
          shortages,  \* what it says the store is short of
          talking,    \* calls on their way; form: the form that waits is on screen
          sentAsks,      \* the requests the server has
          sends,      \* calls sent
          need,       \* history: what the section needs now
          doubtful,   \* history: needs whose answer was lost or not waited for
          outOfDate   \* history: "shown" when lines went from under the shortages on screen,
                      \* "awaited" when lines changed while the store was being checked

askVars == <<asking, askLines, shortages, talking, sentAsks, sends, need, doubtful, outOfDate>>

EmptyLine == [item |-> NoItem, qty |-> 0]
waiting == \E c \in talking : c.form
FilledIn(l) == l.item # NoItem /\ l.qty > 0
linesAsked == {askLines[n] : n \in DOMAIN askLines}
canSubmit == \E l \in linesAsked : FilledIn(l)
(* As a set: nothing below tells a line from its double. *)
payloadLines == {l \in linesAsked : FilledIn(l)}

AskFormInit ==
    /\ asking = FALSE /\ askLines = <<EmptyLine>> /\ shortages = {}
    /\ talking = {} /\ sentAsks = {} /\ sends = 0
    /\ need = 1 /\ doubtful = {} /\ outOfDate = {}

SameRest == UNCHANGED <<sentAsks, sends, need>>

(* The drawer opens on a new form and closes on nothing: the form is gone, and
   whatever it is waiting for is answered to nobody. *)
OpenAsk ==
    /\ ~asking
    /\ asking' = TRUE /\ askLines' = <<EmptyLine>> /\ shortages' = {} /\ outOfDate' = {}
    /\ UNCHANGED <<talking, doubtful>> /\ SameRest
CloseAsk ==
    /\ asking
    /\ asking' = FALSE /\ askLines' = <<EmptyLine>> /\ shortages' = {} /\ outOfDate' = {}
    /\ talking' = {[c EXCEPT !.form = FALSE] : c \in talking}
    /\ doubtful' = doubtful \cup {c.need : c \in {t \in talking : t.op = "ask"}}
    /\ SameRest

(* Mutant: the shortages stay. *)
EditKeeps(new) ==
    /\ asking /\ new # askLines
    /\ askLines' = new /\ shortages' = shortages
    /\ outOfDate' = IF waiting THEN {"awaited"} ELSE {}
    /\ UNCHANGED <<asking, talking, doubtful>> /\ SameRest
(* setItem, setQty: what was short was said of other lines. *)
Edit(new) ==
    /\ asking /\ new # askLines
    /\ askLines' = new /\ shortages' = {}
    /\ outOfDate' = IF waiting THEN {"awaited"} ELSE {}
    /\ UNCHANGED <<asking, talking, doubtful>> /\ SameRest

addLine ==
    /\ asking /\ Len(askLines) < MaxLines
    /\ askLines' = Append(askLines, EmptyLine)
    /\ UNCHANGED <<asking, shortages, talking, doubtful, outOfDate>> /\ SameRest

(* The shortages stay on screen here. *)
removeLine(n) ==
    /\ asking /\ Len(askLines) > 1
    /\ askLines' = [m \in 1..Len(askLines) - 1 |-> askLines[IF m < n THEN m ELSE m + 1]]
    /\ outOfDate' = IF waiting THEN {"shown", "awaited"} ELSE {"shown"}
    /\ UNCHANGED <<asking, shortages, talking, doubtful>> /\ SameRest

Say(op) ==
    /\ talking' = talking \cup {[no |-> sends + 1, op |-> op, lines |-> payloadLines, need |-> need,
                                 form |-> TRUE]}
    /\ sends' = sends + 1 /\ sends < MaxAsks
    /\ outOfDate' = outOfDate \ {"awaited"}
    /\ UNCHANGED <<asking, askLines, shortages, sentAsks, need, doubtful>>

(* Mutant: the button can be pressed while it is sending. *)
submitAgain == asking /\ canSubmit /\ Say("ask")
check == asking /\ canSubmit /\ ~waiting /\ Say("check")
submitAsk == asking /\ canSubmit /\ ~waiting /\ Say("ask")

(* shortagesFor: each line on its own against the shelf; nothing below nothing.
   A line twice over is told twice, which a set does not show. *)
shortagesFor(lines, held) ==
    {l \in lines : held[l.item] < l.qty}

(* The store was looked at. *)
Checked(c, held) ==
    /\ c \in talking /\ c.op = "check"
    /\ talking' = talking \ {c}
    /\ IF c.form
       THEN /\ shortages' = shortagesFor(c.lines, held)
            /\ outOfDate' = IF "awaited" \in outOfDate THEN {"shown"} ELSE {}
       ELSE UNCHANGED <<shortages, outOfDate>>
    /\ UNCHANGED <<asking, askLines, doubtful>> /\ SameRest

(* POST /requests: the request and its lines in one transaction; the form is
   told, begins again and its drawer closes (resetForm, onAsked). *)
Sent(c) ==
    /\ c \in talking /\ c.op = "ask"
    /\ talking' = talking \ {c}
    /\ sentAsks' = sentAsks \cup {[no |-> c.no, need |-> c.need]}
    /\ IF c.form
       THEN /\ asking' = FALSE /\ askLines' = <<EmptyLine>> /\ shortages' = {}
            /\ outOfDate' = {}
            /\ need' = IF need < Needs THEN need + 1 ELSE need
       ELSE UNCHANGED <<asking, askLines, shortages, outOfDate, need>>
    /\ need = Needs => ~c.form \/ sentAsks = {}
    /\ UNCHANGED <<sends, doubtful>>

(* The call fails before the server has it, or the answer to it is lost. *)
Unanswered(c, done) ==
    /\ c \in talking
    /\ talking' = talking \ {c}
    /\ sentAsks' = IF done /\ c.op = "ask" THEN sentAsks \cup {[no |-> c.no, need |-> c.need]} ELSE sentAsks
    /\ doubtful' = IF done /\ c.op = "ask" THEN doubtful \cup {c.need} ELSE doubtful
    /\ UNCHANGED <<asking, askLines, shortages, sends, need, outOfDate>>

LineOf == [item : AskItem \cup {NoItem}, qty : 0..MaxWanted]
AskFormNext ==
    \/ OpenAsk
    \/ CloseAsk
    \/ \E n \in DOMAIN askLines, l \in LineOf : Edit([askLines EXCEPT ![n] = l])
    \/ addLine
    \/ \E n \in DOMAIN askLines : removeLine(n)
    \/ check
    \/ submitAsk
    \/ \E c \in talking, held \in OnShelf : Checked(c, held)
    \/ \E c \in talking : Sent(c)
    \/ \E c \in talking, done \in BOOLEAN : Unanswered(c, done)

-----------------------------------------------------------------------------
(* Properties *)

(* What the form says the store is short of is asked for on the form, in the
   same quantity (setItem, setQty throw away what was said of other lines),
   unless a line was removed since or a line was changed while the store was
   being checked, which the screen allows. *)
ShortOfWhatIsAsked ==
    "shown" \in outOfDate \/ shortages \subseteq linesAsked

(* The store gets one request for one need, unless an answer was lost or the
   drawer was closed on it (submit: "that is what had people pressing Send three
   times and the storekeeper receiving three copies of the same ask"). *)
AskedOnce ==
    \A a, b \in sentAsks : a.need = b.need /\ a # b => a.need \in doubtful

(* What is asked for is what the form shows, and is asked for once. *)
AskedAsShown == ShortOfWhatIsAsked /\ AskedOnce
=============================================================================
