------------------------------ MODULE Drawers ------------------------------
(***************************************************************************)
(* The console's drawers that are filled in by an answer: releasing and     *)
(* handing back a request, asking management about a delivery, a supplier's *)
(* prices, one delivery.  A press names a thing and asks for it; nothing     *)
(* cancels the call when another is pressed, or the drawer is closed.       *)
(***************************************************************************)
EXTENDS Integers, FiniteSets

CONSTANTS Thing,        \* requests, deliveries or suppliers on the list
          MaxAnswers    \* bound: answers asked for

NoThing == "no thing"
ASSUME DrawersAssumption == NoThing \notin Thing /\ MaxAnswers \in Nat

VARIABLES drawer,    \* the drawer there is, one of the records below
          heading,   \* the thing it names
          contents,  \* the thing whose lines it shows
          figures,   \* the things its figures were typed or filled in for
          open, loading,
          coming,    \* calls on their way: id, thing, suggested
          sending,   \* what is being submitted, or NotSending
          answers,   \* answers asked for
          accepted,  \* what the server took
          hurried    \* history: pressed again before an answer was there

drawerVars == <<drawer, heading, contents, figures, open, loading, coming, sending,
                answers, accepted, hurried>>

NotSending == [to |-> NoThing, about |-> {}, heading |-> NoThing]

-----------------------------------------------------------------------------
(* The drawers.
   clears:  what a press empties before it asks.
   opens:   on the press, or on its answer.
   fills:   the answer fills the figures in: always, if it was suggested, never.
   to:      what is submitted goes to the thing named, or to the one shown.
   checked: the server refuses lines that are not that thing's.
   fails:   a failed call closes the drawer, or leaves it.
   shuts:   what closing it empties. *)

(* Mutant: the figures of the last one stay. *)
ReturnDrawerKeeps == [name |-> "return", clears |-> {"contents"}, opens |-> "press", fills |-> "never",
                      to |-> "heading", checked |-> FALSE, fails |-> "closes",
                      shuts |-> {"heading"}]
ReturnDrawer == [name |-> "return", clears |-> {"contents", "figures"}, opens |-> "press",
                 fills |-> "never", to |-> "heading", checked |-> FALSE, fails |-> "closes",
                 shuts |-> {"heading"}]
ReleaseDrawer == [name |-> "release", clears |-> {}, opens |-> "answer", fills |-> "always",
                  to |-> "contents", checked |-> TRUE, fails |-> "stays",
                  shuts |-> {"contents"}]
AskDrawer == [name |-> "ask", clears |-> {"contents", "figures"}, opens |-> "press",
              fills |-> "suggested", to |-> "heading", checked |-> TRUE, fails |-> "stays",
              shuts |-> {"heading", "contents", "figures"}]
PricesDrawer == [name |-> "prices", clears |-> {"figures"}, opens |-> "press", fills |-> "never",
                 to |-> "none", checked |-> FALSE, fails |-> "stays", shuts |-> {}]
DeliveryDrawer == [name |-> "delivery", clears |-> {"contents"}, opens |-> "press",
                   fills |-> "never", to |-> "none", checked |-> FALSE, fails |-> "closes",
                   shuts |-> {}]

DrawerKinds == {ReturnDrawer, ReleaseDrawer, AskDrawer, PricesDrawer, DeliveryDrawer}

DrawersInit ==
    /\ drawer \in DrawerKinds
    /\ heading = NoThing /\ contents = NoThing /\ figures = {}
    /\ open = FALSE /\ loading = FALSE
    /\ coming = {} /\ sending = NotSending
    /\ answers = 0 /\ accepted = {} /\ hurried = FALSE

Empty(parts) ==
    /\ contents' = IF "contents" \in parts THEN NoThing ELSE contents
    /\ figures' = IF "figures" \in parts THEN {} ELSE figures

AskFor(x, suggested) ==
    /\ answers < MaxAnswers /\ answers' = answers + 1
    /\ coming' = coming \cup {[id |-> answers + 1, thing |-> x, suggested |-> suggested]}
    /\ hurried' = (hurried \/ coming # {})

(* startReturn, startRelease, pickGrn and useSuggestion, openPrices, open. *)
Name(x, suggested) ==
    /\ heading' = x
    /\ Empty(drawer.clears)
    /\ open' = (open \/ drawer.opens = "press")
    /\ loading' = (drawer.opens = "press")
    /\ AskFor(x, suggested)

(* A press on the list, which an open drawer covers; the ask is opened empty and
   has its own choice of a delivery. *)
Press(x) ==
    /\ open = (drawer.fills = "suggested")
    /\ Name(x, FALSE)
    /\ UNCHANGED <<drawer, sending, accepted>>
UseSuggestion(x) ==
    /\ drawer.fills = "suggested"
    /\ Name(x, TRUE)
    /\ UNCHANGED <<drawer, sending, accepted>>
OpenRaise ==
    /\ drawer.fills = "suggested"
    /\ open' = TRUE /\ heading' = NoThing /\ Empty(drawer.clears)
    /\ UNCHANGED <<drawer, loading, coming, sending, answers, accepted, hurried>>

(* addPrice reads the list again. *)
AddPrice ==
    /\ drawer.name = "prices" /\ open
    /\ AskFor(heading, FALSE)
    /\ UNCHANGED <<drawer, heading, contents, figures, open, loading, sending, accepted>>

(* The answer, in whatever order answers come. *)
Filled(c) ==
    /\ coming' = coming \ {c}
    /\ contents' = c.thing
    /\ figures' = IF drawer.fills = "always" \/ c.suggested THEN {c.thing} ELSE figures
    /\ open' = (open \/ drawer.opens = "answer")
    /\ loading' = FALSE
    /\ UNCHANGED <<drawer, heading, sending, answers, accepted, hurried>>

(* A suggestion's figures are put in all the same. *)
NotFilled(c) ==
    /\ coming' = coming \ {c}
    /\ figures' = IF c.suggested THEN {c.thing} ELSE figures
    /\ open' = (open /\ drawer.fails = "stays")
    /\ heading' = IF drawer.name = "return" THEN NoThing ELSE heading
    /\ loading' = FALSE
    /\ UNCHANGED <<drawer, contents, sending, answers, accepted, hurried>>

Shut ==
    /\ open' = FALSE
    /\ heading' = IF "heading" \in drawer.shuts THEN NoThing ELSE heading
    /\ Empty(drawer.shuts)
CloseDrawer ==
    /\ open /\ Shut
    /\ UNCHANGED <<drawer, loading, coming, sending, answers, accepted, hurried>>

(* setReturnQty, setGiving, setEntry. *)
ShowsLines == open /\ heading # NoThing /\ contents # NoThing /\ ~loading
TypeFigures ==
    /\ ShowsLines /\ drawer.to # "none"
    /\ figures' = figures \cup {contents}
    /\ UNCHANGED <<drawer, heading, contents, open, loading, coming, sending, answers,
                   accepted, hurried>>

(* submitReturn, doRelease, raise: the button is under the lines, and works once
   there are figures. *)
SubmitDrawer ==
    /\ ShowsLines /\ figures # {} /\ sending = NotSending /\ drawer.to # "none"
    /\ sending' = [to |-> IF drawer.to = "heading" THEN heading ELSE contents,
                   about |-> figures, heading |-> heading]
    /\ UNCHANGED <<drawer, heading, contents, figures, open, loading, coming, answers,
                   accepted, hurried>>

Taken ==
    /\ sending # NotSending
    /\ drawer.checked => sending.about = {sending.to}
    /\ accepted' = accepted \cup {sending} /\ sending' = NotSending
    /\ Shut
    /\ UNCHANGED <<drawer, loading, coming, answers, hurried>>
(* Handing back reads its request again, wherever the drawer is by now. *)
Refused ==
    /\ sending # NotSending /\ sending' = NotSending
    /\ IF drawer.name = "return" THEN Name(sending.to, FALSE)
       ELSE UNCHANGED <<heading, contents, figures, open, loading, coming, answers, hurried>>
    /\ UNCHANGED <<drawer, accepted>>

DrawersNext ==
    \/ \E x \in Thing : Press(x)
    \/ \E x \in Thing : UseSuggestion(x)
    \/ OpenRaise
    \/ AddPrice
    \/ \E c \in coming : Filled(c)
    \/ \E c \in coming : NotFilled(c)
    \/ CloseDrawer
    \/ TypeFigures
    \/ SubmitDrawer
    \/ Taken
    \/ Refused

-----------------------------------------------------------------------------
(* Properties *)

(* The lines a drawer shows are those of the thing it names, and what the server
   takes from it goes to that thing with figures that were put in for it, through
   every failed call, closing and opening again (onRaiseVisible: "Keeping it
   would mean the next 'Use this' landed on top of somebody else's delivery with
   its quantities still in the boxes").  Naming a second thing before the first
   has answered breaks this, but only halfway: an ask still claims its own
   delivery's lines, because the server looks; a release may go to another
   request than the heading says; a return may take figures typed for another.
   And a supplier's prices are the last supplier's until their own have come. *)
SubmittedAsShown ==
    /\ ShowsLines => contents = heading \/ hurried \/ drawer.name = "prices"
    /\ \A s \in accepted :
        /\ s.to = s.heading \/ (hurried /\ drawer.name = "release")
        /\ s.about = {s.to} \/ (hurried /\ drawer.name = "return")
=============================================================================
