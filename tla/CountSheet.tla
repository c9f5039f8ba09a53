----------------------------- MODULE CountSheet -----------------------------
(***************************************************************************)
(* The counting screen (counts.component.ts) over saveCountLines and        *)
(* closeCount (services/counts.ts): a sheet starts on the system's own      *)
(* figures, is typed over, is left and resumed, perhaps on two tablets, and *)
(* is finished by two calls, save and close.  Any answer may be lost.       *)
(***************************************************************************)
EXTENDS Integers, FiniteSets

CONSTANTS Sheet,        \* tablets that may have the count on screen
          Shelf,        \* lines of the count
          Figure,       \* what may be typed
          System,       \* qtyExpected, the same for every line
          MaxPresses    \* bound: calls sent

Blank == -1
Entry == Figure \cup {Blank}
Blanks == [l \in Shelf |-> Blank]

ASSUME CountSheetAssumption ==
    /\ Figure \subseteq Nat /\ System \in Figure
    /\ MaxPresses \in Nat

VARIABLES count,     \* the server's row: "none", "open" or "closed"
          kept,      \* qty_counted of its lines
          posted,    \* what closing it took as counted
          shownOn,   \* sheets that show the count
          entries,   \* the boxes of each sheet
          call,      \* the call each sheet waits for
          presses,   \* calls sent
          typed,     \* history: boxes typed in on this sheet since it was shown
          work,      \* history: the figure last typed, saved and not cleared
          wanted,    \* history: the boxes of the sheet that closed the count
          behind,    \* history: sheets shown before another one last saved
          overtaken  \* history: one of those saved or closed all the same

sheetVars == <<count, kept, posted, shownOn, entries, call, presses, typed, work,
               wanted, behind, overtaken>>

NoCall == [op |-> "none", next |-> "none", boxes |-> Blanks, sends |-> Blanks,
           typed |-> {}, answer |-> "none"]
busy(t) == call[t] # NoCall

(* resetSheet(seedFromSystem(lines)), and what was saved on top of it. *)
seedFromSystem == [l \in Shelf |-> System]
(* Mutant: the saved figures are forgotten. *)
ResumedAfresh(saved) == seedFromSystem
Resumed(saved) == [l \in Shelf |-> IF saved[l] # Blank THEN saved[l] ELSE System]

(* The lines that have an entry: a cleared box is sent as nothing, not null. *)
(* Mutant: only the boxes that differ from the system's figure. *)
ChangedOnly(boxes) == [l \in Shelf |-> IF boxes[l] = System THEN Blank ELSE boxes[l]]
Payload(boxes) == boxes

CountSheetInit ==
    /\ count = "none" /\ kept = Blanks /\ posted = Blanks
    /\ shownOn = {}
    /\ entries = [t \in Sheet |-> Blanks]
    /\ call = [t \in Sheet |-> NoCall]
    /\ presses = 0
    /\ typed = [t \in Sheet |-> {}]
    /\ work = Blanks /\ wanted = Blanks
    /\ behind = {} /\ overtaken = FALSE

SheetSends(t, op, next) ==
    /\ presses < MaxPresses /\ presses' = presses + 1
    /\ call' = [call EXCEPT ![t] = [op |-> op, next |-> next, boxes |-> entries[t],
                                    sends |-> Payload(entries[t]), typed |-> typed[t],
                                    answer |-> "none"]]

(* Start counting, or Resume from Recent counts. *)
Show(t) ==
    /\ t \notin shownOn /\ ~busy(t)
    /\ \/ count = "none" /\ SheetSends(t, "start", "show")
       \/ count = "open" /\ SheetSends(t, "get", "show")
    /\ UNCHANGED <<count, kept, posted, shownOn, entries, typed, work, wanted, behind,
                   overtaken>>

(* setEntry; the boxes are not disabled while a call is under way. *)
setEntry(t, l, v) ==
    /\ t \in shownOn /\ entries[t][l] # v
    /\ entries' = [entries EXCEPT ![t][l] = v]
    /\ typed' = [typed EXCEPT ![t] = IF v = Blank THEN @ \ {l} ELSE @ \cup {l}]
    /\ work' = IF v = Blank THEN [work EXCEPT ![l] = Blank] ELSE work
    /\ UNCHANGED <<count, kept, posted, shownOn, call, presses, wanted, behind, overtaken>>

AnyEntry(t) == entries[t] # Blanks

finish(t) ==
    /\ t \in shownOn /\ ~busy(t) /\ AnyEntry(t)
    /\ SheetSends(t, "save", "close")
    /\ UNCHANGED <<count, kept, posted, shownOn, entries, typed, work, wanted, behind,
                   overtaken>>

leaveCount(t) ==
    /\ t \in shownOn /\ ~busy(t)
    /\ IF AnyEntry(t) THEN SheetSends(t, "save", "leave") /\ UNCHANGED shownOn
       ELSE shownOn' = shownOn \ {t} /\ UNCHANGED <<call, presses>>
    /\ UNCHANGED <<count, kept, posted, entries, typed, work, wanted, behind,
                   overtaken>>

(* The server's side of the call. *)
SheetAnswer(t, a) == call' = [call EXCEPT ![t].answer = a]

ServeStart(t) ==
    /\ call[t].op = "start"
    /\ IF count = "none" THEN count' = "open" /\ SheetAnswer(t, "ok")
       ELSE count' = count /\ SheetAnswer(t, "refused")
    /\ UNCHANGED <<kept, posted, work, wanted, behind, overtaken>>
ServeGet(t) ==
    /\ call[t].op = "get"
    /\ call' = [call EXCEPT ![t].answer = "ok", ![t].sends = kept]
    /\ behind' = behind \ {t}
    /\ UNCHANGED <<count, kept, posted, work, wanted, overtaken>>
ServeSave(t) == LET sends == call[t].sends IN
    /\ call[t].op = "save"
    /\ IF count # "open" THEN SheetAnswer(t, "refused") /\ UNCHANGED <<kept, work, behind, overtaken>>
       ELSE /\ kept' = [l \in Shelf |-> IF sends[l] # Blank THEN sends[l] ELSE kept[l]]
            /\ work' = [l \in Shelf |-> IF l \in call[t].typed /\ entries[t][l] # Blank
                                        THEN sends[l] ELSE work[l]]
            /\ behind' = (behind \cup shownOn \cup {u \in Sheet : busy(u)}) \ {t}
            /\ overtaken' = (overtaken \/ t \in behind)
            /\ SheetAnswer(t, "ok")
    /\ UNCHANGED <<count, posted, wanted>>
ServeClose(t) ==
    /\ call[t].op = "close"
    /\ IF count # "open" THEN SheetAnswer(t, "refused") /\ UNCHANGED <<count, posted, wanted, overtaken>>
       ELSE /\ count' = "closed" /\ posted' = kept /\ wanted' = call[t].boxes
            /\ overtaken' = (overtaken \/ t \in behind)
            /\ SheetAnswer(t, "ok")
    /\ UNCHANGED <<kept, work, behind>>
ServeSheet(t) ==
    /\ busy(t) /\ call[t].answer = "none"
    /\ ServeStart(t) \/ ServeGet(t) \/ ServeSave(t) \/ ServeClose(t)
    /\ UNCHANGED <<shownOn, entries, presses, typed>>

(* What the screen does with the answer. *)
Shown(t, boxes) ==
    /\ shownOn' = shownOn \cup {t}
    /\ entries' = [entries EXCEPT ![t] = boxes]
    /\ typed' = [typed EXCEPT ![t] = {}]
Gone(t) == shownOn' = shownOn \ {t} /\ UNCHANGED <<entries, typed>>
SameSheet == UNCHANGED <<shownOn, entries, typed>>

Receive(t) == LET c == call[t] IN
    /\ c.answer = "ok"
    /\ call' = [call EXCEPT ![t] = IF c.next # "close" THEN NoCall
                                   ELSE [c EXCEPT !.op = "close", !.next = "result",
                                                  !.answer = "none"]]
    /\ CASE c.op = "start" -> Shown(t, seedFromSystem)
         [] c.op = "get" -> Shown(t, Resumed(c.sends))
         [] c.next \in {"leave", "result"} -> Gone(t)
         [] c.next = "close" -> SameSheet
    /\ UNCHANGED <<count, kept, posted, presses, work, wanted, behind,
                   overtaken>>

(* It was refused, or it is lost, before or after the server did it. *)
CallFails(t) ==
    /\ busy(t)
    /\ call' = [call EXCEPT ![t] = NoCall]
    /\ SameSheet
    /\ UNCHANGED <<count, kept, posted, presses, work, wanted, behind,
                   overtaken>>

CountSheetNext ==
    \/ \E t \in Sheet : Show(t)
    \/ \E t \in Sheet, l \in Shelf, v \in Entry : setEntry(t, l, v)
    \/ \E t \in Sheet : finish(t)
    \/ \E t \in Sheet : leaveCount(t)
    \/ \E t \in Sheet : ServeSheet(t)
    \/ \E t \in Sheet : Receive(t)
    \/ \E t \in Sheet : CallFails(t)

-----------------------------------------------------------------------------
(* Properties *)

(* A closed count took what stood in the boxes when Finish was pressed, through
   every lost answer and second press; only a box cleared after it had been
   saved still counts, and only a second sheet that was on screen before this one saved
   can change a figure on the way. *)
PostsWhatTheSheetShowed ==
    count = "closed" /\ ~overtaken =>
        \A l \in Shelf : posted[l] = wanted[l] \/ wanted[l] = Blank

(* What somebody typed and saved is what is posted, however often the count is
   left and resumed, unless they cleared or typed over it (leaveCount: "the
   count you come back to through Resume is the one you left").  A second sheet
   that was on screen before the save puts the figures it shows over it. *)
TypedWorkIsPosted ==
    count = "closed" /\ ~overtaken =>
        \A l \in Shelf : work[l] # Blank => posted[l] = work[l]

(* The count that is closed is the one on the sheet. *)
SheetIsPosted == PostsWhatTheSheetShowed /\ TypedWorkIsPosted

(* A line left blank is not changed by the count (finish: "Those are not changed
   by this count"; setEntry: "so a figure typed against the wrong item can be
   taken back rather than posted as a variance"). *)
BlankIsNotPosted ==
    count = "closed" /\ ~overtaken => \A l \in Shelf : wanted[l] = Blank => posted[l] = Blank
=============================================================================
