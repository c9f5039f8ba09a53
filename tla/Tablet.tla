------------------------------- MODULE Tablet -------------------------------
(***************************************************************************)
(* One tablet of the console and the logins it talks to: the session it     *)
(* keeps (core/auth.store.ts), the PIN pad (pages/login.component.ts), and  *)
(* the interceptor that puts the session on every call and, when the server *)
(* answers 401, gets new tokens once for all the calls that wait for them   *)
(* (core/auth.interceptor.ts).  The session belongs to whoever stands at    *)
(* the tablet; a call and a refresh take as long as the network does.       *)
(***************************************************************************)
EXTENDS Access

CONSTANTS
    Call,       \* calls that can be under way at once
    Door        \* the outlet the tablet hangs in

ASSUME DoorAssumption == Door \in Location

VARIABLES
    session,  \* the store's state: the user and both tokens
    tiles,    \* the people the PIN pad offers
    calls,    \* calls to the API under way
    flight,   \* refreshInFlight
    acted,    \* history: {who pressed, as whom the server did it}
    crossed   \* history: what was under way when the session changed hands

tabletVars == <<session, tiles, calls, flight, acted, crossed>>
vars == <<accessVars, tabletVars>>

Nobody == "nobody"
Null == [no |-> -1]
Empty == [user |-> Nobody, access |-> Null, refresh |-> Nobody]
NoCall == [pc |-> "none"]
NoFlight == [pc |-> "none"]

\* authGuard asks for an access token, not for a user.
SignedIn == session.access # Null

Init ==
    /\ AccessInit
    /\ session = Empty
    /\ tiles = {}
    /\ calls = [c \in Call |-> NoCall]
    /\ flight = NoFlight
    /\ acted = {}
    /\ crossed = {}

SigningIn == \E w \in Worker : handler[w].op = "login" /\ handler[w].from = "tablet"

\* GET /auth/bootstrap: everyone who is switched on.
Bootstrap == {u \in DOMAIN users : users[u].active}

\* Of these the pad offers the staff of the outlet and those who work anywhere.
UsersHere == {u \in Bootstrap : users[u].home \in {Door, Everywhere}}

\* The login page loads its tiles once, when it opens.
OpenLogin ==
    /\ ~SignedIn /\ tiles = {}
    /\ tiles' = UsersHere
    /\ UNCHANGED <<accessVars, session, calls, flight, acted, crossed>>

\* The fourth digit sends the PIN: the pad is dead until the answer is there.
SubmitPin(w, u, pin) ==
    /\ ~SignedIn /\ ~SigningIn
    /\ u \in tiles
    /\ StartLogin(w, "tablet", u, Door, pin)
    /\ UNCHANGED tabletVars

ChangesHands(new) ==
    /\ session' = new
    /\ crossed' = crossed \cup {"refresh" : x \in {flight} \ {NoFlight}}
                          \cup {"call" : c \in {c \in Call : calls[c] # NoCall}}

\* Mutant: the answer of a login is stored as the answer of a refresh is.
SetSessionTokens(w) ==
    LET h == handler[w] IN
    /\ h.pc = "answer" /\ h.from = "tablet"
    /\ ChangesHands([session EXCEPT !.access = h.token, !.refresh = h.token.user])
    /\ tiles' = {}
    /\ End(w)
    /\ UNCHANGED <<roster, lockout, tokens, minted, started, dropped>>
    /\ UNCHANGED <<calls, flight, acted>>

\* The session of a login replaces the one that is there.
SetSession(w) ==
    LET h == handler[w] IN
    /\ h.pc = "answer" /\ h.from = "tablet"
    /\ ChangesHands([user |-> h.token.user, access |-> h.token, refresh |-> h.token.user])
    /\ tiles' = {}
    /\ End(w)
    /\ UNCHANGED <<roster, lockout, tokens, minted, started, dropped>>
    /\ UNCHANGED <<calls, flight, acted>>

\* The menu row that signs out, once confirmed.
SignOut ==
    /\ SignedIn
    /\ ChangesHands(Empty)
    /\ UNCHANGED <<accessVars, tiles, calls, flight, acted>>

Sent(by, again) == [pc |-> "sent", by |-> by, token |-> session.access, again |-> again]

\* Somebody presses a button that calls the API.
Press(c) ==
    /\ SignedIn /\ calls[c] = NoCall /\ started < MaxCalls
    /\ started' = started + 1
    /\ calls' = [calls EXCEPT ![c] = Sent(session.user, FALSE)]
    /\ UNCHANGED <<roster, lockout, tokens, minted, handler, dropped, session, tiles, flight, acted, crossed>>

\* authenticate: the token alone decides, with the claims it carries.
Serve(c) ==
    LET k == calls[c] IN
    /\ k.pc = "sent" /\ k.token \in tokens
    /\ acted' = acted \cup {[by |-> k.by, as |-> k.token.user]}
    /\ calls' = [calls EXCEPT ![c] = NoCall]
    /\ UNCHANGED <<accessVars, session, tiles, flight, crossed>>

\* A refresh is under way: the call waits for that one.
Joins == flight # NoFlight

\* 401 the first time: the call joins the refresh under way or starts one; a
\* session with nothing to refresh with is cleared.
Unauthorized(c) ==
    LET k == calls[c] IN
    /\ k.pc = "sent" /\ k.token \notin tokens /\ ~k.again
    /\ IF Joins \/ session.refresh # Nobody
       THEN /\ calls' = [calls EXCEPT ![c].pc = "waiting"]
            /\ flight' = IF Joins THEN flight
                         ELSE [pc |-> "sent", user |-> session.refresh]
            /\ UNCHANGED session
       ELSE /\ calls' = [calls EXCEPT ![c] = NoCall]
            /\ session' = Empty
            /\ UNCHANGED flight
    /\ UNCHANGED <<accessVars, tiles, acted, crossed>>

\* 401 again, or no answer: the screen is told, the session stays.
Fails(c) ==
    LET k == calls[c] IN
    /\ k.pc = "sent" /\ (k.again => k.token \notin tokens)
    /\ ~k.again => k.token \in tokens
    /\ calls' = [calls EXCEPT ![c] = NoCall]
    /\ UNCHANGED <<accessVars, session, tiles, flight, acted, crossed>>

\* POST /auth/refresh reads the user again, and signs what it reads.
ServeRefresh ==
    /\ flight.pc = "sent"
    /\ IF users[flight.user].active
       THEN /\ Mint(flight.user, users[flight.user])
            /\ flight' = [pc |-> "answered", token |-> Token(flight.user, users[flight.user])]
       ELSE /\ flight' = [pc |-> "failed"]
            /\ UNCHANGED <<tokens, minted>>
    /\ UNCHANGED <<roster, lockout, handler, started, dropped, session, tiles, calls, acted, crossed>>

\* The network fails, or the refresh token has run out too.
LoseRefresh ==
    /\ flight.pc = "sent"
    /\ flight' = [pc |-> "failed"]
    /\ UNCHANGED <<accessVars, session, tiles, calls, acted, crossed>>

Waiting == {c \in Call : calls[c].pc = "waiting"}

\* setTokens puts the new tokens into whatever session is there by now, and each
\* call that waited is sent again with them.
RefreshArrives ==
    LET k(c) == [calls[c] EXCEPT !.pc = "sent", !.token = flight.token, !.again = TRUE] IN
    /\ flight.pc = "answered"
    /\ session' = [session EXCEPT !.access = flight.token, !.refresh = flight.token.user]
    /\ calls' = [c \in Call |-> IF c \in Waiting THEN k(c) ELSE calls[c]]
    /\ flight' = NoFlight
    /\ UNCHANGED <<accessVars, tiles, acted, crossed>>

\* Mutant: only the call that started the refresh is answered.
AnsweredByFailure == IF Waiting = {} THEN {} ELSE {CHOOSE c \in Waiting : TRUE}

\* The calls that end with a refresh that failed.
EndedByFailure == Waiting

\* A refresh that failed ends the session, whoever is in it by now.
RefreshFails ==
    /\ flight.pc = "failed"
    /\ session' = Empty
    /\ calls' = [c \in Call |-> IF c \in EndedByFailure THEN NoCall ELSE calls[c]]
    /\ flight' = NoFlight
    /\ UNCHANGED <<accessVars, tiles, acted, crossed>>

\* The page is loaded again: the session is read back, everything else is gone.
Reload ==
    /\ flight # NoFlight \/ \E c \in Call : calls[c] # NoCall
    /\ calls' = [c \in Call |-> NoCall]
    /\ flight' = NoFlight
    /\ UNCHANGED <<accessVars, session, tiles, acted, crossed>>

Elsewhere ==
    /\ AccessNext
    /\ UNCHANGED tabletVars

Next ==
    \/ Elsewhere
    \/ \E w \in Worker, u \in User, pin \in Pin : SubmitPin(w, u, pin)
    \/ OpenLogin
    \/ \E w \in Worker : SetSession(w)
    \/ \E c \in Call : Press(c) \/ Serve(c) \/ Unauthorized(c) \/ Fails(c)
    \/ ServeRefresh \/ LoseRefresh \/ RefreshArrives \/ RefreshFails
    \/ SignOut \/ Reload

\* The network answers a call in the end, with what it asked for or with a failure.
Fairness ==
    /\ \A c \in Call : WF_vars(Serve(c) \/ Unauthorized(c) \/ Fails(c))
    /\ WF_vars(ServeRefresh \/ LoseRefresh)
    /\ WF_vars(RefreshArrives \/ RefreshFails)

Spec == Init /\ [][Next]_vars /\ Fairness

-----------------------------------------------------------------------------
\* The name on the screen and the tokens underneath are one person's, but for a
\* refresh that was under way when the tablet changed hands.
OwnToken == "refresh" \in crossed \/ ~SignedIn \/ session.user = session.access.user

\* What a person presses is done in that person's name, but for a call or a
\* refresh that was under way when the tablet changed hands: a call refused after
\* that is sent again in the name of whoever is there by then.
OwnDoing == crossed # {} \/ \A a \in acted : a.as = a.by

\* Nobody acts in another's name.
InOwnName == OwnToken /\ OwnDoing

\* Every button pressed is answered, whatever becomes of tokens and refreshes.
EveryPressEnds == \A c \in Call : calls[c] # NoCall ~> calls[c] = NoCall
=============================================================================
