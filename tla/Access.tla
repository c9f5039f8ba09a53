------------------------------- MODULE Access -------------------------------
(***************************************************************************)
(* Logins (api/src/routes/auth.ts, routes/admin.ts, plugins/auth.ts): a PIN *)
(* is compared, wrong ones are counted and lock the login for a while, a    *)
(* right one mints tokens; an admin adds people, switches them off and on,  *)
(* changes their role and their PIN.  No handler has a transaction: each    *)
(* statement stands alone, and what a handler read stays in its record      *)
(* while the others run.  A token keeps the claims it was minted with, and  *)
(* only the login and the refresh look at the user's row again.             *)
(***************************************************************************)
EXTENDS Integers, FiniteSets

CONSTANTS
    User, Name, Pin, Location,
    Worker,       \* handlers that can be under way at once
    FirstUsers,   \* rows of users at the start: user -> Row
    Bodies,       \* bodies of PATCH /admin/users/:id
    NewRows,      \* rows POST /admin/users may insert
    MaxAttempts,  \* MAX_PIN_ATTEMPTS
    MaxCalls      \* bound: logins and admin calls started, and tokens run out

Roles == {"admin", "staff"}
Keep == "keep"
Everywhere == "everywhere"
Row == [name : Name, role : Roles, home : Location \cup {Everywhere}, pin : Pin, active : BOOLEAN]

ASSUME AccessAssumption ==
    /\ DOMAIN FirstUsers \subseteq User
    /\ \A u \in DOMAIN FirstUsers : FirstUsers[u] \in Row
    /\ Bodies \subseteq [role : Roles \cup {Keep}, pin : Pin \cup {Keep}, active : {"on", "off", Keep}]
    /\ NewRows \subseteq {row \in Row : row.active}
    /\ IsFiniteSet(Worker)
    /\ MaxAttempts \in Nat \ {0}
    /\ MaxCalls \in Nat

\* scripts/wipe-and-admins.mjs makes the first admins, one per branch and name.
ASSUME FirstUsersAssumption ==
    /\ \E u \in DOMAIN FirstUsers : FirstUsers[u].role = "admin" /\ FirstUsers[u].active
    /\ \A u, v \in DOMAIN FirstUsers :
        FirstUsers[u].name = FirstUsers[v].name /\ FirstUsers[u].active /\ FirstUsers[v].active
        => u = v

VARIABLES
    users,    \* the table users: a function on the rows there are
    attempts, \* login_attempts: a function on the users that have a row
    tokens,   \* access tokens that have not run out
    minted,   \* tokens minted
    handler,  \* what each worker is doing
    started,  \* what MaxCalls bounds, counted
    guesses,  \* history: wrong PINs compared per login since it was last opened
    dropped,  \* history: handlers lost on the way
    told,     \* history: the PIN an admin was last told works, per user
    together, \* history: two admin calls were under way together
    backOn    \* history: users switched on again

accessVars == <<users, attempts, tokens, minted, handler, started,
                guesses, dropped, told, together, backOn>>

Idle == [op |-> "none", pc |-> "idle"]
Busy(w) == handler[w] # Idle
Locked(u) == u \in DOMAIN attempts /\ attempts[u].locked

WithRow(f, u, row) == [v \in DOMAIN f \cup {u} |-> IF v = u THEN row ELSE f[v]]
Without(f, u) == [v \in DOMAIN f \ {u} |-> f[v]]

\* The claims of a token are those of the row its handler read.
Token(u, row) == [no |-> minted + 1, user |-> u, role |-> row.role]

Mint(u, row) ==
    /\ tokens' = tokens \cup {Token(u, row)}
    /\ minted' = minted + 1

\* The admins are signed in already, on devices of their own.
AccessInit ==
    /\ users = FirstUsers
    /\ attempts = << >>
    /\ tokens = {[no |-> 0, user |-> u, role |-> FirstUsers[u].role] :
                   u \in {v \in DOMAIN FirstUsers :
                            FirstUsers[v].active /\ FirstUsers[v].role = "admin"}}
    /\ minted = 0
    /\ handler = [w \in Worker |-> Idle]
    /\ started = 0
    /\ guesses = [u \in User |-> 0]
    /\ dropped = 0
    /\ told = << >>
    /\ together = FALSE
    /\ backOn = {}

End(w) == handler' = [handler EXCEPT ![w] = Idle]
At(w, pc) == handler' = [handler EXCEPT ![w].pc = pc]

roster == <<users, told, together, backOn>>
lockout == <<attempts, guesses>>

-----------------------------------------------------------------------------
\* POST /auth/login and its read of the user.  A user who is switched off
\* (and an id without a row) goes through the same comparison and is not counted.
StartLogin(w, from, u, l, pin) ==
    /\ ~Busy(w) /\ started < MaxCalls
    /\ u \in DOMAIN users
    /\ started' = started + 1
    /\ handler' = [handler EXCEPT ![w] =
                     [op |-> "login", pc |-> "look", from |-> from, user |-> u, at |-> l, pin |-> pin,
                      known |-> users[u].active, row |-> users[u]]]
    /\ UNCHANGED <<roster, lockout, tokens, minted, dropped>>

\* Mutant: the lock is not looked at.
RefusedNever(u) == FALSE

\* Refused before the PIN is compared.
RefusedUnseen(u) == Locked(u)

\* The read of login_attempts, and the comparison with the hash read before it.
Look(w) ==
    LET h == handler[w]
        right == h.known /\ h.row.pin = h.pin
        here == h.known /\ h.row.home \in {h.at, Everywhere}
    IN
    /\ h.pc = "look"
    /\ IF RefusedUnseen(h.user) \/ ~h.known \/ (right /\ ~here)
       THEN End(w)
       ELSE At(w, IF right THEN "clear" ELSE "count")
    /\ guesses' = IF ~RefusedUnseen(h.user) /\ h.known /\ ~right
                  THEN [guesses EXCEPT ![h.user] = @ + 1] ELSE guesses
    /\ UNCHANGED <<roster, attempts, tokens, minted, started, dropped>>

\* recordFailure: the count is raised in one statement, which answers what it
\* left; the lock is a second one.
Count(w) ==
    LET h == handler[w]
        failed == IF h.user \in DOMAIN attempts THEN attempts[h.user].failed + 1 ELSE 1
        locked == Locked(h.user)
    IN
    /\ h.pc = "count"
    /\ attempts' = WithRow(attempts, h.user, [failed |-> failed, locked |-> locked])
    /\ IF failed >= MaxAttempts THEN At(w, "lock") ELSE End(w)
    /\ UNCHANGED <<roster, guesses, tokens, minted, started, dropped>>

\* The lock sets the count back; it finds no row when the login was cleared.
Lock(w) ==
    LET h == handler[w] IN
    /\ h.pc = "lock"
    /\ IF h.user \in DOMAIN attempts
       THEN attempts' = WithRow(attempts, h.user, [failed |-> 0, locked |-> TRUE])
       ELSE UNCHANGED attempts
    /\ End(w)
    /\ UNCHANGED <<roster, guesses, tokens, minted, started, dropped>>

\* PIN_LOCKOUT_MINUTES have passed.
LockEnds(u) ==
    /\ Locked(u)
    /\ attempts' = [attempts EXCEPT ![u].locked = FALSE]
    /\ guesses' = [guesses EXCEPT ![u] = 0]
    /\ UNCHANGED <<roster, tokens, minted, handler, started, dropped>>

Forgive(u) ==
    /\ attempts' = Without(attempts, u)
    /\ guesses' = [guesses EXCEPT ![u] = 0]

\* A right PIN takes the count away ...
Clear(w) ==
    /\ handler[w].pc = "clear"
    /\ Forgive(handler[w].user)
    /\ At(w, "issue")
    /\ UNCHANGED <<roster, tokens, minted, started, dropped>>

\* ... and buildSession signs the claims of the row read at the start.  What
\* becomes of the answer matters on the tablet only.
Issue(w) ==
    LET h == handler[w] IN
    /\ h.pc = "issue"
    /\ Mint(h.user, h.row)
    /\ handler' = [handler EXCEPT ![w] =
                     IF h.from = "tablet"
                     THEN [op |-> "login", pc |-> "answer", from |-> h.from, token |-> Token(h.user, h.row)]
                     ELSE Idle]
    /\ UNCHANGED <<roster, lockout, started, dropped>>

\* ACCESS_TOKEN_TTL has passed for a token.
Expire(t) ==
    /\ started < MaxCalls
    /\ started' = started + 1
    /\ tokens' = tokens \ {t}
    /\ UNCHANGED <<roster, lockout, minted, handler, dropped>>

-----------------------------------------------------------------------------
OtherAdmins(u) == {v \in DOMAIN users \ {u} : users[v].role = "admin" /\ users[v].active}

\* Mutant: a demotion does not count as losing the admin.
LosingByDemotion(row, body) == row.role = "admin" /\ body.active = "off"

LosingAdmin(row, body) ==
    row.role = "admin" /\ (body.role \notin {Keep, "admin"} \/ body.active = "off")

\* An admin call: whoever holds an admin's token makes it, whatever their row
\* says by now.
StartAdmin(w, h) ==
    /\ ~Busy(w) /\ started < MaxCalls
    /\ \E t \in tokens : t.role = "admin"
    /\ started' = started + 1
    /\ handler' = [handler EXCEPT ![w] = h]
    /\ together' = (together \/ \E v \in Worker : handler[v].op \in {"patch", "add"})
    /\ UNCHANGED <<users, told, backOn, lockout, tokens, minted, dropped>>

\* PATCH /admin/users/:id and its read of the target.
StartPatch(w, u, body) ==
    /\ u \in DOMAIN users
    /\ StartAdmin(w, [op |-> "patch", user |-> u, body |-> body, row |-> users[u],
                      pc |-> IF LosingAdmin(users[u], body) THEN "others" ELSE "write"])

\* The look for another admin.
LookForOthers(w) ==
    /\ handler[w].pc = "others"
    /\ IF OtherAdmins(handler[w].user) = {} THEN End(w) ELSE At(w, "write")
    /\ UNCHANGED <<roster, lockout, tokens, minted, started, dropped>>

Or(new, old) == IF new = Keep THEN old ELSE new

\* Mutant: the PIN read before is written back.
PatchedKeepsPin(row, body) ==
    [row EXCEPT !.role = Or(body.role, @), !.active = IF body.active = Keep THEN @ ELSE body.active = "on"]

\* The update writes every column, those the body leaves out as they were read.
Patched(row, body) ==
    [row EXCEPT !.role = Or(body.role, @), !.pin = Or(body.pin, @), !.active = IF body.active = Keep THEN @ ELSE body.active = "on"]

Clears(body) == body.pin # Keep \/ body.active = "on"

WritePatch(w) ==
    LET h == handler[w] IN
    /\ h.op = "patch" /\ h.pc = "write"
    /\ users' = [users EXCEPT ![h.user] = Patched(h.row, h.body)]
    /\ backOn' = IF ~users[h.user].active /\ users'[h.user].active
                 THEN backOn \cup {h.user} ELSE backOn
    /\ told' = IF h.body.pin # Keep THEN WithRow(told, h.user, h.body.pin) ELSE told
    /\ IF Clears(h.body) THEN At(w, "forgive") ELSE End(w)
    /\ UNCHANGED <<together, lockout, tokens, minted, started, dropped>>

\* A new PIN and switching on take the count and the lock away afterwards.
ClearAttempts(w) ==
    /\ handler[w].pc = "forgive"
    /\ Forgive(handler[w].user)
    /\ End(w)
    /\ UNCHANGED <<roster, tokens, minted, started, dropped>>

\* Mutant: the name is looked up among those switched off.
TakenByTheGone(name) == \E u \in DOMAIN users : users[u].name = name /\ ~users[u].active

Taken(name) == \E u \in DOMAIN users : users[u].name = name /\ users[u].active

\* POST /admin/users: the name is looked up, then the row inserted.
StartAdd(w, row) ==
    /\ ~Taken(row.name)
    /\ StartAdmin(w, [op |-> "add", pc |-> "write", row |-> row])

WriteAdd(w, u) ==
    LET h == handler[w] IN
    /\ h.op = "add" /\ h.pc = "write"
    /\ u \notin DOMAIN users
    /\ users' = WithRow(users, u, h.row)
    /\ told' = WithRow(told, u, h.row.pin)
    /\ End(w)
    /\ UNCHANGED <<together, backOn, lockout, tokens, minted, started, dropped>>

\* POST /admin/users/:id/unlock.
Unlock(u) ==
    /\ started < MaxCalls
    /\ \E t \in tokens : t.role = "admin"
    /\ started' = started + 1
    /\ Forgive(u)
    /\ UNCHANGED <<roster, tokens, minted, handler, dropped>>

\* The connection or the process is lost between two statements.
Drop(w) ==
    /\ Busy(w)
    /\ End(w)
    /\ dropped' = dropped + 1
    /\ UNCHANGED <<roster, lockout, tokens, minted, started>>

AccessNext ==
    \/ \E w \in Worker :
        \/ \E u \in User, l \in Location, pin \in Pin : StartLogin(w, "elsewhere", u, l, pin)
        \/ Look(w) \/ Count(w) \/ Lock(w) \/ Clear(w) \/ Issue(w)
        \/ \E u \in User, body \in Bodies : StartPatch(w, u, body)
        \/ LookForOthers(w) \/ WritePatch(w) \/ ClearAttempts(w)
        \/ \E row \in NewRows : StartAdd(w, row)
        \/ \E u \in User : WriteAdd(w, u)
        \/ Drop(w)
    \/ \E u \in User : LockEnds(u) \/ Unlock(u)
    \/ \E t \in tokens : Expire(t)

AccessSpec == AccessInit /\ [][AccessNext]_accessVars

-----------------------------------------------------------------------------
\* Five wrong PINs lock the login (FR-AUTH-03): of those compared side by side,
\* before the first of them is counted and the lock is set, each handler beyond
\* the first can add one, and each handler that was lost before it counted.
FewGuesses ==
    \A u \in User : guesses[u] < MaxAttempts + Cardinality(Worker) + dropped

\* "Do not let the last admin be demoted or switched off" (FR-ROL-10): as long as
\* no two admin calls overlap, someone is left who can add a login.
SomeAdmin ==
    together \/ \E u \in DOMAIN users : users[u].role = "admin" /\ users[u].active

\* "Two active Kamals and nobody can tell which tile is theirs": a name is one
\* person's, unless two admin calls overlapped, or one of the two was switched on
\* again, which looks at no name.
OneTilePerName ==
    \A u, v \in DOMAIN users :
        /\ u # v /\ users[u].name = users[v].name /\ users[u].active /\ users[v].active
        => together \/ {u, v} \cap backOn # {}

\* The PIN an admin was told is the one that opens the login, although every
\* change of a login writes its PIN: only an overlapping call can undo it.
ToldPinWorks == \A u \in DOMAIN told : together \/ users[u].pin = told[u]

\* A tile and its PIN are one person's.
OneLoginEach == OneTilePerName /\ ToldPinWorks
=============================================================================
