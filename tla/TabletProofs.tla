---------------------------- MODULE TabletProofs ----------------------------
(***************************************************************************)
(* Proofs about Access and Tablet, for any users, names, PINs, tablets'     *)
(* calls and handlers.  First the logins: a handler looks at the roster and *)
(* writes it later, in a statement of its own; that it still knows what it  *)
(* looked at is what every promise about them rests on.  Then the tablet:   *)
(* who is on the screen, whom the tokens underneath name and for whom the   *)
(* server acts are one person, as long as nothing was under way when the    *)
(* tablet changed hands; and what was shown of the logins stays true when a *)
(* tablet is one of those who use them.  Last the wrong PINs: where each of *)
(* them is, counted, on its way to the count or lost.                       *)
(***************************************************************************)
EXTENDS Tablet, FiniteSetTheorems, TLAPS

AccessToken == [no : Nat, user : User, role : Roles]
Body == [role : Roles \cup {Keep}, pin : Pin \cup {Keep}, active : {"on", "off", Keep}]

LoginCall == [op : {"login"}, pc : {"look", "clear", "count", "lock", "issue"},
              from : {"tablet", "elsewhere"}, user : User, at : Location, pin : Pin,
              known : BOOLEAN, row : Row]
Answer == [op : {"login"}, pc : {"answer"}, from : {"tablet", "elsewhere"}, token : AccessToken]
PatchCall == [op : {"patch"}, user : User, body : Body, row : Row,
              pc : {"others", "write", "forgive"}]
AddCall == [op : {"add"}, pc : {"write"}, row : Row]

RosterType ==
    /\ DOMAIN users \subseteq User
    /\ \A u \in DOMAIN users : users[u] \in Row
    /\ DOMAIN told \subseteq DOMAIN users
    /\ together \in BOOLEAN
HandlerType == handler \in [Worker -> {Idle} \cup LoginCall \cup Answer \cup PatchCall \cup AddCall]
TokenType ==
    /\ minted \in Nat
    /\ tokens \subseteq AccessToken
Types == RosterType /\ HandlerType /\ TokenType

Admin(w) == handler[w].op \in {"patch", "add"}

\* Two admin calls at once are remembered.
AdminsAlone == together \/ \A v, w \in Worker : Admin(v) /\ Admin(w) => v = w

\* A handler is about a user there is.
Exists(h) ==
    /\ h.op = "patch" \/ (h.op = "login" /\ h.pc # "answer") => h.user \in DOMAIN users
    /\ h.op = "login" /\ h.pc = "answer" => h.token.user \in DOMAIN users
PeopleExist == \A w \in Worker : Exists(handler[w])

\* Somebody else is an admin when the last but one loses the role.
Safe(h) == LosingAdmin(h.row, h.body) => OtherAdmins(h.user) # {}

\* An admin call that has the roster to itself still knows what it read.
AdminsKnow ==
    together \/ \A w \in Worker :
        /\ handler[w].op = "patch" /\ handler[w].pc # "forgive" =>
              handler[w].row = users[handler[w].user]
        /\ handler[w].op = "patch" /\ handler[w].pc = "write" => Safe(handler[w])
        /\ handler[w].op = "add" => ~Taken(handler[w].row.name)

Knowledge == AdminsAlone /\ PeopleExist /\ AdminsKnow

AccessInvariant == Types /\ Knowledge /\ SomeAdmin /\ OneLoginEach

-----------------------------------------------------------------------------
\* What the pieces of a handler's record are.
LEMMA HandlerPieces ==
    ASSUME HandlerType, NEW w \in Worker
    PROVE  /\ handler[w].pc \in {"look", "clear", "count", "lock", "issue"} =>
                 handler[w] \in LoginCall
           /\ handler[w].pc = "answer" => handler[w] \in Answer
           /\ handler[w].pc \in {"others", "forgive"} => handler[w] \in PatchCall
           /\ handler[w].op = "patch" => handler[w] \in PatchCall
           /\ handler[w].op = "add" => handler[w] \in AddCall
           /\ handler[w].op \in {"none", "login", "patch", "add"}
BY DEF HandlerType, LoginCall, Answer, PatchCall, AddCall, Idle

\* A handler ends.
LEMMA EndType ==
    ASSUME HandlerType, NEW w \in Worker, End(w)
    PROVE  HandlerType'
BY DEF HandlerType, End

\* The next place of a login.
LEMMA LoginGoesOn ==
    ASSUME HandlerType, NEW w \in Worker, handler[w] \in LoginCall,
           NEW pc \in {"clear", "count", "lock", "issue"}, At(w, pc)
    PROVE  /\ HandlerType'
           /\ handler'[w].op = "login" /\ handler'[w].pc # "answer"
           /\ handler'[w].user = handler[w].user
<1>1. [handler[w] EXCEPT !.pc = pc] \in LoginCall
  BY DEF LoginCall
<1>2. handler' = [handler EXCEPT ![w] = [handler[w] EXCEPT !.pc = pc]]
  BY DEF At, HandlerType
<1>3. /\ [handler[w] EXCEPT !.pc = pc].op = "login"
      /\ [handler[w] EXCEPT !.pc = pc].pc = pc
      /\ [handler[w] EXCEPT !.pc = pc].user = handler[w].user
  BY DEF LoginCall
<1> QED BY <1>1, <1>2, <1>3 DEF HandlerType

\* The next place of an admin's change of a login.
LEMMA PatchGoesOn ==
    ASSUME HandlerType, NEW w \in Worker, handler[w] \in PatchCall,
           NEW pc \in {"write", "forgive"}, At(w, pc)
    PROVE  /\ HandlerType'
           /\ handler' = [handler EXCEPT ![w] = [handler[w] EXCEPT !.pc = pc]]
           /\ [handler[w] EXCEPT !.pc = pc] \in PatchCall
<1>1. [handler[w] EXCEPT !.pc = pc] \in PatchCall
  BY DEF PatchCall
<1>2. handler' = [handler EXCEPT ![w] = [handler[w] EXCEPT !.pc = pc]]
  BY DEF At, HandlerType
<1> QED BY <1>1, <1>2 DEF HandlerType

\* A step that leaves the roster alone, and in which handlers end or are no
\* admin's, disturbs nothing that an admin call knows.
LEMMA RosterLeftAlone ==
    ASSUME AccessInvariant, UNCHANGED roster, HandlerType', TokenType',
           \A w \in Worker :
               \/ handler'[w] = handler[w]
               \/ handler'[w].op \in {"none", "login"} /\ Exists(handler'[w])
    PROVE  AccessInvariant'
<1>1. Types'
  BY DEF AccessInvariant, Types, RosterType, roster
<1>2. AdminsAlone'
  BY DEF AccessInvariant, Knowledge, AdminsAlone, Admin, roster
<1>3. PeopleExist'
  BY DEF AccessInvariant, Knowledge, PeopleExist, Exists, roster
<1>4. AdminsKnow'
  BY DEF AccessInvariant, Knowledge, AdminsKnow, Safe, Taken, OtherAdmins, roster
<1>5. SomeAdmin' /\ OneLoginEach'
  BY DEF AccessInvariant, SomeAdmin, OneLoginEach, OneTilePerName, ToldPinWorks, roster
<1> QED BY <1>1, <1>2, <1>3, <1>4, <1>5 DEF AccessInvariant, Knowledge

\* A handler that ends without touching the roster.
LEMMA EndsQuietly ==
    ASSUME AccessInvariant, NEW w \in Worker, End(w), UNCHANGED roster, TokenType'
    PROVE  AccessInvariant'
<1>1. HandlerType
  BY DEF AccessInvariant, Types
<1>2. HandlerType'
  BY <1>1, EndType
<1>3. \A v \in Worker : handler'[v] \in {handler[v], Idle}
  BY <1>1 DEF End, HandlerType
<1>4. Idle.op = "none" /\ Exists(Idle)
  BY DEF Idle, Exists
<1> QED BY <1>2, <1>3, <1>4, RosterLeftAlone

\* No handler moves, and the roster stays.
LEMMA NobodyMoves ==
    ASSUME AccessInvariant, UNCHANGED <<roster, handler>>, TokenType'
    PROVE  AccessInvariant'
<1>1. HandlerType'
  BY DEF AccessInvariant, Types, HandlerType
<1> QED BY <1>1, RosterLeftAlone

\* A login goes on to its next statement.
LEMMA LoginMoves ==
    ASSUME AccessInvariant, NEW w \in Worker, handler[w] \in LoginCall,
           NEW pc \in {"clear", "count", "lock", "issue"}, At(w, pc), UNCHANGED <<roster, tokens, minted>>
    PROVE  AccessInvariant'
<1>1. HandlerType
  BY DEF AccessInvariant, Types
<1>2. /\ HandlerType' /\ handler'[w].op = "login" /\ handler'[w].pc # "answer"
      /\ handler'[w].user = handler[w].user
  BY <1>1, LoginGoesOn
<1>3. \A v \in Worker : v # w => handler'[v] = handler[v]
  BY <1>1 DEF At, HandlerType
<1>4. handler[w].user \in DOMAIN users
  BY DEF AccessInvariant, Knowledge, PeopleExist, Exists, LoginCall
<1>5. Exists(handler'[w])
  BY <1>2, <1>4 DEF Exists
<1>6. TokenType'
  BY DEF AccessInvariant, Types, TokenType
<1> QED BY <1>2, <1>3, <1>5, <1>6, RosterLeftAlone

LEMMA TokenTypeStays ==
    ASSUME AccessInvariant, UNCHANGED <<tokens, minted>>
    PROVE  TokenType'
BY DEF AccessInvariant, Types, TokenType

-----------------------------------------------------------------------------
(* Logins. *)

LEMMA StartLoginKeeps ==
    ASSUME AccessInvariant, NEW w \in Worker, NEW from \in {"tablet", "elsewhere"}, NEW u \in User,
           NEW l \in Location, NEW pin \in Pin, StartLogin(w, from, u, l, pin)
    PROVE  AccessInvariant'
<1> DEFINE h == [op |-> "login", pc |-> "look", from |-> from, user |-> u, at |-> l, pin |-> pin,
                 known |-> users[u].active, row |-> users[u]]
<1>1. u \in DOMAIN users /\ users[u] \in Row /\ users[u].active \in BOOLEAN
  BY DEF AccessInvariant, Types, RosterType, StartLogin, Row
<1>2. h \in LoginCall /\ h.op = "login" /\ Exists(h)
  BY <1>1 DEF LoginCall, Exists
<1>3. handler' = [handler EXCEPT ![w] = h] /\ UNCHANGED <<roster, tokens, minted>>
  BY DEF StartLogin
<1> HIDE DEF h
<1>4. HandlerType'
  BY <1>2, <1>3 DEF AccessInvariant, Types, HandlerType
<1>5. \A v \in Worker : handler'[v] \in {handler[v], h}
  BY <1>3 DEF AccessInvariant, Types, HandlerType
<1>6. TokenType'
  BY <1>3, TokenTypeStays
<1> QED BY <1>2, <1>3, <1>4, <1>5, <1>6, RosterLeftAlone

LEMMA LookKeeps ==
    ASSUME AccessInvariant, NEW w \in Worker, Look(w)
    PROVE  AccessInvariant'
<1>1. handler[w] \in LoginCall /\ TokenType'
  BY HandlerPieces, TokenTypeStays DEF AccessInvariant, Types, Look
<1>2. CASE End(w)
  BY <1>1, <1>2, EndsQuietly DEF Look
<1>3. CASE At(w, "clear")
  BY <1>1, <1>3, LoginMoves DEF Look
<1>4. CASE At(w, "count")
  BY <1>1, <1>4, LoginMoves DEF Look
<1> QED BY <1>2, <1>3, <1>4 DEF Look

LEMMA CountKeeps ==
    ASSUME AccessInvariant, NEW w \in Worker, Count(w)
    PROVE  AccessInvariant'
<1>1. handler[w] \in LoginCall /\ TokenType'
  BY HandlerPieces, TokenTypeStays DEF AccessInvariant, Types, Count
<1>2. CASE End(w)
  BY <1>1, <1>2, EndsQuietly DEF Count
<1>3. CASE At(w, "lock")
  BY <1>1, <1>3, LoginMoves DEF Count
<1> QED BY <1>2, <1>3 DEF Count

LEMMA ClearKeeps ==
    ASSUME AccessInvariant, NEW w \in Worker, Clear(w)
    PROVE  AccessInvariant'
<1>1. handler[w] \in LoginCall
  BY HandlerPieces DEF AccessInvariant, Types, Clear
<1> QED BY <1>1, LoginMoves DEF Clear

\* The token of a login: what Mint leaves.
LEMMA MintType ==
    ASSUME TokenType, NEW u \in User, NEW row \in Row, Mint(u, row)
    PROVE  TokenType' /\ Token(u, row) \in AccessToken /\ Token(u, row).user = u
BY DEF TokenType, Mint, Token, AccessToken, Row

LEMMA IssueKeeps ==
    ASSUME AccessInvariant, NEW w \in Worker, Issue(w)
    PROVE  AccessInvariant'
<1> DEFINE h == handler[w]
           answer == [op |-> "login", pc |-> "answer", from |-> h.from, token |-> Token(h.user, h.row)]
<1>1. h \in LoginCall
  BY HandlerPieces DEF AccessInvariant, Types, Issue
<1>2. /\ h.user \in User /\ h.row \in Row /\ h.from \in {"tablet", "elsewhere"}
      /\ h.user \in DOMAIN users
  BY <1>1 DEF LoginCall, AccessInvariant, Knowledge, PeopleExist, Exists
<1>3. TokenType' /\ Token(h.user, h.row) \in AccessToken /\ Token(h.user, h.row).user = h.user
  BY <1>2, MintType DEF AccessInvariant, Types, Issue
<1>4. answer \in Answer /\ answer.op = "login" /\ Exists(answer)
  BY <1>2, <1>3 DEF Answer, Exists
<1>5. UNCHANGED roster /\ handler' = [handler EXCEPT ![w] = IF h.from = "tablet" THEN answer ELSE Idle]
  BY DEF Issue
<1> HIDE DEF answer
<1>6. HandlerType'
  BY <1>4, <1>5 DEF AccessInvariant, Types, HandlerType
<1>7. \A v \in Worker : handler'[v] \in {handler[v], answer, Idle}
  BY <1>5 DEF AccessInvariant, Types, HandlerType
<1>8. Idle.op = "none" /\ Exists(Idle)
  BY DEF Idle, Exists
<1> QED BY <1>3, <1>4, <1>5, <1>6, <1>7, <1>8, RosterLeftAlone

-----------------------------------------------------------------------------
(* An admin switches people off and on. *)

LEMMA AdminStarts ==
    ASSUME AccessInvariant, NEW w \in Worker, NEW h \in PatchCall \cup AddCall, StartAdmin(w, h),
           h.op = "patch" => /\ h.user \in DOMAIN users
                             /\ h.row = users[h.user]
                             /\ h.pc = "write" => Safe(h),
           h.op = "add" => ~Taken(h.row.name)
    PROVE  AccessInvariant'
<1>1. /\ handler' = [handler EXCEPT ![w] = h] /\ UNCHANGED <<users, told, backOn, tokens, minted>>
      /\ together' = (together \/ \E v \in Worker : Admin(v))
  BY DEF StartAdmin, Admin
<1>2. RosterType /\ HandlerType /\ Knowledge
  BY DEF AccessInvariant, Types
<1>3. RosterType'
  BY <1>1, <1>2 DEF RosterType
<1>4. HandlerType'
  BY <1>1, <1>2 DEF HandlerType
<1>5. TokenType'
  BY <1>1, TokenTypeStays
<1>6. \A v \in Worker : handler'[v] = IF v = w THEN h ELSE handler[v]
  BY <1>1, <1>2 DEF HandlerType
<1>7. together' \/ (~together /\ \A v \in Worker : ~Admin(v))
  BY <1>1, <1>2, Zenon DEF RosterType
<1>8. AdminsAlone'
  BY <1>6, <1>7 DEF AdminsAlone, Admin
<1>9. PeopleExist'
  BY <1>1, <1>2, <1>6 DEF Knowledge, PeopleExist, Exists, PatchCall, AddCall
<1>10. AdminsKnow'
  <2>1. CASE together'
    BY <2>1 DEF AdminsKnow
  <2>2. CASE ~together'
    <3>1. \A v \in Worker : v # w => ~(handler'[v].op \in {"patch", "add"})
      BY <1>6, <1>7, <2>2 DEF Admin
    <3>2. h.op = "patch" /\ h.pc = "write" => Safe(h)'
      BY <1>1 DEF Safe, OtherAdmins
    <3>3. h.op = "add" => ~Taken(h.row.name)'
      BY <1>1 DEF Taken
    <3> QED BY <1>1, <1>6, <3>1, <3>2, <3>3 DEF AdminsKnow, Safe
  <2> QED BY <2>1, <2>2
<1>11. SomeAdmin'
  BY <1>1 DEF AccessInvariant, SomeAdmin
<1>12. OneLoginEach'
  BY <1>1 DEF AccessInvariant, OneLoginEach, OneTilePerName, ToldPinWorks
<1> QED BY <1>3, <1>4, <1>5, <1>8, <1>9, <1>10, <1>11, <1>12 DEF AccessInvariant, Types, Knowledge

LEMMA StartPatchKeeps ==
    ASSUME AccessInvariant, NEW w \in Worker, NEW u \in User, NEW body \in Bodies, StartPatch(w, u, body)
    PROVE  AccessInvariant'
<1> DEFINE h == [op |-> "patch", user |-> u, body |-> body, row |-> users[u],
                 pc |-> IF LosingAdmin(users[u], body) THEN "others" ELSE "write"]
<1>1. u \in DOMAIN users /\ users[u] \in Row /\ body \in Body /\ StartAdmin(w, h)
  BY AccessAssumption DEF AccessInvariant, Types, RosterType, StartPatch, Body
<1>2. h \in PatchCall
  BY <1>1 DEF PatchCall
<1>3. h.op = "patch" /\ h.user = u /\ h.row = users[u] /\ (h.pc = "write" => Safe(h))
  BY DEF Safe
<1> HIDE DEF h
<1> QED BY <1>1, <1>2, <1>3, AdminStarts

LEMMA StartAddKeeps ==
    ASSUME AccessInvariant, NEW w \in Worker, NEW row \in NewRows, StartAdd(w, row)
    PROVE  AccessInvariant'
<1> DEFINE h == [op |-> "add", pc |-> "write", row |-> row]
<1>1. row \in Row /\ ~Taken(row.name) /\ StartAdmin(w, h)
  BY AccessAssumption DEF StartAdd
<1>2. h \in AddCall /\ h.op = "add" /\ h.row = row
  BY <1>1 DEF AddCall
<1> HIDE DEF h
<1> QED BY <1>1, <1>2, AdminStarts

LEMMA LookForOthersKeeps ==
    ASSUME AccessInvariant, NEW w \in Worker, LookForOthers(w)
    PROVE  AccessInvariant'
<1>1. HandlerType /\ handler[w] \in PatchCall /\ TokenType'
  BY HandlerPieces, TokenTypeStays DEF AccessInvariant, Types, LookForOthers
<1>2. CASE End(w)
  BY <1>1, <1>2, EndsQuietly DEF LookForOthers
<1>3. CASE OtherAdmins(handler[w].user) # {} /\ At(w, "write")
  <2>0. PICK h : h = [handler[w] EXCEPT !.pc = "write"]
    OBVIOUS
  <2>1. /\ HandlerType' /\ handler' = [handler EXCEPT ![w] = h] /\ h \in PatchCall
        /\ UNCHANGED <<users, told, together, backOn>>
    BY <1>1, <1>3, <2>0, PatchGoesOn DEF LookForOthers, roster
  <2>2. /\ h.op = "patch" /\ h.pc = "write" /\ h.user = handler[w].user
        /\ h.body = handler[w].body /\ h.row = handler[w].row
        /\ handler[w].op = "patch" /\ handler[w].pc = "others"
    BY <1>1, <2>0 DEF PatchCall, LookForOthers
  <2>3. \A v \in Worker : handler'[v] = IF v = w THEN h ELSE handler[v]
    BY <1>1, <2>1 DEF HandlerType
  <2>4. Types'
    BY <1>1, <2>1 DEF AccessInvariant, Types, RosterType
  <2>5. \A v \in Worker : Admin(v)' <=> Admin(v)
    BY <2>2, <2>3 DEF Admin
  <2>6. AdminsAlone'
    BY <2>1, <2>5 DEF AccessInvariant, Knowledge, AdminsAlone
  <2>7. PeopleExist'
    BY <2>1, <2>2, <2>3 DEF AccessInvariant, Knowledge, PeopleExist, Exists
  <2>8. Safe(h)'
    BY <1>3, <2>1, <2>2 DEF Safe, OtherAdmins
  <2>9. AdminsKnow'
    <3>1. \A v \in Worker : v # w => handler'[v] = handler[v]
      BY <2>3
    <3>2. handler'[w] = h
      BY <2>3
    <3>3. \A x : Taken(x)' <=> Taken(x)
      BY <2>1 DEF Taken
    <3>4. \A x : OtherAdmins(x)' = OtherAdmins(x)
      BY <2>1 DEF OtherAdmins
    <3> QED BY <2>1, <2>2, <2>8, <3>1, <3>2, <3>3, <3>4 DEF AccessInvariant, Knowledge, AdminsKnow, Safe
  <2>10. SomeAdmin' /\ OneLoginEach'
    BY <2>1 DEF AccessInvariant, SomeAdmin, OneLoginEach, OneTilePerName, ToldPinWorks
  <2> QED BY <2>4, <2>6, <2>7, <2>9, <2>10 DEF AccessInvariant, Knowledge
<1> QED BY <1>2, <1>3 DEF LookForOthers

\* The row that a patch writes keeps the name.
LEMMA PatchedRow ==
    ASSUME NEW row \in Row, NEW body \in Body
    PROVE  /\ Patched(row, body) \in Row
           /\ Patched(row, body).name = row.name
           /\ Patched(row, body).pin = (IF body.pin = Keep THEN row.pin ELSE body.pin)
           /\ row.role = "admin" /\ row.active /\ ~LosingAdmin(row, body) =>
                 Patched(row, body).role = "admin" /\ Patched(row, body).active
BY DEF Patched, Or, Row, Body, LosingAdmin, Roles, Keep

\* Once the roster is written, no other admin call is left that has it to itself.
LEMMA WriterIsAlone ==
    ASSUME AccessInvariant, NEW w \in Worker, handler[w].op \in {"patch", "add"},
           NEW h, handler' = [handler EXCEPT ![w] = h], UNCHANGED together,
           HandlerType', h = Idle \/ (/\ handler[w].op = "patch" /\ h.op = "patch" /\ h.pc = "forgive"
                         /\ h.user = handler[w].user),
           DOMAIN users \subseteq DOMAIN users'
    PROVE  Knowledge'
<1>1. \A v \in Worker : handler'[v] = IF v = w THEN h ELSE handler[v]
  BY DEF AccessInvariant, Types, HandlerType
<1>2. Idle.op = "none"
  BY DEF Idle
<1>3. together \/ \A v \in Worker : Admin(v) => v = w
  BY DEF AccessInvariant, Knowledge, AdminsAlone, Admin
<1>4. together' \/ \A v \in Worker : Admin(v)' => v = w
  BY <1>1, <1>3 DEF Admin
<1>5. AdminsAlone'
  BY <1>4 DEF AdminsAlone
<1>6. PeopleExist'
  BY <1>1, <1>2 DEF AccessInvariant, Knowledge, PeopleExist, Exists
<1>7. AdminsKnow'
  BY <1>1, <1>2, <1>4 DEF AdminsKnow, Admin
<1> QED BY <1>5, <1>6, <1>7 DEF Knowledge

LEMMA WritePatchKeeps ==
    ASSUME AccessInvariant, NEW w \in Worker, WritePatch(w)
    PROVE  AccessInvariant'
<1> DEFINE h == handler[w]
           row == Patched(h.row, h.body)
<1>1. h \in PatchCall /\ h.op = "patch" /\ h.pc = "write" /\ TokenType'
  BY HandlerPieces, TokenTypeStays DEF AccessInvariant, Types, WritePatch
<1>2. h.user \in DOMAIN users /\ h.user \in User /\ h.row \in Row /\ h.body \in Body
  BY <1>1 DEF PatchCall, AccessInvariant, Knowledge, PeopleExist, Exists
<1>3. /\ users' = [users EXCEPT ![h.user] = row]
      /\ together' = together
      /\ backOn' = IF ~users[h.user].active /\ users'[h.user].active
                   THEN backOn \cup {h.user} ELSE backOn
      /\ told' = IF h.body.pin # Keep THEN WithRow(told, h.user, h.body.pin) ELSE told
  BY DEF WritePatch
<1>4. together \/ (h.row = users[h.user] /\ Safe(h))
  BY <1>1 DEF AccessInvariant, Knowledge, AdminsKnow
<1>5. /\ row \in Row /\ row.name = h.row.name
      /\ row.pin = IF h.body.pin = Keep THEN h.row.pin ELSE h.body.pin
      /\ h.row.role = "admin" /\ h.row.active /\ ~LosingAdmin(h.row, h.body) =>
            row.role = "admin" /\ row.active
  BY <1>2, PatchedRow
<1> HIDE DEF row
<1>6. /\ DOMAIN users' = DOMAIN users
      /\ \A u \in DOMAIN users : users'[u] = IF u = h.user THEN row ELSE users[u]
  BY <1>3
<1>7. /\ DOMAIN told' \subseteq DOMAIN users
      /\ \A u \in DOMAIN told' :
            told'[u] = IF u = h.user /\ h.body.pin # Keep THEN h.body.pin ELSE told[u]
      /\ \A u \in DOMAIN told' : (u = h.user /\ h.body.pin # Keep) \/ u \in DOMAIN told
  BY <1>2, <1>3 DEF WithRow, AccessInvariant, Types, RosterType
<1>8. RosterType'
  BY <1>3, <1>5, <1>6, <1>7 DEF AccessInvariant, Types, RosterType
<1>9. HandlerType' /\ Knowledge'
  <2>1. HandlerType
    BY DEF AccessInvariant, Types
  <2>2. CASE End(w)
    <3>1. handler' = [handler EXCEPT ![w] = Idle] /\ HandlerType'
      BY <2>1, <2>2, EndType DEF End
    <3> QED BY <1>1, <1>3, <1>6, <3>1, WriterIsAlone
  <2>3. CASE At(w, "forgive")
    <3> DEFINE f == [handler[w] EXCEPT !.pc = "forgive"]
    <3>1. HandlerType' /\ handler' = [handler EXCEPT ![w] = f] /\ f \in PatchCall
      BY <1>1, <2>1, <2>3, PatchGoesOn
    <3>2. f.op = "patch" /\ f.pc = "forgive" /\ f.user = handler[w].user
      BY <1>1 DEF PatchCall
    <3> HIDE DEF f
    <3> QED BY <1>1, <1>3, <1>6, <3>1, <3>2, WriterIsAlone
  <2> QED BY <2>2, <2>3 DEF WritePatch
<1>10. SomeAdmin'
  <2>1. CASE together
    BY <1>3, <2>1 DEF SomeAdmin
  <2>2. CASE ~together /\ LosingAdmin(h.row, h.body)
    <3>1. PICK v \in DOMAIN users \ {h.user} : users[v].role = "admin" /\ users[v].active
      BY <1>4, <2>2 DEF Safe, OtherAdmins
    <3> QED BY <1>6, <3>1 DEF SomeAdmin
  <2>3. CASE ~together /\ ~LosingAdmin(h.row, h.body)
    <3>1. PICK v \in DOMAIN users : users[v].role = "admin" /\ users[v].active
      BY <2>3 DEF AccessInvariant, SomeAdmin
    <3> QED BY <1>4, <1>5, <1>6, <2>3, <3>1 DEF SomeAdmin
  <2> QED BY <2>1, <2>2, <2>3
<1>11. OneTilePerName'
  <2>1. CASE together
    BY <1>3, <2>1 DEF OneTilePerName
  <2>2. CASE ~together
    <3>1. backOn \subseteq backOn' /\ (users[h.user].active \/ ~row.active \/ h.user \in backOn')
      BY <1>2, <1>3, <1>6
    <3>2. \A u \in DOMAIN users : users'[u].name = users[u].name
      BY <1>4, <1>5, <1>6, <2>2
    <3>3. \A u \in DOMAIN users : users'[u].active => users[u].active \/ u \in backOn'
      BY <1>6, <3>1
    <3> QED BY <1>3, <1>6, <3>1, <3>2, <3>3 DEF AccessInvariant, OneLoginEach, OneTilePerName
  <2> QED BY <2>1, <2>2
<1>12. ToldPinWorks'
  <2>1. CASE together
    BY <1>3, <2>1 DEF ToldPinWorks
  <2>2. CASE ~together
    <3>1. \A u \in DOMAIN told : users[u].pin = told[u]
      BY <2>2 DEF AccessInvariant, OneLoginEach, ToldPinWorks
    <3> QED BY <1>4, <1>5, <1>6, <1>7, <2>2, <3>1 DEF ToldPinWorks
  <2> QED BY <2>1, <2>2
<1> QED BY <1>1, <1>8, <1>9, <1>10, <1>11, <1>12 DEF AccessInvariant, Types, OneLoginEach

LEMMA WriteAddKeeps ==
    ASSUME AccessInvariant, NEW w \in Worker, NEW u \in User, WriteAdd(w, u)
    PROVE  AccessInvariant'
<1> DEFINE h == handler[w]
<1>1. h \in AddCall /\ h.op = "add" /\ TokenType'
  BY HandlerPieces, TokenTypeStays DEF AccessInvariant, Types, WriteAdd
<1>2. h.row \in Row
  BY <1>1 DEF AddCall
<1>3. /\ u \notin DOMAIN users
      /\ users' = WithRow(users, u, h.row) /\ told' = WithRow(told, u, h.row.pin)
      /\ End(w) /\ UNCHANGED <<together, backOn>>
  BY DEF WriteAdd
<1>4. together \/ ~Taken(h.row.name)
  BY <1>1 DEF AccessInvariant, Knowledge, AdminsKnow
<1>5. /\ DOMAIN users' = DOMAIN users \cup {u}
      /\ users'[u] = h.row
      /\ \A v \in DOMAIN users : users'[v] = users[v]
  BY <1>3 DEF WithRow
<1>6. /\ DOMAIN told' = DOMAIN told \cup {u}
      /\ told'[u] = h.row.pin
      /\ \A v \in DOMAIN told : v \in DOMAIN users /\ told'[v] = told[v]
  BY <1>3 DEF WithRow, AccessInvariant, Types, RosterType
<1>7. RosterType'
  BY <1>2, <1>3, <1>5, <1>6 DEF AccessInvariant, Types, RosterType
<1>8. HandlerType'
  BY <1>3, EndType DEF AccessInvariant, Types
<1>9. Knowledge'
  BY <1>1, <1>3, <1>5, <1>8, WriterIsAlone DEF End
<1>10. SomeAdmin'
  BY <1>3, <1>5 DEF AccessInvariant, SomeAdmin
<1>11. OneTilePerName'
  BY <1>3, <1>4, <1>5 DEF AccessInvariant, OneLoginEach, OneTilePerName, Taken
<1>12. ToldPinWorks'
  BY <1>3, <1>5, <1>6 DEF AccessInvariant, OneLoginEach, ToldPinWorks
<1> QED BY <1>1, <1>7, <1>8, <1>9, <1>10, <1>11, <1>12 DEF AccessInvariant, Types, OneLoginEach

-----------------------------------------------------------------------------
\* Every step of the logins keeps the invariant.
LEMMA AccessStepKeeps ==
    ASSUME AccessInvariant, AccessNext
    PROVE  AccessInvariant'
<1>1. ASSUME NEW w \in Worker, NEW u \in User, NEW l \in Location, NEW pin \in Pin,
             StartLogin(w, "elsewhere", u, l, pin)
      PROVE  AccessInvariant'
  BY <1>1, StartLoginKeeps
<1>2. ASSUME NEW w \in Worker, Lock(w) \/ ClearAttempts(w) \/ Drop(w)
      PROVE  AccessInvariant'
  <2>1. End(w) /\ UNCHANGED <<roster, tokens, minted>>
    BY <1>2 DEF Lock, ClearAttempts, Drop
  <2> QED BY <2>1, EndsQuietly, TokenTypeStays
<1>3. ASSUME NEW u \in User, LockEnds(u) \/ Unlock(u)
      PROVE  AccessInvariant'
  <2>1. UNCHANGED <<roster, handler, tokens, minted>>
    BY <1>3 DEF LockEnds, Unlock
  <2> QED BY <2>1, NobodyMoves, TokenTypeStays
<1>4. ASSUME NEW t \in tokens, Expire(t)
      PROVE  AccessInvariant'
  <2>1. UNCHANGED <<roster, handler, minted>> /\ tokens' \subseteq tokens
    BY <1>4 DEF Expire
  <2>2. TokenType'
    BY <2>1 DEF AccessInvariant, Types, TokenType
  <2> QED BY <2>1, <2>2, NobodyMoves
<1> QED BY <1>1, <1>2, <1>3, <1>4, LookKeeps, CountKeeps, ClearKeeps, IssueKeeps, StartPatchKeeps,
          LookForOthersKeeps, WritePatchKeeps, StartAddKeeps, WriteAddKeeps DEF AccessNext

LEMMA AccessBegins == AccessInit => AccessInvariant
<1> SUFFICES ASSUME AccessInit PROVE AccessInvariant
  OBVIOUS
<1>1. \A w \in Worker : handler[w].op = "none" /\ handler[w] = Idle
  BY DEF AccessInit, Idle
<1>2. RosterType
  <2>1. DOMAIN told = {}
    BY DEF AccessInit
  <2> QED BY <2>1, AccessAssumption DEF AccessInit, RosterType
<1>3. HandlerType
  BY DEF AccessInit, HandlerType
<1>4. TokenType
  BY AccessAssumption DEF AccessInit, TokenType, AccessToken, Roles
<1>5. Knowledge
  BY <1>1 DEF Knowledge, AdminsAlone, Admin, PeopleExist, Exists, AdminsKnow
<1>6. SomeAdmin
  BY FirstUsersAssumption DEF AccessInit, SomeAdmin
<1>7. OneTilePerName
  BY FirstUsersAssumption DEF AccessInit, OneTilePerName
<1>8. ToldPinWorks
  BY DEF AccessInit, ToldPinWorks
<1> QED BY <1>2, <1>3, <1>4, <1>5, <1>6, <1>7, <1>8 DEF AccessInvariant, Types, OneLoginEach

----
(* The tablet. *)

Somebody == User \cup {Nobody}
Session == [user : Somebody, access : AccessToken \cup {Null}, refresh : Somebody]
SentCall == [pc : {"sent", "waiting"}, by : Somebody, token : AccessToken, again : BOOLEAN]
Asked == [pc : {"sent"}, user : User]
Renewed == [pc : {"answered"}, token : AccessToken]
Failed == [pc : {"failed"}]

TabletTypes ==
    /\ session \in Session
    /\ calls \in [Call -> {NoCall} \cup SentCall]
    /\ flight \in {NoFlight} \cup Asked \cup Renewed \cup Failed

\* The refresh is for a user there is.
RefreshesSomebody ==
    /\ session.refresh \in DOMAIN users \cup {Nobody}
    /\ flight.pc = "sent" => flight.user \in DOMAIN users
    /\ flight.pc = "answered" => flight.token.user \in DOMAIN users

\* Session and refresh are about one person.
SessionOwn ==
    \/ "refresh" \in crossed
    \/ /\ SignedIn => session.access.user = session.user /\ session.refresh = session.user
       /\ ~SignedIn => session.refresh = Nobody
       /\ flight # NoFlight => SignedIn
       /\ flight.pc = "sent" => flight.user = session.user
       /\ flight.pc = "answered" => flight.token.user = session.user

\* A call carries the token of whoever made it, who is still there or left without
\* anybody else having come.
CallsOwn ==
    \/ crossed # {}
    \/ \A c \in Call : calls[c] # NoCall =>
         /\ calls[c].by = calls[c].token.user
         /\ SignedIn => calls[c].by = session.user

TabletInvariant ==
    AccessInvariant /\ TabletTypes /\ RefreshesSomebody /\ SessionOwn /\ CallsOwn /\ OwnDoing

LEMMA TokenIsNotNull == \A t \in AccessToken : t # Null /\ t.user \in User
BY DEF AccessToken, Null

\* The pieces of calls, flights and sessions.
LEMMA TabletPieces ==
    ASSUME TabletTypes
    PROVE  /\ \A c \in Call :
                /\ calls[c].pc \in {"sent", "waiting"} => calls[c] \in SentCall
                /\ calls[c] # NoCall => calls[c] \in SentCall
           /\ flight.pc = "sent" => flight \in Asked /\ flight # NoFlight
           /\ flight.pc = "answered" => flight \in Renewed /\ flight # NoFlight
           /\ flight.pc = "failed" => flight # NoFlight
BY DEF TabletTypes, NoCall, NoFlight, SentCall, Asked, Renewed, Failed

LEMMA EmptyIsSession == Empty \in Session /\ Empty.access = Null /\ Empty.refresh = Nobody
BY DEF Empty, Session, Somebody

LEMMA HandsRemembered ==
    ASSUME NEW new, ChangesHands(new)
    PROVE  /\ session' = new /\ crossed \subseteq crossed'
           /\ flight # NoFlight => "refresh" \in crossed'
           /\ \A c \in Call : calls[c] # NoCall => crossed' # {}
BY DEF ChangesHands

\* A step of the logins, which the tablet has no part in.
LEMMA TabletStays ==
    ASSUME TabletInvariant, AccessInvariant', DOMAIN users \subseteq DOMAIN users',
           UNCHANGED <<session, calls, flight, acted, crossed>>
    PROVE  TabletInvariant'
<1>1. TabletTypes' /\ RefreshesSomebody'
  BY DEF TabletInvariant, TabletTypes, RefreshesSomebody
<1>2. SessionOwn' /\ CallsOwn' /\ OwnDoing'
  BY DEF TabletInvariant, SessionOwn, CallsOwn, OwnDoing, SignedIn
<1> QED BY <1>1, <1>2 DEF TabletInvariant

\* No row of users is ever deleted.
LEMMA UsersOnlyGrow ==
    ASSUME AccessNext
    PROVE  DOMAIN users \subseteq DOMAIN users'
<1>1. ASSUME NEW w \in Worker, WritePatch(w)
      PROVE  DOMAIN users \subseteq DOMAIN users'
  BY <1>1 DEF WritePatch
<1>2. ASSUME NEW w \in Worker, NEW u \in User, WriteAdd(w, u)
      PROVE  DOMAIN users \subseteq DOMAIN users'
  BY <1>2 DEF WriteAdd, WithRow
<1> QED BY <1>1, <1>2 DEF AccessNext, StartLogin, Look, Count, Lock, Clear, Issue, StartPatch, StartAdmin,
          LookForOthers, ClearAttempts, StartAdd, Drop, LockEnds, Unlock, Expire, roster

\* The tablet acts without the logins.
LEMMA LoginsStay ==
    ASSUME AccessInvariant, UNCHANGED <<roster, handler, tokens, minted>>
    PROVE  AccessInvariant'
BY NobodyMoves, TokenTypeStays

LEMMA SetSessionKeeps ==
    ASSUME TabletInvariant, NEW w \in Worker, SetSession(w)
    PROVE  TabletInvariant'
<1> DEFINE h == handler[w]
           new == [user |-> h.token.user, access |-> h.token, refresh |-> h.token.user]
<1>1. ChangesHands(new) /\ End(w) /\ UNCHANGED <<roster, tokens, minted, calls, flight, acted>>
      /\ h.pc = "answer" /\ UNCHANGED users
  BY DEF SetSession, roster
<1>2. h \in Answer
  BY <1>1, HandlerPieces DEF TabletInvariant, AccessInvariant, Types
<1>3. h.token \in AccessToken /\ h.token # Null /\ h.token.user \in User /\ h.token.user \in DOMAIN users
  BY <1>1, <1>2, TokenIsNotNull DEF Answer, TabletInvariant, AccessInvariant, Knowledge, PeopleExist, Exists
<1>4. new \in Session /\ new.access = h.token /\ new.user = h.token.user /\ new.refresh = h.token.user
  BY <1>3 DEF Session, Somebody
<1> HIDE DEF new
<1>5. /\ session' = new /\ crossed \subseteq crossed'
      /\ flight # NoFlight => "refresh" \in crossed'
      /\ \A c \in Call : calls[c] # NoCall => crossed' # {}
  BY <1>1, HandsRemembered
<1>6. AccessInvariant'
  BY <1>1, EndsQuietly, TokenTypeStays DEF TabletInvariant
<1>7. TabletTypes' /\ RefreshesSomebody'
  BY <1>1, <1>3, <1>4, <1>5 DEF TabletInvariant, TabletTypes, RefreshesSomebody
<1>8. SessionOwn'
  BY <1>1, <1>3, <1>4, <1>5, TabletPieces DEF TabletInvariant, SessionOwn, SignedIn, NoFlight
<1>9. CallsOwn' /\ OwnDoing'
  BY <1>1, <1>5 DEF TabletInvariant, CallsOwn, OwnDoing
<1> QED BY <1>6, <1>7, <1>8, <1>9 DEF TabletInvariant

LEMMA SignOutKeeps ==
    ASSUME TabletInvariant, SignOut
    PROVE  TabletInvariant'
<1>1. ChangesHands(Empty) /\ UNCHANGED <<accessVars, calls, flight, acted>>
  BY DEF SignOut
<1>2. /\ session' = Empty /\ crossed \subseteq crossed'
      /\ flight # NoFlight => "refresh" \in crossed'
      /\ \A c \in Call : calls[c] # NoCall => crossed' # {}
  BY <1>1, HandsRemembered
<1>3. AccessInvariant'
  BY <1>1, LoginsStay DEF TabletInvariant, accessVars, roster
<1>4. TabletTypes' /\ RefreshesSomebody'
  BY <1>1, <1>2, EmptyIsSession DEF TabletInvariant, TabletTypes, RefreshesSomebody, accessVars
<1>5. SessionOwn'
  BY <1>1, <1>2, EmptyIsSession, TabletPieces DEF TabletInvariant, SessionOwn, SignedIn, NoFlight
<1>6. CallsOwn' /\ OwnDoing'
  BY <1>1, <1>2 DEF TabletInvariant, CallsOwn, OwnDoing
<1> QED BY <1>3, <1>4, <1>5, <1>6 DEF TabletInvariant

LEMMA PressKeeps ==
    ASSUME TabletInvariant, NEW c \in Call, Press(c)
    PROVE  TabletInvariant'
<1>1. PICK k : k = Sent(session.user, FALSE)
  OBVIOUS
<1>2. /\ SignedIn /\ calls' = [calls EXCEPT ![c] = k]
      /\ UNCHANGED <<roster, tokens, minted, handler, session, flight, acted, crossed>>
  BY <1>1 DEF Press
<1>3. session.access \in AccessToken /\ session.user \in Somebody
  BY <1>2 DEF TabletInvariant, TabletTypes, Session, SignedIn
<1>4. k \in SentCall /\ k.by = session.user /\ k.token = session.access
  BY <1>1, <1>3 DEF Sent, SentCall
<1>5. AccessInvariant' /\ UNCHANGED users
  BY <1>2, LoginsStay DEF TabletInvariant, roster
<1>6. TabletTypes' /\ RefreshesSomebody' /\ SessionOwn'
  BY <1>2, <1>4, <1>5 DEF TabletInvariant, TabletTypes, RefreshesSomebody, SessionOwn, SignedIn
<1>7. \A d \in Call : calls'[d] = IF d = c THEN k ELSE calls[d]
  BY <1>2 DEF TabletInvariant, TabletTypes
<1>8. CallsOwn' /\ OwnDoing'
  BY <1>2, <1>4, <1>7 DEF TabletInvariant, CallsOwn, OwnDoing, SessionOwn, SignedIn
<1> QED BY <1>5, <1>6, <1>8 DEF TabletInvariant

LEMMA ServeKeeps ==
    ASSUME TabletInvariant, NEW c \in Call, Serve(c)
    PROVE  TabletInvariant'
<1>1. /\ calls[c] \in SentCall /\ calls[c] # NoCall
      /\ acted' = acted \cup {[by |-> calls[c].by, as |-> calls[c].token.user]}
      /\ calls' = [calls EXCEPT ![c] = NoCall]
      /\ UNCHANGED <<accessVars, session, flight, crossed>>
  BY TabletPieces DEF Serve, TabletInvariant, NoCall
<1>2. AccessInvariant' /\ UNCHANGED users
  BY <1>1, LoginsStay DEF TabletInvariant, accessVars, roster
<1>3. TabletTypes' /\ RefreshesSomebody' /\ SessionOwn'
  BY <1>1, <1>2 DEF TabletInvariant, TabletTypes, RefreshesSomebody, SessionOwn, SignedIn
<1>4. \A d \in Call : calls'[d] \in {calls[d], NoCall}
  BY <1>1 DEF TabletInvariant, TabletTypes
<1>5. CallsOwn'
  BY <1>1, <1>4 DEF TabletInvariant, CallsOwn, SignedIn
<1>6. OwnDoing'
  BY <1>1 DEF TabletInvariant, CallsOwn, OwnDoing
<1> QED BY <1>2, <1>3, <1>5, <1>6 DEF TabletInvariant

LEMMA FailsKeeps ==
    ASSUME TabletInvariant, NEW c \in Call, Fails(c)
    PROVE  TabletInvariant'
<1>1. /\ calls' = [calls EXCEPT ![c] = NoCall]
      /\ UNCHANGED <<accessVars, session, flight, acted, crossed>>
  BY DEF Fails
<1>2. AccessInvariant' /\ UNCHANGED users
  BY <1>1, LoginsStay DEF TabletInvariant, accessVars, roster
<1>3. TabletTypes' /\ RefreshesSomebody' /\ SessionOwn' /\ OwnDoing'
  BY <1>1, <1>2 DEF TabletInvariant, TabletTypes, RefreshesSomebody, SessionOwn, SignedIn, OwnDoing
<1>4. \A d \in Call : calls'[d] \in {calls[d], NoCall}
  BY <1>1 DEF TabletInvariant, TabletTypes
<1>5. CallsOwn'
  BY <1>1, <1>4 DEF TabletInvariant, CallsOwn, SignedIn
<1> QED BY <1>2, <1>3, <1>5 DEF TabletInvariant

LEMMA UnauthorizedKeeps ==
    ASSUME TabletInvariant, NEW c \in Call, Unauthorized(c)
    PROVE  TabletInvariant'
<1>0. calls[c].pc = "sent" /\ UNCHANGED <<accessVars, acted, crossed>>
  BY DEF Unauthorized
<1>1. /\ calls[c] \in SentCall /\ calls[c] # NoCall /\ UNCHANGED <<accessVars, acted, crossed>>
  BY <1>0, TabletPieces DEF TabletInvariant, NoCall
<1>2. AccessInvariant' /\ UNCHANGED users
  BY <1>1, LoginsStay DEF TabletInvariant, accessVars, roster
<1>3. CASE Joins \/ session.refresh # Nobody
  <2>1. PICK k : k = [calls[c] EXCEPT !.pc = "waiting"]
    OBVIOUS
  <2>2. /\ k \in SentCall /\ k.by = calls[c].by /\ k.token = calls[c].token
    BY <1>1, <2>1 DEF SentCall
  <2>3. /\ calls' = [calls EXCEPT ![c] = k] /\ UNCHANGED session
        /\ flight' = IF Joins THEN flight ELSE [pc |-> "sent", user |-> session.refresh]
    BY <1>3, <2>1 DEF Unauthorized, TabletInvariant, TabletTypes
  <2>4. \A d \in Call : calls'[d] = IF d = c THEN k ELSE calls[d]
    BY <2>3 DEF TabletInvariant, TabletTypes
  <2>5. CallsOwn' /\ OwnDoing'
    BY <1>1, <2>2, <2>3, <2>4 DEF TabletInvariant, CallsOwn, OwnDoing, SignedIn
  <2>6. calls' \in [Call -> {NoCall} \cup SentCall]
    BY <2>2, <2>3 DEF TabletInvariant, TabletTypes
  <2>7. CASE Joins
    BY <1>1, <1>2, <2>3, <2>5, <2>6, <2>7
       DEF TabletInvariant, TabletTypes, RefreshesSomebody, SessionOwn, SignedIn
  <2>8. CASE ~Joins
    <3>1. PICK f : f = [pc |-> "sent", user |-> session.refresh]
      OBVIOUS
    <3>2. flight' = f /\ session.refresh # Nobody /\ f.pc = "sent" /\ f.user = session.refresh
      BY <1>3, <2>3, <2>8, <3>1
    <3>3. session.refresh \in User /\ session.refresh \in DOMAIN users
      BY <3>2 DEF TabletInvariant, TabletTypes, RefreshesSomebody, Session, Somebody
    <3>4. f \in Asked
      BY <3>1, <3>3 DEF Asked
    <3>5. TabletTypes' /\ RefreshesSomebody'
      BY <1>2, <2>3, <2>6, <3>2, <3>3, <3>4 DEF TabletInvariant, TabletTypes, RefreshesSomebody
    <3>6. SessionOwn'
      BY <1>1, <2>3, <3>2 DEF TabletInvariant, SessionOwn, SignedIn
    <3> QED BY <1>2, <2>5, <3>5, <3>6 DEF TabletInvariant
  <2> QED BY <2>7, <2>8
<1>4. CASE ~(Joins \/ session.refresh # Nobody)
  <2>1. /\ calls' = [calls EXCEPT ![c] = NoCall] /\ session' = Empty /\ flight' = flight
        /\ flight = NoFlight
    BY <1>4 DEF Unauthorized, Joins
  <2>2. \A d \in Call : calls'[d] \in {calls[d], NoCall}
    BY <2>1 DEF TabletInvariant, TabletTypes
  <2>3. TabletTypes' /\ RefreshesSomebody'
    BY <1>2, <2>1, EmptyIsSession DEF TabletInvariant, TabletTypes, RefreshesSomebody
  <2>4. SessionOwn'
    BY <2>1, EmptyIsSession DEF SessionOwn, SignedIn, NoFlight
  <2>5. CallsOwn' /\ OwnDoing'
    BY <1>1, <2>1, <2>2, EmptyIsSession DEF TabletInvariant, CallsOwn, OwnDoing, SignedIn
  <2> QED BY <1>2, <2>3, <2>4, <2>5 DEF TabletInvariant
<1> QED BY <1>3, <1>4

LEMMA ServeRefreshKeeps ==
    ASSUME TabletInvariant, ServeRefresh
    PROVE  TabletInvariant'
<1>1. /\ flight.pc = "sent" /\ flight \in Asked /\ flight # NoFlight
      /\ UNCHANGED <<roster, handler, session, calls, acted, crossed, users>>
  BY TabletPieces DEF ServeRefresh, TabletInvariant, roster
<1>2. flight.user \in User /\ flight.user \in DOMAIN users /\ users[flight.user] \in Row
  BY <1>1 DEF TabletInvariant, RefreshesSomebody, AccessInvariant, Types, RosterType
<1>3. CallsOwn' /\ OwnDoing'
  BY <1>1 DEF TabletInvariant, CallsOwn, OwnDoing, SignedIn
<1>4. CASE users[flight.user].active
  <2>1. PICK t : t = Token(flight.user, users[flight.user])
    OBVIOUS
  <2>2. PICK f : f = [pc |-> "answered", token |-> t]
    OBVIOUS
  <2>3. Mint(flight.user, users[flight.user]) /\ flight' = f
    BY <1>4, <2>1, <2>2 DEF ServeRefresh
  <2>4. TokenType' /\ t \in AccessToken /\ t.user = flight.user
    BY <1>2, <2>1, <2>3, MintType DEF TabletInvariant, AccessInvariant, Types
  <2>5. AccessInvariant'
    BY <1>1, <2>4, NobodyMoves DEF TabletInvariant
  <2>6. f \in Renewed /\ f.pc = "answered" /\ f.token = t
    BY <2>2, <2>4 DEF Renewed
  <2>7. TabletTypes' /\ RefreshesSomebody'
    BY <1>1, <1>2, <2>3, <2>4, <2>6 DEF TabletInvariant, TabletTypes, RefreshesSomebody
  <2>8. SessionOwn'
    BY <1>1, <2>3, <2>4, <2>6 DEF TabletInvariant, SessionOwn, SignedIn
  <2> QED BY <1>3, <2>5, <2>7, <2>8 DEF TabletInvariant
<1>5. CASE ~users[flight.user].active
  <2>1. PICK f : f = [pc |-> "failed"]
    OBVIOUS
  <2>2. f \in Failed /\ f.pc = "failed" /\ flight' = f /\ UNCHANGED <<tokens, minted>>
    BY <1>5, <2>1 DEF ServeRefresh, Failed
  <2>3. AccessInvariant'
    BY <1>1, <2>2, LoginsStay DEF TabletInvariant
  <2>4. TabletTypes' /\ RefreshesSomebody'
    BY <1>1, <2>2 DEF TabletInvariant, TabletTypes, RefreshesSomebody
  <2>5. SessionOwn'
    BY <1>1, <2>2 DEF TabletInvariant, SessionOwn, SignedIn
  <2> QED BY <1>3, <2>3, <2>4, <2>5 DEF TabletInvariant
<1> QED BY <1>4, <1>5

LEMMA LoseRefreshKeeps ==
    ASSUME TabletInvariant, LoseRefresh
    PROVE  TabletInvariant'
<1>1. PICK f : f = [pc |-> "failed"]
  OBVIOUS
<1>2. /\ flight # NoFlight /\ f \in Failed /\ f.pc = "failed" /\ flight' = f
      /\ UNCHANGED <<accessVars, session, calls, acted, crossed>>
  BY <1>1, TabletPieces DEF LoseRefresh, Failed, TabletInvariant
<1>3. AccessInvariant' /\ UNCHANGED users
  BY <1>2, LoginsStay DEF TabletInvariant, accessVars, roster
<1>4. TabletTypes' /\ RefreshesSomebody'
  BY <1>2, <1>3 DEF TabletInvariant, TabletTypes, RefreshesSomebody
<1>5. SessionOwn' /\ CallsOwn' /\ OwnDoing'
  BY <1>2 DEF TabletInvariant, SessionOwn, CallsOwn, OwnDoing, SignedIn
<1> QED BY <1>3, <1>4, <1>5 DEF TabletInvariant

LEMMA RefreshArrivesKeeps ==
    ASSUME TabletInvariant, RefreshArrives
    PROVE  TabletInvariant'
<1>1. /\ flight \in Renewed /\ flight # NoFlight /\ flight' = NoFlight
      /\ UNCHANGED <<accessVars, acted, crossed>> /\ flight.pc = "answered"
  BY TabletPieces DEF RefreshArrives, TabletInvariant
<1>2. PICK t : t = flight.token
  OBVIOUS
<1>3. t \in AccessToken /\ t # Null /\ t.user \in User /\ t.user \in DOMAIN users
  BY <1>1, <1>2, TokenIsNotNull DEF Renewed, TabletInvariant, RefreshesSomebody
<1>4. PICK new : new = [session EXCEPT !.access = t, !.refresh = t.user]
  OBVIOUS
<1>5. /\ session' = new /\ new \in Session
      /\ new.access = t /\ new.refresh = t.user /\ new.user = session.user
  BY <1>2, <1>3, <1>4 DEF RefreshArrives, TabletInvariant, TabletTypes, Session, Somebody
<1>6. \A c \in Call :
        \/ calls'[c] = calls[c]
        \/ /\ calls[c] \in SentCall /\ calls[c] # NoCall
           /\ calls'[c] \in SentCall /\ calls'[c].by = calls[c].by /\ calls'[c].token = t
  <2> TAKE c \in Call
  <2>1. CASE c \in Waiting
    <3>1. calls'[c] = [calls[c] EXCEPT !.pc = "sent", !.token = t, !.again = TRUE]
      BY <1>2, <2>1 DEF RefreshArrives
    <3>2. calls[c] \in SentCall /\ calls[c] # NoCall
      BY <2>1, TabletPieces DEF Waiting, TabletInvariant, NoCall
    <3> QED BY <1>3, <3>1, <3>2 DEF SentCall
  <2>2. CASE c \notin Waiting
    BY <2>2 DEF RefreshArrives
  <2> QED BY <2>1, <2>2
<1>7. AccessInvariant' /\ UNCHANGED users
  BY <1>1, LoginsStay DEF TabletInvariant, accessVars, roster
<1>8. TabletTypes' /\ RefreshesSomebody'
  <2>1. calls' \in [Call -> {NoCall} \cup SentCall]
    <3>1. \A c \in Call : calls'[c] \in {NoCall} \cup SentCall
      BY <1>6 DEF TabletInvariant, TabletTypes
    <3> QED BY <3>1 DEF RefreshArrives
  <2> QED BY <1>1, <1>3, <1>5, <1>7, <2>1 DEF TabletTypes, RefreshesSomebody, NoFlight
<1>9. SessionOwn'
  BY <1>1, <1>2, <1>3, <1>5 DEF TabletInvariant, SessionOwn, SignedIn, NoFlight
<1>10. CallsOwn' /\ OwnDoing'
  <2>1. crossed # {} \/ (SignedIn /\ t.user = session.user)
    BY <1>1, <1>2 DEF TabletInvariant, SessionOwn
  <2>2. CASE crossed # {}
    BY <1>1, <2>2 DEF CallsOwn, OwnDoing
  <2>3. CASE crossed = {}
    BY <1>1, <1>5, <1>6, <2>1, <2>3 DEF TabletInvariant, CallsOwn, OwnDoing, SignedIn
  <2> QED BY <2>2, <2>3
<1> QED BY <1>7, <1>8, <1>9, <1>10 DEF TabletInvariant

LEMMA RefreshFailsKeeps ==
    ASSUME TabletInvariant, RefreshFails
    PROVE  TabletInvariant'
<1>1. /\ session' = Empty /\ flight' = NoFlight /\ UNCHANGED <<accessVars, acted, crossed>>
      /\ calls' = [c \in Call |-> IF c \in EndedByFailure THEN NoCall ELSE calls[c]]
  BY DEF RefreshFails
<1>2. AccessInvariant' /\ UNCHANGED users
  BY <1>1, LoginsStay DEF TabletInvariant, accessVars, roster
<1>3. TabletTypes' /\ RefreshesSomebody'
  BY <1>1, <1>2, EmptyIsSession DEF TabletInvariant, TabletTypes, RefreshesSomebody, NoFlight
<1>4. SessionOwn'
  BY <1>1, EmptyIsSession DEF SessionOwn, SignedIn, NoFlight
<1>5. CallsOwn' /\ OwnDoing'
  BY <1>1, EmptyIsSession DEF TabletInvariant, CallsOwn, OwnDoing, SignedIn
<1> QED BY <1>2, <1>3, <1>4, <1>5 DEF TabletInvariant

LEMMA ReloadKeeps ==
    ASSUME TabletInvariant, Reload
    PROVE  TabletInvariant'
<1>1. /\ calls' = [c \in Call |-> NoCall] /\ flight' = NoFlight
      /\ UNCHANGED <<accessVars, session, acted, crossed>>
  BY DEF Reload
<1>2. AccessInvariant' /\ UNCHANGED users
  BY <1>1, LoginsStay DEF TabletInvariant, accessVars, roster
<1>3. TabletTypes' /\ RefreshesSomebody'
  BY <1>1, <1>2 DEF TabletInvariant, TabletTypes, RefreshesSomebody, NoFlight
<1>4. SessionOwn' /\ CallsOwn' /\ OwnDoing'
  BY <1>1 DEF TabletInvariant, SessionOwn, CallsOwn, OwnDoing, SignedIn, NoFlight
<1> QED BY <1>2, <1>3, <1>4 DEF TabletInvariant

\* Every step keeps the invariant.
LEMMA TabletStepKeeps ==
    ASSUME TabletInvariant, [Next]_vars
    PROVE  TabletInvariant'
<1>1. CASE UNCHANGED vars
  <2>1. UNCHANGED <<accessVars, session, calls, flight, acted, crossed>>
    BY <1>1 DEF vars, tabletVars
  <2>2. AccessInvariant' /\ UNCHANGED users
    BY <2>1, LoginsStay DEF TabletInvariant, accessVars, roster
  <2> QED BY <2>1, <2>2, TabletStays
<1>2. CASE Elsewhere
  <2>1. AccessNext /\ UNCHANGED <<session, calls, flight, acted, crossed>>
    BY <1>2 DEF Elsewhere, tabletVars
  <2>2. AccessInvariant' /\ DOMAIN users \subseteq DOMAIN users'
    BY <2>1, AccessStepKeeps, UsersOnlyGrow DEF TabletInvariant
  <2> QED BY <2>1, <2>2, TabletStays
<1>3. ASSUME NEW w \in Worker, NEW u \in User, NEW pin \in Pin, SubmitPin(w, u, pin)
      PROVE  TabletInvariant'
  <2>1. /\ StartLogin(w, "tablet", u, Door, pin)
        /\ UNCHANGED <<session, calls, flight, acted, crossed>>
    BY <1>3 DEF SubmitPin, tabletVars
  <2>2. AccessInvariant' /\ UNCHANGED users
    BY <2>1, StartLoginKeeps, DoorAssumption DEF TabletInvariant, StartLogin, roster
  <2> QED BY <2>1, <2>2, TabletStays
<1>4. CASE OpenLogin
  <2>1. UNCHANGED <<accessVars, session, calls, flight, acted, crossed>>
    BY <1>4 DEF OpenLogin
  <2>2. AccessInvariant' /\ UNCHANGED users
    BY <2>1, LoginsStay DEF TabletInvariant, accessVars, roster
  <2> QED BY <2>1, <2>2, TabletStays
<1> QED BY <1>1, <1>2, <1>3, <1>4, SetSessionKeeps, SignOutKeeps, PressKeeps, ServeKeeps, UnauthorizedKeeps,
          FailsKeeps, ServeRefreshKeeps, LoseRefreshKeeps, RefreshArrivesKeeps, RefreshFailsKeeps,
          ReloadKeeps DEF Next

LEMMA TabletBegins == Init => TabletInvariant
<1> SUFFICES ASSUME Init PROVE TabletInvariant
  OBVIOUS
<1>1. /\ session = Empty /\ flight = NoFlight /\ acted = {}
      /\ \A c \in Call : calls[c] = NoCall
  BY DEF Init
<1>2. AccessInvariant
  BY AccessBegins DEF Init
<1>3. TabletTypes /\ RefreshesSomebody
  BY <1>1, EmptyIsSession DEF Init, TabletTypes, RefreshesSomebody, NoFlight
<1>4. SessionOwn /\ CallsOwn /\ OwnDoing
  BY <1>1, EmptyIsSession DEF SessionOwn, CallsOwn, OwnDoing, SignedIn, NoFlight
<1> QED BY <1>2, <1>3, <1>4 DEF TabletInvariant

\* The invariant holds in every behaviour, whatever is lost, late or pressed.
THEOREM TabletIsKept == Spec => []TabletInvariant
<1>1. Init => TabletInvariant
  BY TabletBegins
<1>2. TabletInvariant /\ [Next]_vars => TabletInvariant'
  BY TabletStepKeeps
<1> QED BY <1>1, <1>2, PTL DEF Spec

\* Nobody acts in another's name: the name on the screen is that of the tokens
\* underneath, and what a person presses is done as that person, unless a call or
\* a refresh was under way while the tablet changed hands (auth.interceptor.ts).
THEOREM NobodyElsesName == Spec => []InOwnName
<1>1. TabletInvariant => InOwnName
  BY DEF TabletInvariant, SessionOwn, InOwnName, OwnToken
<1> QED BY <1>1, TabletIsKept, PTL

\* The last admin stays (PATCH /admin/users/:id), unless two admin calls overlapped.
THEOREM AnAdminIsLeft == Spec => []SomeAdmin
<1>1. TabletInvariant => SomeAdmin
  BY DEF TabletInvariant, AccessInvariant
<1> QED BY <1>1, TabletIsKept, PTL

\* A name is one person's and the PIN an admin was told opens the login, unless two
\* admin calls overlapped or somebody was switched on again (routes/admin.ts).
THEOREM TileAndPinAreOnes == Spec => []OneLoginEach
<1>1. TabletInvariant => OneLoginEach
  BY DEF TabletInvariant, AccessInvariant
<1> QED BY <1>1, TabletIsKept, PTL

-----------------------------------------------------------------------------
(* Wrong PINs. *)

\* Handlers that compared a wrong PIN of the login and have not counted it yet,
\* and those of them and others that have, and go on to lock it.
Counting(u) == {w \in Worker : handler[w].pc = "count" /\ handler[w].user = u}
OnTheWay(u) == {w \in Worker : handler[w].pc \in {"count", "lock"} /\ handler[w].user = u}

FailedOf(u) == IF u \in DOMAIN attempts THEN attempts[u].failed ELSE 0

LockoutType ==
    /\ DOMAIN attempts \subseteq User
    /\ \A u \in DOMAIN attempts : attempts[u] \in [failed : Nat, locked : BOOLEAN]
    /\ guesses \in [User -> Nat]
    /\ dropped \in Nat

\* A login that is open has heard fewer wrong PINs than lock it, but for those of
\* handlers still on their way to the count or the lock and of those lost; the count
\* has every wrong PIN, but for those not counted yet and those lost.
OpenBound(u) ==
    /\ guesses[u] <= MaxAttempts - 1 + Cardinality(OnTheWay(u)) + dropped
    /\ guesses[u] <= FailedOf(u) + Cardinality(Counting(u)) + dropped
LockedBound(u) == guesses[u] < MaxAttempts + Cardinality(Worker) + dropped

GuessesCounted ==
    /\ LockoutType
    /\ \A u \in User : IF Locked(u) THEN LockedBound(u) ELSE OpenBound(u)

\* The handlers on their way are finitely many, and some of all.
LEMMA WorkersCounted ==
    ASSUME NEW u
    PROVE  /\ IsFiniteSet(Counting(u)) /\ Cardinality(Counting(u)) \in Nat
           /\ IsFiniteSet(OnTheWay(u)) /\ Cardinality(OnTheWay(u)) \in Nat
           /\ Cardinality(Worker) \in Nat
           /\ Cardinality(Counting(u)) <= Cardinality(OnTheWay(u))
           /\ Cardinality(OnTheWay(u)) <= Cardinality(Worker)
<1>1. Counting(u) \subseteq OnTheWay(u) /\ OnTheWay(u) \subseteq Worker
  BY DEF Counting, OnTheWay
<1>2. IsFiniteSet(Worker)
  BY AccessAssumption
<1>3. IsFiniteSet(OnTheWay(u)) /\ Cardinality(OnTheWay(u)) <= Cardinality(Worker)
  BY <1>1, <1>2, FS_Subset
<1>4. IsFiniteSet(Counting(u)) /\ Cardinality(Counting(u)) <= Cardinality(OnTheWay(u))
  BY <1>1, <1>3, FS_Subset
<1> QED BY <1>2, <1>3, <1>4, FS_CardinalityType

LEMMA WorkersCountedNext ==
    ASSUME NEW u
    PROVE  /\ IsFiniteSet(Counting(u)') /\ Cardinality(Counting(u)') \in Nat
           /\ IsFiniteSet(OnTheWay(u)') /\ Cardinality(OnTheWay(u)') \in Nat
           /\ Cardinality(Counting(u)') <= Cardinality(OnTheWay(u)')
           /\ Cardinality(OnTheWay(u)') <= Cardinality(Worker)
<1>1. Counting(u)' \subseteq OnTheWay(u)' /\ OnTheWay(u)' \subseteq Worker
  BY DEF Counting, OnTheWay
<1>2. IsFiniteSet(Worker)
  BY AccessAssumption
<1>3. IsFiniteSet(OnTheWay(u)') /\ Cardinality(OnTheWay(u)') <= Cardinality(Worker)
  BY <1>1, <1>2, FS_Subset
<1>4. IsFiniteSet(Counting(u)') /\ Cardinality(Counting(u)') <= Cardinality(OnTheWay(u)')
  BY <1>1, <1>3, FS_Subset
<1> QED BY <1>2, <1>3, <1>4, FS_CardinalityType

\* Nobody comes on the way or leaves it: the sets are the same.
LEMMA SameOnTheWay ==
    ASSUME NEW u,
           \A w \in Worker :
               \/ handler'[w] = handler[w]
               \/ handler[w].pc \notin {"count", "lock"} /\ handler'[w].pc \notin {"count", "lock"}
    PROVE  Counting(u)' = Counting(u) /\ OnTheWay(u)' = OnTheWay(u)
BY DEF Counting, OnTheWay

\* One handler that moves changes the sets by itself at most.
LEMMA OneLeavesTheWay ==
    ASSUME NEW u, NEW w \in Worker, \A v \in Worker : v # w => handler'[v] = handler[v]
    PROVE  /\ Cardinality(Counting(u)) <= Cardinality(Counting(u)') + 1
           /\ Cardinality(OnTheWay(u)) <= Cardinality(OnTheWay(u)') + 1
<1>1. Counting(u) \subseteq Counting(u)' \cup {w} /\ OnTheWay(u) \subseteq OnTheWay(u)' \cup {w}
  BY DEF Counting, OnTheWay
<1>2. /\ IsFiniteSet(Counting(u)') /\ Cardinality(Counting(u)') \in Nat
      /\ IsFiniteSet(OnTheWay(u)') /\ Cardinality(OnTheWay(u)') \in Nat
  BY WorkersCountedNext
<1>3. /\ IsFiniteSet(Counting(u)' \cup {w})
      /\ Cardinality(Counting(u)' \cup {w}) <= Cardinality(Counting(u)') + 1
  <2>1. PICK S : S = Counting(u)'
    OBVIOUS
  <2>2. IsFiniteSet(S) /\ Cardinality(S) \in Nat
    BY <1>2, <2>1
  <2>3. /\ IsFiniteSet(S \cup {w})
        /\ Cardinality(S \cup {w}) = IF w \in S THEN Cardinality(S) ELSE Cardinality(S) + 1
    BY <2>2, FS_AddElement
  <2> QED BY <2>1, <2>2, <2>3
<1>4. /\ IsFiniteSet(OnTheWay(u)' \cup {w})
      /\ Cardinality(OnTheWay(u)' \cup {w}) <= Cardinality(OnTheWay(u)') + 1
  <2>1. PICK S : S = OnTheWay(u)'
    OBVIOUS
  <2>2. IsFiniteSet(S) /\ Cardinality(S) \in Nat
    BY <1>2, <2>1
  <2>3. /\ IsFiniteSet(S \cup {w})
        /\ Cardinality(S \cup {w}) = IF w \in S THEN Cardinality(S) ELSE Cardinality(S) + 1
    BY <2>2, FS_AddElement
  <2> QED BY <2>1, <2>2, <2>3
<1>5. /\ Cardinality(Counting(u)) <= Cardinality(Counting(u)' \cup {w})
      /\ Cardinality(OnTheWay(u)) <= Cardinality(OnTheWay(u)' \cup {w})
  BY <1>1, <1>3, <1>4, FS_Subset
<1>6. /\ Cardinality(Counting(u)) \in Nat /\ Cardinality(OnTheWay(u)) \in Nat
      /\ Cardinality(Counting(u)' \cup {w}) \in Nat /\ Cardinality(OnTheWay(u)' \cup {w}) \in Nat
  BY <1>3, <1>4, WorkersCounted, FS_CardinalityType
<1> QED BY <1>2, <1>3, <1>4, <1>5, <1>6

\* A step on which no wrong PIN gets any further: a login is as it was, or forgiven.
LEMMA NothingGuessed ==
    ASSUME GuessesCounted, LockoutType', dropped' = dropped,
           \A w \in Worker :
               \/ handler'[w] = handler[w]
               \/ handler[w].pc \notin {"count", "lock"} /\ handler'[w].pc \notin {"count", "lock"},
           \A u \in User :
               \/ guesses'[u] = 0 /\ ~Locked(u)'
               \/ guesses'[u] = guesses[u] /\ (Locked(u)' <=> Locked(u)) /\ FailedOf(u)' = FailedOf(u)
    PROVE  GuessesCounted'
<1>1. SUFFICES ASSUME NEW u \in User
               PROVE  (IF Locked(u) THEN LockedBound(u) ELSE OpenBound(u))'
  BY DEF GuessesCounted
<1>2. Counting(u)' = Counting(u) /\ OnTheWay(u)' = OnTheWay(u)
  BY SameOnTheWay
<1>3. /\ Cardinality(Counting(u)) \in Nat /\ Cardinality(OnTheWay(u)) \in Nat
      /\ MaxAttempts \in Nat \ {0} /\ dropped \in Nat
  BY WorkersCounted, AccessAssumption DEF GuessesCounted, LockoutType
<1>4. CASE guesses'[u] = 0 /\ ~Locked(u)'
  <2>1. FailedOf(u)' \in Nat
    BY DEF FailedOf, LockoutType
  <2> QED BY <1>2, <1>3, <1>4, <2>1 DEF OpenBound
<1>5. CASE guesses'[u] = guesses[u] /\ (Locked(u)' <=> Locked(u)) /\ FailedOf(u)' = FailedOf(u)
  BY <1>2, <1>5 DEF GuessesCounted, LockedBound, OpenBound
<1> QED BY <1>4, <1>5

\* The lockout is left alone.
LEMMA LockoutStays ==
    ASSUME GuessesCounted, UNCHANGED <<lockout, dropped>>,
           \A w \in Worker :
               \/ handler'[w] = handler[w]
               \/ handler[w].pc \notin {"count", "lock"} /\ handler'[w].pc \notin {"count", "lock"}
    PROVE  GuessesCounted'
<1>1. /\ UNCHANGED <<attempts, guesses, dropped>>
      /\ LockoutType'
      /\ \A u : (Locked(u)' <=> Locked(u)) /\ FailedOf(u)' = FailedOf(u)
  BY DEF lockout, GuessesCounted, LockoutType, Locked, FailedOf
<1> QED BY <1>1, NothingGuessed

\* What forgiving leaves.
LEMMA Forgiven ==
    ASSUME GuessesCounted, NEW u \in User, Forgive(u), dropped' = dropped
    PROVE  /\ LockoutType'
           /\ guesses'[u] = 0 /\ ~Locked(u)'
           /\ \A v \in User : v # u =>
                guesses'[v] = guesses[v] /\ (Locked(v)' <=> Locked(v)) /\ FailedOf(v)' = FailedOf(v)
BY DEF GuessesCounted, LockoutType, Forgive, Without, Locked, FailedOf

\* A handler goes on to its next place.
LEMMA MovesTo ==
    ASSUME HandlerType, NEW w \in Worker, handler[w].pc # "idle", NEW pc, At(w, pc)
    PROVE  /\ \A v \in Worker : v # w => handler'[v] = handler[v]
           /\ handler'[w].pc = pc
           /\ handler[w] \in LoginCall => handler'[w].user = handler[w].user
BY DEF HandlerType, At, LoginCall, Answer, PatchCall, AddCall, Idle

LEMMA EndsIdle ==
    ASSUME HandlerType, NEW w \in Worker, End(w)
    PROVE  /\ \A v \in Worker : v # w => handler'[v] = handler[v]
           /\ handler'[w].pc = "idle"
BY DEF HandlerType, End, Idle

LEMMA LookGuesses ==
    ASSUME HandlerType, GuessesCounted, NEW w \in Worker, Look(w)
    PROVE  GuessesCounted'
<1> DEFINE h == handler[w]
           wrong == ~RefusedUnseen(h.user) /\ h.known /\ h.row.pin # h.pin
<1>1. h \in LoginCall /\ h.user \in User /\ h.pc = "look"
  BY HandlerPieces DEF Look, LoginCall
<1>2. UNCHANGED <<attempts, dropped>>
  BY DEF Look
<1>3. CASE wrong
  <2>1. At(w, "count") /\ guesses' = [guesses EXCEPT ![h.user] = @ + 1] /\ ~Locked(h.user)
    BY <1>3 DEF Look, RefusedUnseen
  <2>2. /\ \A v \in Worker : v # w => handler'[v] = handler[v]
        /\ handler'[w].pc = "count" /\ handler'[w].user = h.user
    BY <1>1, <2>1, MovesTo
  <2>3. LockoutType' /\ \A u : (Locked(u)' <=> Locked(u)) /\ FailedOf(u)' = FailedOf(u)
    BY <1>1, <1>2, <2>1 DEF GuessesCounted, LockoutType, Locked, FailedOf
  <2>4. ASSUME NEW u \in User PROVE (IF Locked(u) THEN LockedBound(u) ELSE OpenBound(u))'
    <3>1. CASE u # h.user
      <4>1. Counting(u)' = Counting(u) /\ OnTheWay(u)' = OnTheWay(u)
        BY <1>1, <2>2, <3>1 DEF Counting, OnTheWay
      <4>2. guesses'[u] = guesses[u]
        BY <2>1, <3>1 DEF GuessesCounted, LockoutType
      <4> QED BY <1>2, <2>3, <4>1, <4>2 DEF GuessesCounted, LockedBound, OpenBound
    <3>2. CASE u = h.user
      <4>1. /\ Counting(u)' = Counting(u) \cup {w} /\ w \notin Counting(u)
            /\ OnTheWay(u)' = OnTheWay(u) \cup {w} /\ w \notin OnTheWay(u)
        BY <1>1, <2>2, <3>2 DEF Counting, OnTheWay
      <4>2. /\ IsFiniteSet(Counting(u)) /\ Cardinality(Counting(u)) \in Nat
            /\ IsFiniteSet(OnTheWay(u)) /\ Cardinality(OnTheWay(u)) \in Nat
        BY WorkersCounted
      <4>3. /\ Cardinality(Counting(u)') = Cardinality(Counting(u)) + 1
            /\ Cardinality(OnTheWay(u)') = Cardinality(OnTheWay(u)) + 1
        BY <4>1, <4>2, FS_AddElement
      <4>4. guesses'[u] = guesses[u] + 1 /\ guesses[u] \in Nat
        BY <2>1, <3>2 DEF GuessesCounted, LockoutType
      <4>5. OpenBound(u) /\ dropped \in Nat /\ MaxAttempts \in Nat /\ FailedOf(u) \in Nat
        BY <2>1, <3>2, AccessAssumption DEF GuessesCounted, LockoutType, FailedOf
      <4>6. OpenBound(u)'
        BY <1>2, <2>3, <4>2, <4>3, <4>4, <4>5 DEF OpenBound
      <4> QED BY <2>1, <2>3, <3>2, <4>6
    <3> QED BY <3>1, <3>2
  <2> QED BY <2>3, <2>4 DEF GuessesCounted
<1>4. CASE ~wrong
  <2>1. UNCHANGED <<lockout, dropped>> /\ (End(w) \/ At(w, "clear"))
    BY <1>4 DEF Look, lockout
  <2>2. /\ \A v \in Worker : v # w => handler'[v] = handler[v]
        /\ handler'[w].pc \in {"idle", "clear"}
    BY <1>1, <2>1, MovesTo, EndsIdle
  <2> QED BY <1>1, <2>1, <2>2, LockoutStays
<1> QED BY <1>3, <1>4

LEMMA CountGuesses ==
    ASSUME HandlerType, GuessesCounted, NEW w \in Worker, Count(w)
    PROVE  GuessesCounted'
<1> DEFINE h == handler[w]
<1>1. h \in LoginCall /\ h.user \in User /\ h.pc = "count" /\ UNCHANGED <<guesses, dropped>>
  BY HandlerPieces DEF Count, LoginCall
<1>2. PICK f : f = FailedOf(h.user) + 1
  OBVIOUS
<1>3. f \in Nat /\ FailedOf(h.user) \in Nat
  BY <1>1, <1>2 DEF GuessesCounted, LockoutType, FailedOf
<1>4. /\ attempts' = WithRow(attempts, h.user, [failed |-> f, locked |-> Locked(h.user)])
      /\ IF f >= MaxAttempts THEN At(w, "lock") ELSE End(w)
  <2>1. f = IF h.user \in DOMAIN attempts THEN attempts[h.user].failed + 1 ELSE 1
    BY <1>2 DEF FailedOf
  <2> QED BY <2>1 DEF Count
<1>5. PICK row : row = [failed |-> f, locked |-> Locked(h.user)]
  OBVIOUS
<1>6. Locked(h.user) \in BOOLEAN
  BY <1>1 DEF Locked, GuessesCounted, LockoutType
<1>7. row \in [failed : Nat, locked : BOOLEAN] /\ row.failed = f /\ (row.locked <=> Locked(h.user))
  BY <1>3, <1>5, <1>6
<1>8. /\ DOMAIN attempts' = DOMAIN attempts \cup {h.user}
      /\ attempts'[h.user] = row
      /\ \A u \in DOMAIN attempts : u # h.user => attempts'[u] = attempts[u]
  BY <1>4, <1>5 DEF WithRow
<1>9. LockoutType'
  BY <1>1, <1>7, <1>8 DEF GuessesCounted, LockoutType
<1>10. /\ \A v \in Worker : v # w => handler'[v] = handler[v]
       /\ handler'[w].pc # "count"
       /\ f >= MaxAttempts => handler'[w].pc = "lock" /\ handler'[w].user = h.user
       /\ f < MaxAttempts => handler'[w].pc = "idle"
       /\ handler'[w].pc = "lock" => handler'[w].user = h.user
  <2>1. f >= MaxAttempts \/ f < MaxAttempts
    BY <1>3, AccessAssumption
  <2>2. CASE f >= MaxAttempts
    BY <1>1, <1>3, <1>4, <2>2, MovesTo, AccessAssumption
  <2>3. CASE f < MaxAttempts
    <3>1. End(w)
      BY <1>3, <1>4, <2>3, AccessAssumption
    <3> QED BY <1>3, <2>3, <3>1, EndsIdle, AccessAssumption
  <2> QED BY <2>1, <2>2, <2>3
<1>11. ASSUME NEW u \in User PROVE (IF Locked(u) THEN LockedBound(u) ELSE OpenBound(u))'
  <2>1. CASE u # h.user
    <3>1. Counting(u)' = Counting(u) /\ OnTheWay(u)' = OnTheWay(u)
      BY <1>1, <1>10, <2>1 DEF Counting, OnTheWay
    <3>2. (Locked(u)' <=> Locked(u)) /\ FailedOf(u)' = FailedOf(u)
      BY <1>8, <2>1 DEF Locked, FailedOf
    <3> QED BY <1>1, <3>1, <3>2 DEF GuessesCounted, LockedBound, OpenBound
  <2>2. CASE u = h.user
    <3>1. (Locked(u)' <=> Locked(u)) /\ FailedOf(u)' = f
      BY <1>7, <1>8, <2>2 DEF Locked, FailedOf
    <3>2. CASE Locked(u)
      BY <1>1, <3>1, <3>2 DEF GuessesCounted, LockedBound
    <3>3. CASE ~Locked(u)
      <4>1. Counting(u)' = Counting(u) \ {w} /\ w \in Counting(u)
        BY <1>1, <1>10, <2>2 DEF Counting
      <4>2. /\ IsFiniteSet(Counting(u)) /\ Cardinality(Counting(u)) \in Nat
            /\ Cardinality(Counting(u)') \in Nat /\ Cardinality(OnTheWay(u)') \in Nat
            /\ Cardinality(Counting(u)') <= Cardinality(OnTheWay(u)')
        BY WorkersCounted, WorkersCountedNext
      <4>3. Cardinality(Counting(u)') = Cardinality(Counting(u)) - 1
        BY <4>1, <4>2, FS_RemoveElement
      <4>4. OpenBound(u) /\ dropped \in Nat /\ MaxAttempts \in Nat /\ guesses[u] \in Nat
        BY <3>3, AccessAssumption DEF GuessesCounted, LockoutType
      <4>5. guesses'[u] <= f + Cardinality(Counting(u)') + dropped'
        BY <1>1, <1>2, <1>3, <2>2, <4>2, <4>3, <4>4 DEF OpenBound
      <4>6. guesses'[u] <= MaxAttempts - 1 + Cardinality(OnTheWay(u)') + dropped'
        <5>1. CASE f < MaxAttempts
          BY <1>1, <1>3, <4>2, <4>4, <4>5, <5>1
        <5>2. CASE f >= MaxAttempts
          <6>1. OnTheWay(u)' = OnTheWay(u)
            BY <1>1, <1>10, <2>2, <5>2 DEF OnTheWay
          <6> QED BY <1>1, <4>4, <6>1 DEF OpenBound
        <5> QED BY <1>3, <4>4, <5>1, <5>2
      <4> QED BY <3>1, <3>3, <4>5, <4>6 DEF OpenBound
    <3> QED BY <3>2, <3>3
  <2> QED BY <2>1, <2>2
<1> QED BY <1>9, <1>11 DEF GuessesCounted

LEMMA LockGuesses ==
    ASSUME HandlerType, GuessesCounted, NEW w \in Worker, Lock(w)
    PROVE  GuessesCounted'
<1> DEFINE h == handler[w]
<1>1. /\ h \in LoginCall /\ h.user \in User /\ h.pc = "lock" /\ UNCHANGED <<guesses, dropped>>
      /\ End(w)
  BY HandlerPieces DEF Lock, LoginCall
<1>2. \A v \in Worker : v # w => handler'[v] = handler[v]
  BY <1>1, EndsIdle
<1>3. handler'[w].pc = "idle"
  BY <1>1, EndsIdle
<1>4. \A u : Counting(u)' = Counting(u)
  BY <1>1, <1>2, <1>3 DEF Counting
<1>5. \A u : u # h.user => OnTheWay(u)' = OnTheWay(u)
  BY <1>1, <1>2, <1>3 DEF OnTheWay
<1>6. CASE h.user \in DOMAIN attempts
  <2>1. PICK row : row = [failed |-> 0, locked |-> TRUE]
    OBVIOUS
  <2>2. row \in [failed : Nat, locked : BOOLEAN] /\ row.locked
    BY <2>1
  <2>3. /\ DOMAIN attempts' = DOMAIN attempts
        /\ attempts'[h.user] = row
        /\ \A u \in DOMAIN attempts : u # h.user => attempts'[u] = attempts[u]
    BY <1>6, <2>1 DEF Lock, WithRow
  <2>4. LockoutType'
    BY <1>1, <2>2, <2>3 DEF GuessesCounted, LockoutType
  <2>5. ASSUME NEW u \in User PROVE (IF Locked(u) THEN LockedBound(u) ELSE OpenBound(u))'
    <3>1. CASE u # h.user
      <4>1. (Locked(u)' <=> Locked(u)) /\ FailedOf(u)' = FailedOf(u)
        BY <2>3, <3>1 DEF Locked, FailedOf
      <4> QED BY <1>1, <1>4, <1>5, <3>1, <4>1 DEF GuessesCounted, LockedBound, OpenBound
    <3>2. CASE u = h.user
      <4>1. Locked(u)'
        BY <1>6, <2>2, <2>3, <3>2 DEF Locked
      <4>2. LockedBound(u) \/ OpenBound(u)
        BY DEF GuessesCounted
      <4>3. LockedBound(u)
        <5>1. /\ guesses[u] \in Nat /\ dropped \in Nat /\ MaxAttempts \in Nat
              /\ Cardinality(OnTheWay(u)) \in Nat /\ Cardinality(Worker) \in Nat
              /\ Cardinality(OnTheWay(u)) <= Cardinality(Worker)
          BY WorkersCounted, AccessAssumption DEF GuessesCounted, LockoutType
        <5> QED BY <4>2, <5>1 DEF LockedBound, OpenBound
      <4> QED BY <1>1, <4>1, <4>3 DEF LockedBound
    <3> QED BY <3>1, <3>2
  <2> QED BY <2>4, <2>5 DEF GuessesCounted
<1>7. CASE h.user \notin DOMAIN attempts
  <2>1. UNCHANGED attempts
    BY <1>7 DEF Lock
  <2>2. LockoutType' /\ \A u : (Locked(u)' <=> Locked(u)) /\ FailedOf(u)' = FailedOf(u)
    BY <1>1, <2>1 DEF GuessesCounted, LockoutType, Locked, FailedOf
  <2>3. ASSUME NEW u \in User PROVE (IF Locked(u) THEN LockedBound(u) ELSE OpenBound(u))'
    <3>1. CASE u # h.user
      BY <1>1, <1>4, <1>5, <2>2, <3>1 DEF GuessesCounted, LockedBound, OpenBound
    <3>2. CASE u = h.user
      <4>1. ~Locked(u) /\ FailedOf(u) = 0
        BY <1>7, <3>2 DEF Locked, FailedOf
      <4>2. /\ guesses[u] \in Nat /\ dropped \in Nat /\ MaxAttempts \in Nat \ {0}
            /\ guesses[u] <= 0 + Cardinality(Counting(u)) + dropped
        BY <4>1, AccessAssumption DEF GuessesCounted, LockoutType, OpenBound
      <4>3. /\ Cardinality(Counting(u)') \in Nat /\ Cardinality(OnTheWay(u)') \in Nat
            /\ Cardinality(Counting(u)') <= Cardinality(OnTheWay(u)')
        BY WorkersCountedNext
      <4>4. Cardinality(Counting(u)') = Cardinality(Counting(u))
        BY <1>4
      <4> QED BY <1>1, <2>2, <4>1, <4>2, <4>3, <4>4 DEF OpenBound
    <3> QED BY <3>1, <3>2
  <2> QED BY <2>2, <2>3 DEF GuessesCounted
<1> QED BY <1>6, <1>7

LEMMA DropGuesses ==
    ASSUME HandlerType, GuessesCounted, NEW w \in Worker, Drop(w)
    PROVE  GuessesCounted'
<1>1. End(w) /\ UNCHANGED <<attempts, guesses>> /\ dropped' = dropped + 1
  BY DEF Drop, lockout
<1>2. \A v \in Worker : v # w => handler'[v] = handler[v]
  BY <1>1, EndsIdle
<1>3. LockoutType' /\ \A u : (Locked(u)' <=> Locked(u)) /\ FailedOf(u)' = FailedOf(u)
  BY <1>1 DEF GuessesCounted, LockoutType, Locked, FailedOf
<1>4. ASSUME NEW u \in User PROVE (IF Locked(u) THEN LockedBound(u) ELSE OpenBound(u))'
  <2>1. /\ Cardinality(Counting(u)) <= Cardinality(Counting(u)') + 1
        /\ Cardinality(OnTheWay(u)) <= Cardinality(OnTheWay(u)') + 1
    BY <1>2, OneLeavesTheWay
  <2>2. /\ Cardinality(Counting(u)) \in Nat /\ Cardinality(OnTheWay(u)) \in Nat
        /\ Cardinality(Counting(u)') \in Nat /\ Cardinality(OnTheWay(u)') \in Nat
        /\ Cardinality(Worker) \in Nat /\ guesses[u] \in Nat /\ dropped \in Nat
        /\ MaxAttempts \in Nat /\ FailedOf(u) \in Nat
    BY WorkersCounted, WorkersCountedNext, AccessAssumption
       DEF GuessesCounted, LockoutType, FailedOf
  <2>3. LockedBound(u) => LockedBound(u)'
    BY <1>1, <2>2 DEF LockedBound
  <2>4. OpenBound(u) => OpenBound(u)'
    BY <1>1, <1>3, <2>1, <2>2 DEF OpenBound
  <2> QED BY <1>3, <2>3, <2>4 DEF GuessesCounted
<1> QED BY <1>3, <1>4 DEF GuessesCounted

LEMMA LockEndsGuesses ==
    ASSUME GuessesCounted, NEW u \in User, LockEnds(u)
    PROVE  GuessesCounted'
<1>1. /\ attempts' = [attempts EXCEPT ![u].locked = FALSE] /\ u \in DOMAIN attempts
      /\ guesses' = [guesses EXCEPT ![u] = 0] /\ UNCHANGED <<handler, dropped>>
  BY DEF LockEnds, Locked
<1>2. PICK row : row = [attempts[u] EXCEPT !.locked = FALSE]
  OBVIOUS
<1>3. row \in [failed : Nat, locked : BOOLEAN] /\ ~row.locked
  BY <1>1, <1>2 DEF GuessesCounted, LockoutType
<1>4. attempts' = [attempts EXCEPT ![u] = row]
  BY <1>1, <1>2
<1>5. LockoutType'
  BY <1>1, <1>3, <1>4 DEF GuessesCounted, LockoutType
<1>6. guesses'[u] = 0 /\ ~Locked(u)'
  BY <1>1, <1>3, <1>4 DEF GuessesCounted, LockoutType, Locked
<1>7. \A v \in User : v # u =>
        guesses'[v] = guesses[v] /\ (Locked(v)' <=> Locked(v)) /\ FailedOf(v)' = FailedOf(v)
  BY <1>1, <1>4 DEF GuessesCounted, LockoutType, Locked, FailedOf
<1> QED BY <1>1, <1>5, <1>6, <1>7, NothingGuessed

\* A handler puts another in its place that is not about a wrong PIN.
LEMMA OtherHandlerStarts ==
    ASSUME HandlerType, NEW w \in Worker, handler[w].pc \notin {"count", "lock"}, NEW h,
           h.pc \notin {"count", "lock"}, handler' = [handler EXCEPT ![w] = h]
    PROVE  \A v \in Worker :
               \/ handler'[v] = handler[v]
               \/ handler[v].pc \notin {"count", "lock"} /\ handler'[v].pc \notin {"count", "lock"}
BY DEF HandlerType

\* Every step of the logins keeps the wrong PINs counted.
LEMMA GuessesStepCounted ==
    ASSUME HandlerType, GuessesCounted, AccessNext
    PROVE  GuessesCounted'
<1> DEFINE Quiet == \A v \in Worker :
               \/ handler'[v] = handler[v]
               \/ handler[v].pc \notin {"count", "lock"} /\ handler'[v].pc \notin {"count", "lock"}
<1>0. Idle.pc = "idle"
  BY DEF Idle
<1>1. ASSUME NEW w \in Worker, NEW from, NEW u, NEW l, NEW pin, StartLogin(w, from, u, l, pin)
      PROVE  GuessesCounted'
  <2>1. PICK h : h = [op |-> "login", pc |-> "look", from |-> from, user |-> u, at |-> l, pin |-> pin,
                      known |-> users[u].active, row |-> users[u]]
    OBVIOUS
  <2>2. handler' = [handler EXCEPT ![w] = h] /\ h.pc = "look" /\ handler[w].pc = "idle"
    BY <1>0, <1>1, <2>1 DEF StartLogin, Busy
  <2>3. Quiet
    BY <2>2, OtherHandlerStarts
  <2> QED BY <1>1, <2>3, LockoutStays DEF StartLogin
<1>2. ASSUME NEW w \in Worker, Clear(w)
      PROVE  GuessesCounted'
  <2>1. handler[w].pc = "clear" /\ handler[w] \in LoginCall /\ Forgive(handler[w].user)
        /\ At(w, "issue") /\ dropped' = dropped
    BY <1>2, HandlerPieces DEF Clear
  <2>2. handler[w].user \in User
    BY <2>1 DEF LoginCall
  <2>3. Quiet
    BY <2>1, MovesTo
  <2> QED BY <2>1, <2>2, <2>3, Forgiven, NothingGuessed
<1>3. ASSUME NEW w \in Worker, ClearAttempts(w)
      PROVE  GuessesCounted'
  <2>1. handler[w].pc = "forgive" /\ handler[w] \in PatchCall /\ Forgive(handler[w].user)
        /\ End(w) /\ dropped' = dropped
    BY <1>3, HandlerPieces DEF ClearAttempts
  <2>2. handler[w].user \in User
    BY <2>1 DEF PatchCall
  <2>3. Quiet
    BY <2>1, EndsIdle
  <2> QED BY <2>1, <2>2, <2>3, Forgiven, NothingGuessed
<1>4. ASSUME NEW u \in User, Unlock(u)
      PROVE  GuessesCounted'
  <2>1. Forgive(u) /\ UNCHANGED <<handler, dropped>>
    BY <1>4 DEF Unlock
  <2> QED BY <2>1, Forgiven, NothingGuessed
<1>5. ASSUME NEW w \in Worker, Issue(w)
      PROVE  GuessesCounted'
  <2>1. PICK h : h = IF handler[w].from = "tablet"
                     THEN [op |-> "login", pc |-> "answer", from |-> handler[w].from,
                           token |-> Token(handler[w].user, handler[w].row)]
                     ELSE Idle
    OBVIOUS
  <2>2. handler' = [handler EXCEPT ![w] = h] /\ handler[w].pc = "issue" /\ h.pc \in {"answer", "idle"}
    BY <1>0, <1>5, <2>1 DEF Issue
  <2>3. Quiet
    BY <2>2, OtherHandlerStarts
  <2> QED BY <1>5, <2>3, LockoutStays DEF Issue
<1>6. ASSUME NEW w \in Worker, NEW u, NEW body, StartPatch(w, u, body)
      PROVE  GuessesCounted'
  <2>1. PICK h : h = [op |-> "patch", user |-> u, body |-> body, row |-> users[u],
                      pc |-> IF LosingAdmin(users[u], body) THEN "others" ELSE "write"]
    OBVIOUS
  <2>2. StartAdmin(w, h) /\ h.pc \in {"others", "write"}
    BY <1>6, <2>1 DEF StartPatch
  <2>3. handler' = [handler EXCEPT ![w] = h] /\ handler[w].pc = "idle"
    BY <1>0, <2>2 DEF StartAdmin, Busy
  <2>4. Quiet
    BY <2>2, <2>3, OtherHandlerStarts
  <2> QED BY <2>2, <2>4, LockoutStays DEF StartAdmin
<1>7. ASSUME NEW w \in Worker, NEW row, StartAdd(w, row)
      PROVE  GuessesCounted'
  <2>1. PICK h : h = [op |-> "add", pc |-> "write", row |-> row]
    OBVIOUS
  <2>2. StartAdmin(w, h) /\ h.pc = "write"
    BY <1>7, <2>1 DEF StartAdd
  <2>3. handler' = [handler EXCEPT ![w] = h] /\ handler[w].pc = "idle"
    BY <1>0, <2>2 DEF StartAdmin, Busy
  <2>4. Quiet
    BY <2>2, <2>3, OtherHandlerStarts
  <2> QED BY <2>2, <2>4, LockoutStays DEF StartAdmin
<1>8. ASSUME NEW w \in Worker, LookForOthers(w) \/ WritePatch(w) \/ \E u \in User : WriteAdd(w, u)
      PROVE  GuessesCounted'
  <2>1. /\ handler[w].pc \in {"others", "write"} /\ UNCHANGED <<lockout, dropped>>
        /\ End(w) \/ At(w, "write") \/ At(w, "forgive")
    BY <1>8 DEF LookForOthers, WritePatch, WriteAdd
  <2>2. Quiet
    BY <2>1, MovesTo, EndsIdle
  <2> QED BY <2>1, <2>2, LockoutStays
<1>9. ASSUME NEW t, Expire(t)
      PROVE  GuessesCounted'
  BY <1>9, LockoutStays DEF Expire
<1> QED BY <1>1, <1>2, <1>3, <1>4, <1>5, <1>6, <1>7, <1>8, <1>9, LookGuesses, CountGuesses, LockGuesses,
          DropGuesses, LockEndsGuesses DEF AccessNext

\* The tablet's own steps leave the count alone.
LEMMA TabletStepCounted ==
    ASSUME HandlerType, GuessesCounted, [Next]_vars
    PROVE  GuessesCounted'
<1>1. CASE UNCHANGED <<lockout, dropped, handler>>
  BY <1>1, LockoutStays
<1>2. CASE Elsewhere
  BY <1>2, GuessesStepCounted DEF Elsewhere
<1>3. ASSUME NEW w \in Worker, NEW u \in User, NEW pin \in Pin, SubmitPin(w, u, pin)
      PROVE  GuessesCounted'
  <2>1. PICK h : h = [op |-> "login", pc |-> "look", from |-> "tablet", user |-> u, at |-> Door, pin |-> pin,
                      known |-> users[u].active, row |-> users[u]]
    OBVIOUS
  <2>2. /\ handler' = [handler EXCEPT ![w] = h] /\ h.pc = "look" /\ handler[w].pc = "idle"
        /\ UNCHANGED <<lockout, dropped>>
    BY <1>3, <2>1 DEF SubmitPin, StartLogin, Busy, Idle
  <2>3. \A v \in Worker :
               \/ handler'[v] = handler[v]
               \/ handler[v].pc \notin {"count", "lock"} /\ handler'[v].pc \notin {"count", "lock"}
    BY <2>2, OtherHandlerStarts
  <2> QED BY <2>2, <2>3, LockoutStays
<1>4. ASSUME NEW w \in Worker, SetSession(w)
      PROVE  GuessesCounted'
  <2>1. End(w) /\ UNCHANGED <<lockout, dropped>> /\ handler[w].pc = "answer"
    BY <1>4 DEF SetSession
  <2> QED BY <2>1, EndsIdle, LockoutStays
<1> QED BY <1>1, <1>2, <1>3, <1>4 DEF Next, vars, tabletVars, accessVars, OpenLogin, Press, Serve, Unauthorized,
          Fails, ServeRefresh, LoseRefresh, RefreshArrives, RefreshFails, SignOut, Reload, lockout

LEMMA GuessesBegin == Init => GuessesCounted
<1> SUFFICES ASSUME Init PROVE GuessesCounted
  OBVIOUS
<1>1. /\ DOMAIN attempts = {} /\ guesses = [u \in User |-> 0] /\ dropped = 0
  BY DEF Init, AccessInit
<1>2. LockoutType
  BY <1>1 DEF LockoutType
<1>3. ASSUME NEW u \in User PROVE ~Locked(u) /\ OpenBound(u)
  <2>1. /\ Cardinality(Counting(u)) \in Nat /\ Cardinality(OnTheWay(u)) \in Nat
        /\ MaxAttempts \in Nat \ {0}
    BY WorkersCounted, AccessAssumption
  <2> QED BY <1>1, <2>1 DEF Locked, OpenBound, FailedOf
<1> QED BY <1>2, <1>3 DEF GuessesCounted

\* A login that is guessed at is locked in time (recordFailure in routes/auth.ts):
\* beyond the five wrong PINs, no more are compared than handlers run side by side
\* or were lost on the way.
THEOREM GuessesStayFew == Spec => []FewGuesses
<1>1. Init => GuessesCounted
  BY GuessesBegin
<1>2. TabletInvariant /\ GuessesCounted /\ [Next]_vars => GuessesCounted'
  BY TabletStepCounted DEF TabletInvariant, AccessInvariant, Types
<1>3. GuessesCounted => FewGuesses
  <2> SUFFICES ASSUME GuessesCounted, NEW u \in User
               PROVE  guesses[u] < MaxAttempts + Cardinality(Worker) + dropped
    BY DEF FewGuesses
  <2>1. /\ guesses[u] \in Nat /\ dropped \in Nat /\ MaxAttempts \in Nat
        /\ Cardinality(OnTheWay(u)) \in Nat /\ Cardinality(Worker) \in Nat
        /\ Cardinality(OnTheWay(u)) <= Cardinality(Worker)
    BY WorkersCounted, AccessAssumption DEF GuessesCounted, LockoutType
  <2> QED BY <2>1 DEF GuessesCounted, LockedBound, OpenBound
<1> QED BY <1>1, <1>2, <1>3, TabletIsKept, PTL DEF Spec
=============================================================================
