------------------------------ MODULE Requests ------------------------------
(***************************************************************************)
(* The request flow (api/src/services/requests.ts and routes/requests.ts):  *)
(* a section asks, the storekeeper releases, the section confirms; a        *)
(* request that is still waiting can be cancelled.  Each handler reads the  *)
(* database outside its transaction and writes inside it, without reading   *)
(* again, so a handler is a Worker that goes from one database round trip   *)
(* to the next while other handlers run.  Releases carry an idempotency     *)
(* key: the answer of the first is kept and given to every retry.           *)
(*                                                                          *)
(* A committed transaction is one step: nothing it reads inside is read     *)
(* before its key is claimed, and the claim keeps a second transaction with *)
(* that key waiting until the first has ended.                              *)
(***************************************************************************)
EXTENDS Integers, Sequences, FiniteSetsExt

CONSTANTS
    Request, Section, Item, User, Key,
    Worker,       \* handlers that can be under way at once
    Store,        \* the section of the location with is_store
    OwnerOf,      \* users attached to each section
    SeenBy,       \* users who may work with each section
    Storekeeper,  \* users with the storekeeper's role
    Asks,         \* bodies of POST /requests: sequences of [item, qty]
    Wanted,       \* bodies of POST /requests/:id/release: line -> quantity
    OpeningStock, \* what the store holds at the start
    MaxCalls      \* bound: handlers started besides POST /requests

ASSUME RequestsAssumption ==
    /\ Store \notin Section /\ IsFiniteSet(Section)
    /\ OwnerOf \in [Section -> SUBSET User]
    /\ SeenBy \in [Section -> SUBSET User]
    /\ Storekeeper \subseteq User
    /\ OpeningStock \in [Item -> Nat]
    /\ \A lines \in Asks :
        /\ lines \in Seq([item : Item, qty : Nat \ {0}]) /\ lines # << >>
    /\ \A wanted \in Wanted : \A n \in DOMAIN wanted : wanted[n] \in Nat
    /\ MaxCalls \in Nat

VARIABLES
    request,  \* issues and issue_lines
    stock,    \* current_stock of the store and the sections
    releases, \* the issue documents of the ledger, numbered as they are posted
    keys,     \* idempotency_keys
    answers,  \* per key: the answers its clients have been given
    call,     \* what each worker is doing
    calls,    \* handlers started
    overlaps  \* history: {r, q} when handlers of r and q were under way together

vars == <<request, stock, releases, keys, answers, call, calls, overlaps>>

Statuses == {"none", "requested", "released", "received", "cancelled"}
Nobody == "nobody"
NoKeyRow == [claimed |-> FALSE]

\* DOMAIN wanted are the lines the body names; the others go out as asked for.
Target(wanted, lines, n) == IF n \in DOMAIN wanted THEN wanted[n] ELSE lines[n].qty

\* Mutant: the stock on hand does not limit a line.
HandoverUnlimited(c, n) == Target(c.wanted, c.lines, n)

\* What line n of a release hands over: the target as far as the stock read
\* before the transaction covers it.  Every line is measured against that same
\* figure, two lines of one item as well.
Handover(c, n) ==
    LET available == Max({0, c.onHand[c.lines[n].item]})
    IN  Min({Target(c.wanted, c.lines, n), available})

\* What the document moves of an item.
MovedOf(c, i) ==
    SumFunction([n \in {m \in DOMAIN c.lines : c.lines[m].item = i} |-> Handover(c, n)])

\* The two legs of the issue document: out of the store, into the section.
AfterIssue(c, to) ==
    [stock EXCEPT ![Store] = [i \in Item |-> @[i] - MovedOf(c, i)],
                  ![to] = [i \in Item |-> @[i] + MovedOf(c, i)]]

\* Mutant: claimKey ignores a key that is already there (on conflict do nothing).
ClaimableAlways(c) == TRUE

\* The insert of claimKey succeeds: no committed row has the key.
Claimable(c) == ~keys[c.key].claimed

\* Mutant: the stored answer is what was asked, not what was handed over.
KeyRowAsAsked(c, out) ==
    [claimed |-> TRUE, request |-> c.request, wanted |-> c.wanted,
     response |-> <<c.request, [n \in DOMAIN out |-> c.lines[n].qty]>>]

\* The row of the key with the answer storeResponse leaves in it.
KeyRow(c, out) ==
    [claimed |-> TRUE, request |-> c.request, wanted |-> c.wanted,
     response |-> <<c.request, out>>]

\* A request can be confirmed by a member of its section who did not release it.
MayConfirm(u, r) ==
    /\ request[r].status = "released"
    /\ u \in OwnerOf[request[r].section]
    /\ request[r].issuedBy # u

\* Mutant: a released request can still be cancelled.
MayCancelLate(r) == request[r].status \in {"requested", "released"}

MayCancel(r) == request[r].status = "requested"

ReleasesOf(r) == {d \in releases : d.request = r}

Idle == [pc |-> "idle"]

-----------------------------------------------------------------------------
Init ==
    /\ request = [r \in Request |->
                    [status |-> "none", section |-> Store, lines |-> << >>,
                     issued |-> << >>, issuedBy |-> Nobody, receivedBy |-> Nobody]]
    /\ stock = [s \in Section \cup {Store} |->
                  IF s = Store THEN OpeningStock ELSE [i \in Item |-> 0]]
    /\ releases = {}
    /\ keys = [k \in Key |-> NoKeyRow]
    /\ answers = [k \in Key |-> {}]
    /\ call = [w \in Worker |-> Idle]
    /\ calls = 0
    /\ overlaps = {}

\* POST /requests.  The reads before its transaction decide nothing: sections do
\* not change here and the shortages are only reported.  Who asked is kept in the row and
\* compared with nobody.
Ask(u, r, s, lines) ==
    /\ u \in SeenBy[s]
    /\ request[r].status = "none"
    /\ request' = [request EXCEPT ![r].status = "requested", ![r].section = s, ![r].lines = lines]
    /\ UNCHANGED <<stock, releases, keys, answers, call, calls, overlaps>>

Start(w, c) ==
    /\ call[w] = Idle
    /\ calls < MaxCalls
    /\ calls' = calls + 1
    /\ overlaps' = overlaps \cup
           {{c.request, call[v].request} : v \in {u \in Worker : call[u] # Idle}}
    /\ call' = [call EXCEPT ![w] = c]

\* The handler answers an error, or its client is gone: nothing is written.
End(w) ==
    /\ call' = [call EXCEPT ![w] = Idle]
    /\ UNCHANGED <<request, stock, releases, keys, answers, calls, overlaps>>

\* POST /requests/:id/release arrives, perhaps a retry of one sent before.
StartRelease(w, u, r, k, wanted) ==
    /\ u \in Storekeeper
    /\ request[r].status # "none"
    /\ Start(w, [pc |-> "replay", op |-> "release", user |-> u, request |-> r,
                 key |-> k, wanted |-> wanted])
    /\ UNCHANGED <<request, stock, releases, keys, answers>>

SameBody(c) == keys[c.key].request = c.request /\ keys[c.key].wanted = c.wanted

\* findReplay: a key that has been used answers what it answered, or a conflict
\* when it was used with another body.
FindReplay(w) ==
    LET c == call[w] IN
    /\ c.pc = "replay"
    /\ IF keys[c.key].claimed
       THEN /\ answers' = IF SameBody(c)
                          THEN [answers EXCEPT ![c.key] = @ \cup {keys[c.key].response}]
                          ELSE answers
            /\ call' = [call EXCEPT ![w] = Idle]
       ELSE /\ call' = [call EXCEPT ![w].pc = "read"]
            /\ UNCHANGED answers
    /\ UNCHANGED <<request, stock, releases, keys, calls, overlaps>>

\* The select of the request and of its lines, and the guard on its status.
ReadRequest(w) ==
    LET c == call[w] IN
    /\ c.pc = "read" /\ c.op = "release"
    /\ request[c.request].status = "requested"
    /\ call' = [call EXCEPT ![w] =
                 [pc |-> "stock", op |-> c.op, user |-> c.user, request |-> c.request,
                  key |-> c.key, wanted |-> c.wanted, lines |-> request[c.request].lines]]
    /\ UNCHANGED <<request, stock, releases, keys, answers, calls, overlaps>>

\* The select of current_stock for the store.
ReadStock(w) ==
    LET c == call[w] IN
    /\ c.pc = "stock"
    /\ call' = [call EXCEPT ![w] =
                 [pc |-> "write", op |-> c.op, user |-> c.user, request |-> c.request,
                  key |-> c.key, wanted |-> c.wanted, lines |-> c.lines,
                  onHand |-> stock[Store]]]
    /\ UNCHANGED <<request, stock, releases, keys, answers, calls, overlaps>>

\* The transaction of a release: the key, the lines, the ledger, the status and
\* the answer, or none of them.  The answer may be lost on its way.
WriteRelease(w) ==
    LET c == call[w]
        r == c.request
        out == [n \in DOMAIN c.lines |-> Handover(c, n)]
    IN
    /\ c.pc = "write" /\ c.op = "release"
    /\ Claimable(c)
    /\ \E n \in DOMAIN out : out[n] > 0
    /\ request' = [request EXCEPT ![r].status = "released", ![r].issued = out,
                                  ![r].issuedBy = c.user]
    /\ stock' = AfterIssue(c, request[r].section)
    /\ releases' = releases \cup {[no |-> Cardinality(releases) + 1, request |-> r,
                                   key |-> c.key, out |-> out]}
    /\ keys' = [keys EXCEPT ![c.key] = KeyRow(c, out)]
    /\ \/ answers' = [answers EXCEPT ![c.key] = @ \cup {<<r, out>>}]
       \/ UNCHANGED answers
    /\ call' = [call EXCEPT ![w] = Idle]
    /\ UNCHANGED <<calls, overlaps>>

\* POST /requests/:id/confirm and its reads.
StartConfirm(w, u, r) ==
    /\ MayConfirm(u, r)
    /\ Start(w, [pc |-> "write", op |-> "confirm", user |-> u, request |-> r])
    /\ UNCHANGED <<request, stock, releases, keys, answers>>

WriteConfirm(w) ==
    LET c == call[w] IN
    /\ c.pc = "write" /\ c.op = "confirm"
    /\ request' = [request EXCEPT ![c.request].status = "received",
                                  ![c.request].receivedBy = c.user]
    /\ call' = [call EXCEPT ![w] = Idle]
    /\ UNCHANGED <<stock, releases, keys, answers, calls, overlaps>>

\* POST /requests/:id/cancel, by anyone who may see the section, and its read.
StartCancel(w, r) ==
    /\ MayCancel(r)
    /\ Start(w, [pc |-> "write", op |-> "cancel", user |-> Nobody, request |-> r])
    /\ UNCHANGED <<request, stock, releases, keys, answers>>

WriteCancel(w) ==
    LET c == call[w] IN
    /\ c.pc = "write" /\ c.op = "cancel"
    /\ request' = [request EXCEPT ![c.request].status = "cancelled"]
    /\ call' = [call EXCEPT ![w] = Idle]
    /\ UNCHANGED <<stock, releases, keys, answers, calls, overlaps>>

\* What a release answers an error to: a request that is no longer waiting, a
\* key claimed meanwhile, nothing to hand over.
Refused(w) ==
    LET c == call[w] IN
    \/ c.pc = "read" /\ request[c.request].status # "requested"
    \/ /\ c.pc = "write" /\ c.op = "release"
       /\ ~Claimable(c) \/ \A n \in DOMAIN c.lines : Handover(c, n) = 0

Refuse(w) == Refused(w) /\ End(w)

\* The connection or the process is lost between two round trips.
Drop(w) == call[w] # Idle /\ End(w)

Next ==
    \/ \E u \in User, r \in Request, s \in Section, lines \in Asks : Ask(u, r, s, lines)
    \/ \E w \in Worker :
        \/ \E u \in User, r \in Request, k \in Key, wanted \in Wanted :
             StartRelease(w, u, r, k, wanted)
        \/ \E u \in User, r \in Request : StartConfirm(w, u, r)
        \/ \E r \in Request : StartCancel(w, r)
        \/ FindReplay(w) \/ ReadRequest(w) \/ ReadStock(w)
        \/ WriteRelease(w) \/ WriteConfirm(w) \/ WriteCancel(w)
        \/ Refuse(w) \/ Drop(w)

Spec == Init /\ [][Next]_vars

-----------------------------------------------------------------------------
\* The shapes of the tables and of the handlers under way.
TablesOK ==
    /\ DOMAIN request = Request /\ DOMAIN call = Worker
    /\ \A r \in Request : request[r].status \in Statuses
    /\ DOMAIN keys = Key /\ \A k \in Key : keys[k].claimed \in BOOLEAN
    /\ DOMAIN answers = Key
    /\ \A d \in releases : d.request \in Request /\ d.key \in Key
    /\ \A w \in Worker :
        /\ call[w].pc # "idle" => call[w].request \in Request
        /\ call[w].pc \in {"replay", "read", "stock"} => call[w].op = "release"
        /\ call[w].pc # "idle" /\ call[w].op = "release" => call[w].key \in Key

TypeOK ==
    /\ TablesOK
    /\ \A r \in Request :
        /\ request[r].lines \in Asks \cup {<< >>}
        /\ {request[r].issuedBy, request[r].receivedBy} \subseteq User \cup {Nobody}
    /\ stock \in [Section \cup {Store} -> [Item -> Int]]
    /\ calls \in 0 .. MaxCalls
    /\ overlaps \subseteq SUBSET Request

\* One key, one handover: however often and however concurrently a release is
\* sent with a key, at most one issue document comes of it, for one request.
KeyPostsOnce == \A d, e \in releases : d.key = e.key => d = e

\* A key is used up exactly when its release is in the ledger, with the answer
\* that says so: a refused or dropped attempt leaves the key free for the retry,
\* and a committed one cannot leave it free.
KeyUsedIffPosted ==
    /\ \A k \in Key : keys[k].claimed => \E d \in releases : d.key = k
    /\ \A d \in releases :
        keys[d.key].claimed /\ keys[d.key].response = <<d.request, d.out>>

\* Every client that was answered under a key was told the same handover, the one
\* that happened.
OneAnswerPerKey ==
    \A k \in Key : answers[k] # {} => keys[k].claimed /\ answers[k] = {keys[k].response}

\* What a key promises whoever retries with it: it posts at most one handover, is used
\* up exactly when it has, and answers everybody with that one.
KeyKeepsItsPromise == KeyPostsOnce /\ KeyUsedIffPosted /\ OneAnswerPerKey

\* Nothing is made or lost between two rooms: what has left the store is in the
\* sections, item by item.
StockConserved ==
    \A i \in Item :
        OpeningStock[i] = stock[Store][i] + SumFunction([s \in Section |-> stock[s][i]])

\* The release d hands over an item on two of its lines.
Twice(d, i) ==
    \E m, n \in DOMAIN d.out :
        m # n /\ \A l \in {m, n} : request[d.request].lines[l].item = i

\* Stock is conserved through every race, and only two things overdraw the store
\* ("Stock never goes negative"): releases that overlapped, and one that names the
\* item on two lines, each of which is measured against the whole shelf.
OverdrawnOnlyTogether ==
    /\ StockConserved
    /\ overlaps = {} =>
         \A i \in Item : stock[Store][i] >= 0 \/ \E d \in releases : Twice(d, i)

\* Two handlers of one request were under way together.
Contended(r) == {r} \in overlaps

\* A section signs only for goods that were handed over, and nobody for the goods
\* they handed over themselves (FR-ROL-07), although a storekeeper belongs to the
\* quarantine as well as to the store: unless two handlers of the request overlapped,
\* as when a second release ends between the reads of a confirmation and its write.
SignedForByAnother ==
    \A r \in Request :
        request[r].status = "received" =>
            /\ ReleasesOf(r) # {}
            /\ Contended(r) \/ request[r].receivedBy # request[r].issuedBy

\* Each request goes through the flow it promises, its stock moving once and on
\* release, signed for by another than who released it, as long as no two handlers of
\* it overlap; what happens after is not promised ("That request has already been
\* released" and "Stock has already moved - this needs a reversal, not a
\* cancellation" are then not kept).
Promise == INSTANCE RequestLifecycle WITH
    status <- [r \in Request |-> IF Contended(r) THEN "contended" ELSE request[r].status],
    moved  <- [r \in Request |-> IF Contended(r) THEN 0 ELSE Cardinality(ReleasesOf(r))]

FollowsLifecycle == Promise!Spec /\ []SignedForByAnother
=============================================================================
