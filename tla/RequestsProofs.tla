--------------------------- MODULE RequestsProofs ---------------------------
(***************************************************************************)
(* Proofs about the two flows of goods between the store and its            *)
(* neighbours.  Requests: the idempotency keys do what they promise for any *)
(* number of requests, keys, handlers and retries, although two releases of *)
(* one request with different keys may not exclude each other.  Purchasing, *)
(* for any orders, suppliers, packs, lines and handlers: what the lines of  *)
(* an order take of a delivery is all of it, with the surplus on the last   *)
(* line of each item, so that an order that is short of an item is one with *)
(* a short line; what a handler read of its order and its supplier stays    *)
(* true until it writes, unless another was at work on them.                *)
(***************************************************************************)
EXTENDS Requests, Purchasing, SumsProofs

KeyInvariant == TablesOK /\ KeyPostsOnce /\ KeyUsedIffPosted /\ OneAnswerPerKey

\* A step that neither posts nor answers keeps what the keys promise.
LEMMA KeysUntouched ==
    ASSUME KeyInvariant, TablesOK', UNCHANGED <<releases, keys, answers>>
    PROVE  KeyInvariant'
BY DEF KeyInvariant, KeyPostsOnce, KeyUsedIffPosted, OneAnswerPerKey

\* The transaction of a release claims a free key and posts under it alone.
LEMMA WriteReleaseKeys ==
    ASSUME KeyInvariant, TablesOK', NEW w \in Worker, WriteRelease(w)
    PROVE  KeyInvariant'
<1> DEFINE c == call[w]
           out == [n \in DOMAIN c.lines |-> Handover(c, n)]
           doc == [no |-> Cardinality(releases) + 1, request |-> c.request,
                   key |-> c.key, out |-> out]
<1>1. /\ ~keys[c.key].claimed
      /\ keys' = [keys EXCEPT ![c.key] = KeyRow(c, out)]
      /\ releases' = releases \cup {doc}
      /\ \/ answers' = [answers EXCEPT ![c.key] = @ \cup {<<c.request, out>>}]
         \/ UNCHANGED answers
  BY DEF WriteRelease, Claimable
<1>2. c.key \in Key /\ c.request \in Request
  BY DEF WriteRelease, KeyInvariant, TablesOK
<1>3. /\ KeyRow(c, out).claimed = TRUE
      /\ KeyRow(c, out).response = <<c.request, out>>
      /\ doc.key = c.key /\ doc.request = c.request /\ doc.out = out
  BY DEF KeyRow
<1> HIDE DEF out, doc, c
<1>4. DOMAIN keys = Key /\ DOMAIN answers = Key
  BY DEF KeyInvariant, TablesOK
<1>5. \A k \in Key : keys'[k] = IF k = c.key THEN KeyRow(c, out) ELSE keys[k]
  BY <1>1, <1>4
<1>6. \A d \in releases : d.key \in Key /\ d.key # c.key
  <2> SUFFICES ASSUME NEW d \in releases PROVE d.key \in Key /\ d.key # c.key
    OBVIOUS
  <2>1. d.key \in Key
    BY DEF KeyInvariant, TablesOK
  <2>2. keys[d.key].claimed
    BY DEF KeyInvariant, KeyUsedIffPosted
  <2> QED BY <1>1, <2>1, <2>2, Zenon
<1>7. KeyPostsOnce'
  BY <1>1, <1>3, <1>6 DEF KeyInvariant, KeyPostsOnce
<1>8. KeyUsedIffPosted'
  <2>1. ASSUME NEW k \in Key, keys'[k].claimed PROVE \E d \in releases' : d.key = k
    <3>1. CASE k = c.key
      BY <1>1, <1>3, <3>1
    <3>2. CASE k # c.key
      <4>1. keys[k].claimed
        BY <1>5, <2>1, <3>2, Zenon
      <4> QED BY <1>1, <4>1 DEF KeyInvariant, KeyUsedIffPosted
    <3> QED BY <3>1, <3>2
  <2>2. ASSUME NEW d \in releases'
        PROVE  keys'[d.key].claimed /\ keys'[d.key].response = <<d.request, d.out>>
    <3>1. CASE d \in releases
      <4>1. keys'[d.key] = keys[d.key]
        BY <1>5, <1>6, <3>1
      <4> QED BY <3>1, <4>1, Zenon DEF KeyInvariant, KeyUsedIffPosted
    <3>2. CASE d = doc
      BY <1>2, <1>3, <1>5, <3>2
    <3> QED BY <1>1, <3>1, <3>2
  <2> QED BY <2>1, <2>2 DEF KeyUsedIffPosted
<1>9. OneAnswerPerKey'
  BY <1>1, <1>2, <1>3, <1>4, <1>5 DEF KeyInvariant, OneAnswerPerKey
<1> QED BY <1>7, <1>8, <1>9 DEF KeyInvariant

\* findReplay only adds the answer the key already carries.
LEMMA FindReplayKeys ==
    ASSUME KeyInvariant, TablesOK', NEW w \in Worker, FindReplay(w)
    PROVE  KeyInvariant'
<1> DEFINE c == call[w]
<1>1. UNCHANGED <<releases, keys>>
  BY DEF FindReplay
<1>2. CASE answers' = answers
  BY <1>1, <1>2, KeysUntouched
<1>3. CASE /\ keys[c.key].claimed
           /\ answers' = [answers EXCEPT ![c.key] = @ \cup {keys[c.key].response}]
  <2>1. OneAnswerPerKey'
    <3> SUFFICES ASSUME NEW k \in Key, answers'[k] # {}
                 PROVE  keys[k].claimed /\ answers'[k] = {keys[k].response}
      BY <1>1 DEF OneAnswerPerKey
    <3>1. DOMAIN answers = Key
      BY DEF KeyInvariant, TablesOK
    <3>2. CASE k = c.key
      BY <1>3, <3>1, <3>2 DEF KeyInvariant, OneAnswerPerKey
    <3>3. CASE k # c.key
      BY <1>3, <3>1, <3>3 DEF KeyInvariant, OneAnswerPerKey
    <3> QED BY <3>2, <3>3
  <2> QED BY <1>1, <2>1 DEF KeyInvariant, KeyPostsOnce, KeyUsedIffPosted
<1> QED BY <1>2, <1>3 DEF FindReplay

\* The shapes the key argument needs are kept by every step.
LEMMA TablesStep ==
    ASSUME TablesOK, [Next]_vars PROVE TablesOK'
<1> USE DEF TablesOK
<1>1. ASSUME NEW u \in User, NEW r \in Request, NEW s \in Section, NEW lines \in Asks,
             Ask(u, r, s, lines)
      PROVE  TablesOK'
  BY <1>1 DEF Ask, Statuses
<1>2. ASSUME NEW w \in Worker, NEW u \in User, NEW r \in Request, NEW k \in Key,
             NEW wanted \in Wanted, StartRelease(w, u, r, k, wanted)
      PROVE  TablesOK'
  BY <1>2 DEF StartRelease, Start
<1>3. ASSUME NEW w \in Worker, NEW u \in User, NEW r \in Request, StartConfirm(w, u, r)
      PROVE  TablesOK'
  BY <1>3 DEF StartConfirm, Start
<1>4. ASSUME NEW w \in Worker, NEW r \in Request, StartCancel(w, r)
      PROVE  TablesOK'
  BY <1>4 DEF StartCancel, Start
<1>5. ASSUME NEW w \in Worker, FindReplay(w) PROVE TablesOK'
  <2> DEFINE c == call[w]
  <2>1. /\ c.pc = "replay" /\ UNCHANGED <<request, releases, keys>>
        /\ DOMAIN answers' = DOMAIN answers
    BY <1>5 DEF FindReplay
  <2>2. \/ call' = [call EXCEPT ![w] = Idle]
        \/ call' = [call EXCEPT ![w].pc = "read"]
    BY <1>5 DEF FindReplay
  <2>3. CASE call' = [call EXCEPT ![w] = Idle]
    BY <2>1, <2>3 DEF Idle
  <2>4. CASE call' = [call EXCEPT ![w].pc = "read"]
    BY <2>1, <2>4
  <2> QED BY <2>2, <2>3, <2>4
<1>6. ASSUME NEW w \in Worker, ReadRequest(w) PROVE TablesOK'
  BY <1>6 DEF ReadRequest
<1>7. ASSUME NEW w \in Worker, ReadStock(w) PROVE TablesOK'
  BY <1>7 DEF ReadStock
<1>8. ASSUME NEW w \in Worker, WriteRelease(w) PROVE TablesOK'
  <2> DEFINE c == call[w]
             out == [n \in DOMAIN c.lines |-> Handover(c, n)]
  <2>1. /\ request' = [request EXCEPT ![c.request].status = "released",
                                      ![c.request].issued = out, ![c.request].issuedBy = c.user]
        /\ releases' = releases \cup {[no |-> Cardinality(releases) + 1, request |-> c.request,
                                       key |-> c.key, out |-> out]}
        /\ keys' = [keys EXCEPT ![c.key] = KeyRow(c, out)]
        /\ call' = [call EXCEPT ![w] = Idle]
        /\ DOMAIN answers' = DOMAIN answers
        /\ c.pc = "write" /\ c.op = "release"
    BY <1>8 DEF WriteRelease
  <2>2. KeyRow(c, out).claimed = TRUE /\ c.key \in Key /\ c.request \in Request
    BY <2>1 DEF KeyRow
  <2> HIDE DEF out
  <2>3. \A r \in Request : request'[r].status \in Statuses
    BY <2>1, <2>2 DEF Statuses
  <2>4. DOMAIN keys' = Key /\ \A k \in Key : keys'[k].claimed \in BOOLEAN
    BY <2>1, <2>2
  <2>5. \A d \in releases' : d.request \in Request /\ d.key \in Key
    BY <2>1, <2>2
  <2>6. \A v \in Worker :
          /\ call'[v].pc # "idle" => call'[v].request \in Request
          /\ call'[v].pc \in {"replay", "read", "stock"} => call'[v].op = "release"
          /\ call'[v].pc # "idle" /\ call'[v].op = "release" => call'[v].key \in Key
    BY <2>1 DEF Idle
  <2> QED BY <2>1, <2>3, <2>4, <2>5, <2>6
<1>9. ASSUME NEW w \in Worker, WriteConfirm(w) PROVE TablesOK'
  BY <1>9 DEF WriteConfirm, Idle, Statuses
<1>10. ASSUME NEW w \in Worker, WriteCancel(w) PROVE TablesOK'
  BY <1>10 DEF WriteCancel, Idle, Statuses
<1>11. ASSUME NEW w \in Worker, End(w) PROVE TablesOK'
  BY <1>11 DEF End, Idle
<1>12. CASE UNCHANGED vars
  BY <1>12 DEF vars
<1> QED BY <1>1, <1>2, <1>3, <1>4, <1>5, <1>6, <1>7, <1>8, <1>9, <1>10, <1>11, <1>12
        DEF Next, Refuse, Drop

\* One key, one handover, one answer: whatever retries, duplicates, dropped
\* handlers and concurrent releases there are, a key posts at most one document,
\* it is used up exactly when that document is in the ledger, and every client
\* that used it was told of that document.
THEOREM KeysKeepTheirPromise == Spec => []KeyKeepsItsPromise
<1>1. Init => KeyInvariant
  <2> SUFFICES ASSUME Init PROVE KeyInvariant
    OBVIOUS
  <2>1. \A k \in Key : keys[k].claimed = FALSE
    BY DEF Init, NoKeyRow
  <2>2. releases = {} /\ \A k \in Key : answers[k] = {}
    BY DEF Init
  <2>3. KeyPostsOnce /\ KeyUsedIffPosted /\ OneAnswerPerKey
    BY <2>1, <2>2 DEF KeyPostsOnce, KeyUsedIffPosted, OneAnswerPerKey
  <2>4. TablesOK
    BY <2>1, <2>2 DEF Init, TablesOK, Statuses, Idle
  <2> QED BY <2>3, <2>4 DEF KeyInvariant
<1>2. KeyInvariant /\ [Next]_vars => KeyInvariant'
  <2> SUFFICES ASSUME KeyInvariant, [Next]_vars PROVE KeyInvariant'
    OBVIOUS
  <2>1. TablesOK'
    BY TablesStep DEF KeyInvariant
  <2>2. CASE \E w \in Worker : WriteRelease(w)
    BY <2>1, <2>2, WriteReleaseKeys
  <2>3. CASE \E w \in Worker : FindReplay(w)
    BY <2>1, <2>3, FindReplayKeys
  <2>4. CASE UNCHANGED <<releases, keys, answers>>
    BY <2>1, <2>4, KeysUntouched
  <2>5. \/ \E w \in Worker : WriteRelease(w) \/ FindReplay(w)
        \/ UNCHANGED <<releases, keys, answers>>
    BY DEF Next, vars, Ask, StartRelease, StartConfirm, StartCancel, ReadRequest,
           ReadStock, WriteConfirm, WriteCancel, Refuse, Drop, End
  <2> QED BY <2>2, <2>3, <2>4, <2>5
<1>3. KeyInvariant => KeyKeepsItsPromise
  BY DEF KeyInvariant, KeyKeepsItsPromise
<1> QED BY <1>1, <1>2, <1>3, PTL DEF Spec

-----------------------------------------------------------------------------
(* The flow of a request. *)

\* Handlers that are under way, and the request they are about.
Runs(w) == call[w].pc # "idle"
On(w, r) == Runs(w) /\ call[w].request = r

Alone == \A r \in Request : Contended(r) \/ \A v, w \in Worker : On(v, r) /\ On(w, r) => v = w

\* What a handler has read of a request that nobody else works on is still so.
HandlerKnows(c) ==
    /\ c.pc \in {"replay", "read", "stock", "write"}
    /\ request[c.request].status # "none"
    /\ c.op \in {"release", "confirm", "cancel"}
    /\ c.op = "confirm" => ReleasesOf(c.request) # {}
    /\ Contended(c.request) \/
         /\ c.op = "release" /\ c.pc \in {"stock", "write"} => request[c.request].status = "requested"
         /\ c.op = "confirm" => /\ request[c.request].status = "released"
                                /\ request[c.request].issuedBy # c.user
         /\ c.op = "cancel" => request[c.request].status = "requested"

HandlersKnow == \A w \in Worker : Runs(w) => HandlerKnows(call[w])

\* What is in the ledger of a request, and in its row.
Posted(r) ==
    /\ "receivedBy" \in DOMAIN request[r]
    /\ request[r].status \in {"released", "received"} => ReleasesOf(r) # {}
    /\ ~Contended(r) /\ request[r].status \in {"none", "requested"} => ReleasesOf(r) = {}

LifeInvariant ==
    TablesOK /\ Alone /\ HandlersKnow /\ (\A r \in Request : Posted(r)) /\ SignedForByAnother

StatusOf(r) == IF Contended(r) THEN "contended" ELSE request[r].status
MovedTimes(r) == IF Contended(r) THEN 0 ELSE Cardinality(ReleasesOf(r))

PromisedStatus == [r \in Request |-> StatusOf(r)]
PromisedMoved == [r \in Request |-> MovedTimes(r)]

\* A step that takes one request from a status to another, and leaves the rest.
Goes(r, from, to) ==
    /\ StatusOf(r) = from /\ StatusOf(r)' = to
    /\ \A x \in Request \ {r} : StatusOf(x)' = StatusOf(x) /\ MovedTimes(x)' = MovedTimes(x)

LEMMA PromiseGoes ==
    ASSUME NEW r \in Request, NEW from, NEW to, Goes(r, from, to)
    PROVE  /\ Promise!Go(r, from, to)
           /\ PromisedMoved' = [PromisedMoved EXCEPT ![r] = MovedTimes(r)']
<1>1. PromisedStatus[r] = from /\ PromisedStatus' = [PromisedStatus EXCEPT ![r] = to]
  BY DEF PromisedStatus, Goes
<1>2. PromisedMoved' = [PromisedMoved EXCEPT ![r] = MovedTimes(r)']
  BY DEF PromisedMoved, Goes
<1> QED BY <1>1, <1>2 DEF Promise!Go, PromisedStatus, StatusOf

\* The steps the flow may take.
LEMMA PromiseKept ==
    ASSUME NEW r \in Request,
           \/ /\ \/ Goes(r, "none", "requested")
                 \/ Goes(r, "requested", "cancelled")
                 \/ Goes(r, "released", "received")
              /\ MovedTimes(r)' = MovedTimes(r)
           \/ /\ Goes(r, "requested", "released")
              /\ MovedTimes(r)' = MovedTimes(r) + 1
           \/ /\ StatusOf(r) \notin {"none", "contended"}
              /\ Goes(r, StatusOf(r), "contended")
              /\ MovedTimes(r)' = 0
    PROVE  Promise!Next
<1>1. PromisedMoved[r] = MovedTimes(r) /\ PromisedStatus[r] = StatusOf(r)
  BY DEF PromisedMoved, PromisedStatus
<1>2. CASE /\ \/ Goes(r, "none", "requested")
              \/ Goes(r, "requested", "cancelled")
              \/ Goes(r, "released", "received")
           /\ MovedTimes(r)' = MovedTimes(r)
  <2>1. ASSUME NEW from, NEW to, Goes(r, from, to)
        PROVE  Promise!Go(r, from, to) /\ PromisedMoved' = PromisedMoved
    BY <1>1, <1>2, <2>1, PromiseGoes DEF PromisedMoved
  <2>2. CASE Goes(r, "none", "requested")
    BY <2>1, <2>2 DEF Promise!Next, Promise!Ask, PromisedMoved, MovedTimes
  <2>3. CASE Goes(r, "requested", "cancelled")
    BY <2>1, <2>3 DEF Promise!Next, Promise!Cancel, PromisedMoved, MovedTimes
  <2>4. CASE Goes(r, "released", "received")
    BY <2>1, <2>4 DEF Promise!Next, Promise!Confirm, PromisedMoved, MovedTimes
  <2> QED BY <1>2, <2>2, <2>3, <2>4
<1>3. CASE Goes(r, "requested", "released") /\ MovedTimes(r)' = MovedTimes(r) + 1
  <2>1. Promise!Go(r, "requested", "released")
    BY <1>3, PromiseGoes
  <2>2. PromisedMoved' = [PromisedMoved EXCEPT ![r] = PromisedMoved[r] + 1]
    BY <1>1, <1>3, PromiseGoes
  <2> QED BY <2>1, <2>2 DEF Promise!Next, Promise!Release, PromisedMoved, MovedTimes
<1>4. CASE /\ StatusOf(r) \notin {"none", "contended"}
           /\ Goes(r, StatusOf(r), "contended") /\ MovedTimes(r)' = 0
  <2>1. PICK from : from = StatusOf(r)
    OBVIOUS
  <2>2. Goes(r, from, "contended")
    BY <1>4, <2>1
  <2>3. PromisedMoved' = [PromisedMoved EXCEPT ![r] = 0]
    BY <1>4, <2>2, PromiseGoes
  <2>4. PromisedStatus' = [PromisedStatus EXCEPT ![r] = "contended"]
    BY <2>2 DEF PromisedStatus, Goes
  <2> QED BY <1>1, <1>4, <2>3, <2>4
          DEF Promise!Next, Promise!Contend, PromisedMoved, MovedTimes, PromisedStatus, StatusOf
<1> QED BY <1>2, <1>3, <1>4

LEMMA PromiseStands ==
    ASSUME \A x \in Request : StatusOf(x)' = StatusOf(x) /\ MovedTimes(x)' = MovedTimes(x)
    PROVE  UNCHANGED Promise!vars
<1>1. PromisedStatus' = PromisedStatus /\ PromisedMoved' = PromisedMoved
  BY DEF PromisedStatus, PromisedMoved
<1> QED BY <1>1 DEF Promise!vars, PromisedStatus, PromisedMoved, StatusOf, MovedTimes

\* A handler that starts may be the second one of its request.
LEMMA StartKeeps ==
    ASSUME LifeInvariant, TablesOK', NEW w \in Worker, NEW c, Start(w, c), c.pc # "idle",
           c.request \in Request, HandlerKnows(c), UNCHANGED <<request, releases>>
    PROVE  LifeInvariant' /\ [Promise!Next]_Promise!vars
<1>1. /\ call[w] = Idle /\ call' = [call EXCEPT ![w] = c]
      /\ overlaps' = overlaps \cup {{c.request, call[v].request} : v \in {u \in Worker : call[u] # Idle}}
      /\ DOMAIN call = Worker
  BY DEF Start, LifeInvariant, TablesOK
<1>2. ~Runs(w) /\ call'[w] = c /\ \A v \in Worker \ {w} : call'[v] = call[v]
  BY <1>1 DEF Runs, Idle
<1>3. \A x : Contended(x) => Contended(x)'
  BY <1>1 DEF Contended
<1>4. \A x : Contended(x)' /\ x # c.request => Contended(x)
  BY <1>1 DEF Contended
<1>5. \A v \in Worker : On(v, c.request) => Contended(c.request)'
  <2> SUFFICES ASSUME NEW v \in Worker, On(v, c.request) PROVE Contended(c.request)'
    OBVIOUS
  <2>1. call[v] # Idle
    BY DEF On, Runs, Idle
  <2>2. {c.request, call[v].request} = {c.request}
    BY DEF On
  <2> QED BY <1>1, <2>1, <2>2 DEF Contended
<1>6. \A x : ReleasesOf(x)' = ReleasesOf(x)
  BY DEF ReleasesOf
<1>7. Alone'
  BY <1>2, <1>3, <1>5 DEF LifeInvariant, Alone, On, Runs
<1>8. HandlersKnow'
  <2>1. \A h : HandlerKnows(h) => HandlerKnows(h)'
    BY <1>3, <1>6 DEF HandlerKnows
  <2>2. \A v \in Worker : call'[v].pc # "idle" => \E h : h = call'[v] /\ HandlerKnows(h)'
    BY <1>2, <2>1 DEF LifeInvariant, HandlersKnow, Runs
  <2> QED BY <2>2 DEF HandlersKnow, HandlerKnows, Runs
<1>9. (\A r \in Request : Posted(r))' /\ SignedForByAnother'
  BY <1>3, <1>6 DEF LifeInvariant, Posted, SignedForByAnother
<1>10. [Promise!Next]_Promise!vars
  <2>1. \A x \in Request \ {c.request} :
          StatusOf(x)' = StatusOf(x) /\ MovedTimes(x)' = MovedTimes(x)
    BY <1>3, <1>4, <1>6 DEF StatusOf, MovedTimes
  <2>2. CASE Contended(c.request)' <=> Contended(c.request)
    <3>1. StatusOf(c.request)' = StatusOf(c.request) /\ MovedTimes(c.request)' = MovedTimes(c.request)
      BY <1>6, <2>2 DEF StatusOf, MovedTimes
    <3> QED BY <2>1, <3>1, PromiseStands
  <2>3. CASE Contended(c.request)' /\ ~Contended(c.request)
    <3>1. /\ StatusOf(c.request) = request[c.request].status
          /\ StatusOf(c.request)' = "contended" /\ MovedTimes(c.request)' = 0
      BY <2>3 DEF StatusOf, MovedTimes
    <3>2. StatusOf(c.request) \notin {"none", "contended"}
      BY <3>1 DEF HandlerKnows, LifeInvariant, TablesOK, Statuses
    <3>3. Goes(c.request, StatusOf(c.request), "contended")
      BY <2>1, <3>1 DEF Goes
    <3> QED BY <3>1, <3>2, <3>3, PromiseKept
  <2> QED BY <1>3, <2>2, <2>3
<1> QED BY <1>7, <1>8, <1>9, <1>10 DEF LifeInvariant

\* A handler that goes on, or ends without writing.
LEMMA CallKeeps ==
    ASSUME LifeInvariant, TablesOK', NEW w \in Worker, NEW c, call' = [call EXCEPT ![w] = c],
           c.pc = "idle" \/ (Runs(w) /\ c.request = call[w].request /\ HandlerKnows(c)),
           UNCHANGED <<request, releases, overlaps>>
    PROVE  LifeInvariant' /\ [Promise!Next]_Promise!vars
<1>1. call'[w] = c /\ \A v \in Worker \ {w} : call'[v] = call[v]
  BY DEF LifeInvariant, TablesOK
<1>2. \A x : (Contended(x)' <=> Contended(x)) /\ ReleasesOf(x)' = ReleasesOf(x)
  BY DEF Contended, ReleasesOf
<1>3. Alone'
  BY <1>1, <1>2 DEF LifeInvariant, Alone, On, Runs
<1>4. HandlersKnow'
  <2>1. \A h : HandlerKnows(h) => HandlerKnows(h)'
    BY <1>2 DEF HandlerKnows
  <2>2. \A v \in Worker : call'[v].pc # "idle" => \E h : h = call'[v] /\ HandlerKnows(h)'
    BY <1>1, <2>1 DEF LifeInvariant, HandlersKnow, Runs
  <2> QED BY <2>2 DEF HandlersKnow, HandlerKnows, Runs
<1>5. (\A r \in Request : Posted(r))' /\ SignedForByAnother'
  BY <1>2 DEF LifeInvariant, Posted, SignedForByAnother
<1>6. \A x \in Request : StatusOf(x)' = StatusOf(x) /\ MovedTimes(x)' = MovedTimes(x)
  BY <1>2 DEF StatusOf, MovedTimes
<1> QED BY <1>3, <1>4, <1>5, <1>6, PromiseStands DEF LifeInvariant

\* A handler that writes its request and ends: it finds the request as it read it, or
\* another handler is on record.
LEMMA WriteKeeps ==
    ASSUME LifeInvariant, TablesOK', NEW w \in Worker, NEW r \in Request, On(w, r),
           call' = [call EXCEPT ![w] = Idle], UNCHANGED overlaps,
           \A x \in Request \ {r} : request'[x] = request[x] /\ ReleasesOf(x)' = ReleasesOf(x),
           ReleasesOf(r) \subseteq ReleasesOf(r)', request'[r].status # "none", Posted(r)',
           request'[r].status = "received" =>
               ReleasesOf(r)' # {} /\ (Contended(r) \/ request'[r].receivedBy # request'[r].issuedBy),
           \/ Contended(r)
           \/ /\ request[r].status = "requested" /\ request'[r].status = "cancelled"
              /\ ReleasesOf(r)' = ReleasesOf(r)
           \/ /\ request[r].status = "released" /\ request'[r].status = "received"
              /\ ReleasesOf(r)' = ReleasesOf(r)
           \/ /\ request[r].status = "requested" /\ request'[r].status = "released"
              /\ \E d : ReleasesOf(r)' = ReleasesOf(r) \cup {d}
    PROVE  LifeInvariant' /\ [Promise!Next]_Promise!vars
<1>1. call'[w] = Idle /\ \A v \in Worker \ {w} : call'[v] = call[v]
  BY DEF LifeInvariant, TablesOK
<1>2. \A x : Contended(x)' <=> Contended(x)
  BY DEF Contended
<1>3. Alone'
  BY <1>1, <1>2 DEF LifeInvariant, Alone, On, Runs, Idle
<1>4. HandlersKnow'
  <2>1. ASSUME NEW v \in Worker, call'[v].pc # "idle"
        PROVE  \E h : h = call'[v] /\ HandlerKnows(h)'
    <3>1. PICK h : h = call[v]
      OBVIOUS
    <3>2. v # w /\ call'[v] = h /\ HandlerKnows(h) /\ Runs(v) /\ h.request \in Request
      BY <1>1, <2>1, <3>1 DEF LifeInvariant, HandlersKnow, Runs, Idle, TablesOK
    <3>3. CASE h.request # r
      BY <1>2, <3>2, <3>3 DEF HandlerKnows
    <3>4. CASE h.request = r
      <4>1. Contended(r)
        BY <3>1, <3>2, <3>4 DEF LifeInvariant, Alone, On
      <4> QED BY <1>2, <3>2, <3>4, <4>1 DEF HandlerKnows
    <3> QED BY <3>2, <3>3, <3>4
  <2> QED BY <2>1 DEF HandlersKnow, HandlerKnows, Runs
<1>5. (\A x \in Request : Posted(x))'
  <2>1. \A x \in Request \ {r} : Posted(x)'
    BY <1>2 DEF LifeInvariant, Posted
  <2> QED BY <2>1
<1>6. SignedForByAnother'
  BY <1>2 DEF LifeInvariant, SignedForByAnother
<1>7. [Promise!Next]_Promise!vars
  <2>1. \A x \in Request \ {r} : StatusOf(x)' = StatusOf(x) /\ MovedTimes(x)' = MovedTimes(x)
    BY <1>2 DEF StatusOf, MovedTimes
  <2>2. CASE Contended(r)
    <3>1. StatusOf(r)' = StatusOf(r) /\ MovedTimes(r)' = MovedTimes(r)
      BY <1>2, <2>2 DEF StatusOf, MovedTimes
    <3> QED BY <2>1, <3>1, PromiseStands
  <2>3. CASE ~Contended(r)
    <3>1. /\ StatusOf(r) = request[r].status /\ StatusOf(r)' = request'[r].status
          /\ MovedTimes(r) = Cardinality(ReleasesOf(r))
          /\ MovedTimes(r)' = Cardinality(ReleasesOf(r)')
      BY <1>2, <2>3 DEF StatusOf, MovedTimes
    <3>2. CASE ReleasesOf(r)' = ReleasesOf(r) /\ request'[r].status \in {"cancelled", "received"}
      <4>1. MovedTimes(r)' = MovedTimes(r)
        BY <3>1, <3>2
      <4>2. Goes(r, "requested", "cancelled") \/ Goes(r, "released", "received")
        BY <2>1, <2>3, <3>1, <3>2 DEF Goes
      <4> QED BY <4>1, <4>2, PromiseKept
    <3>3. CASE /\ request[r].status = "requested" /\ request'[r].status = "released"
               /\ \E d : ReleasesOf(r)' = ReleasesOf(r) \cup {d}
      <4>1. ReleasesOf(r) = {}
        BY <2>3, <3>3 DEF LifeInvariant, Posted
      <4>2. PICK d : ReleasesOf(r)' = {d}
        BY <3>3, <4>1
      <4>3. MovedTimes(r) = 0 /\ MovedTimes(r)' = 1
        BY <3>1, <4>1, <4>2, FS_EmptySet, FS_Singleton
      <4>4. Goes(r, "requested", "released")
        BY <2>1, <3>1, <3>3 DEF Goes
      <4> QED BY <4>3, <4>4, PromiseKept
    <3> QED BY <2>3, <3>2, <3>3
  <2> QED BY <2>2, <2>3
<1> QED BY <1>3, <1>4, <1>5, <1>6, <1>7 DEF LifeInvariant

LEMMA AskKeeps ==
    ASSUME LifeInvariant, TablesOK', NEW u \in User, NEW r \in Request, NEW s \in Section,
           NEW lines \in Asks, Ask(u, r, s, lines)
    PROVE  LifeInvariant' /\ [Promise!Next]_Promise!vars
<1>1. /\ request[r].status = "none" /\ UNCHANGED <<releases, call, overlaps>>
      /\ request'[r].status = "requested"
      /\ \A x \in Request \ {r} : request'[x] = request[x]
  BY DEF Ask, LifeInvariant, TablesOK
<1>2. \A x : (Contended(x)' <=> Contended(x)) /\ ReleasesOf(x)' = ReleasesOf(x)
  BY <1>1 DEF Contended, ReleasesOf
<1>3. Alone'
  BY <1>1, <1>2 DEF LifeInvariant, Alone, On, Runs
<1>4. HandlersKnow'
  <2>1. ASSUME NEW v \in Worker, Runs(v)
        PROVE  \E h : h = call'[v] /\ HandlerKnows(h)'
    <3>1. PICK h : h = call[v]
      OBVIOUS
    <3>2. HandlerKnows(h) /\ h.request \in Request
      BY <2>1, <3>1 DEF LifeInvariant, HandlersKnow, TablesOK, Runs
    <3>3. h.request # r
      BY <1>1, <3>2 DEF HandlerKnows
    <3> QED BY <1>1, <1>2, <3>1, <3>2, <3>3 DEF HandlerKnows
  <2> QED BY <1>1, <2>1 DEF HandlersKnow, HandlerKnows, Runs
<1>5. (\A x \in Request : Posted(x))'
  <2>1. \A x \in Request \ {r} : Posted(x)'
    BY <1>1, <1>2 DEF LifeInvariant, Posted
  <2>2. "receivedBy" \in DOMAIN request'[r]
    BY DEF LifeInvariant, Posted, Ask, TablesOK
  <2>3. Posted(r)'
    BY <1>1, <1>2, <2>2 DEF LifeInvariant, Posted
  <2> QED BY <2>1, <2>3
<1>6. SignedForByAnother'
  BY <1>1, <1>2 DEF LifeInvariant, SignedForByAnother
<1>7. [Promise!Next]_Promise!vars
  <2>1. /\ \A x \in Request \ {r} : StatusOf(x)' = StatusOf(x)
        /\ \A x \in Request : MovedTimes(x)' = MovedTimes(x)
    BY <1>1, <1>2 DEF StatusOf, MovedTimes
  <2>2. CASE Contended(r)
    <3>1. StatusOf(r)' = StatusOf(r)
      BY <1>2, <2>2 DEF StatusOf
    <3> QED BY <2>1, <3>1, PromiseStands
  <2>3. CASE ~Contended(r)
    <3>1. Goes(r, "none", "requested")
      BY <1>1, <1>2, <2>1, <2>3 DEF Goes, StatusOf
    <3> QED BY <2>1, <3>1, PromiseKept
  <2> QED BY <2>2, <2>3
<1> QED BY <1>3, <1>4, <1>5, <1>6, <1>7 DEF LifeInvariant

LEMMA StartsKeep ==
    ASSUME LifeInvariant, TablesOK', NEW w \in Worker, NEW r \in Request,
           \/ \E u \in User, k \in Key, wanted \in Wanted : StartRelease(w, u, r, k, wanted)
           \/ \E u \in User : StartConfirm(w, u, r)
           \/ StartCancel(w, r)
    PROVE  LifeInvariant' /\ [Promise!Next]_Promise!vars
<1>1. ASSUME NEW u \in User, NEW k \in Key, NEW wanted \in Wanted, StartRelease(w, u, r, k, wanted)
      PROVE  LifeInvariant' /\ [Promise!Next]_Promise!vars
  <2>1. PICK c : c = [pc |-> "replay", op |-> "release", user |-> u, request |-> r,
                      key |-> k, wanted |-> wanted]
    OBVIOUS
  <2>2. Start(w, c) /\ UNCHANGED <<request, releases>> /\ request[r].status # "none"
    BY <1>1, <2>1 DEF StartRelease
  <2>3. HandlerKnows(c) /\ c.pc # "idle" /\ c.request = r
    BY <2>1, <2>2 DEF HandlerKnows
  <2> QED BY <2>2, <2>3, StartKeeps
<1>2. ASSUME NEW u \in User, StartConfirm(w, u, r)
      PROVE  LifeInvariant' /\ [Promise!Next]_Promise!vars
  <2>1. PICK c : c = [pc |-> "write", op |-> "confirm", user |-> u, request |-> r]
    OBVIOUS
  <2>2. Start(w, c) /\ UNCHANGED <<request, releases>> /\ MayConfirm(u, r)
    BY <1>2, <2>1 DEF StartConfirm
  <2>3. ReleasesOf(r) # {}
    BY <2>2 DEF MayConfirm, LifeInvariant, Posted
  <2>4. HandlerKnows(c) /\ c.pc # "idle" /\ c.request = r
    BY <2>1, <2>2, <2>3 DEF HandlerKnows, MayConfirm
  <2> QED BY <2>2, <2>4, StartKeeps
<1>3. CASE StartCancel(w, r)
  <2>1. PICK c : c = [pc |-> "write", op |-> "cancel", user |-> Nobody, request |-> r]
    OBVIOUS
  <2>2. Start(w, c) /\ UNCHANGED <<request, releases>> /\ MayCancel(r)
    BY <1>3, <2>1 DEF StartCancel
  <2>3. HandlerKnows(c) /\ c.pc # "idle" /\ c.request = r
    BY <2>1, <2>2 DEF HandlerKnows, MayCancel
  <2> QED BY <2>2, <2>3, StartKeeps
<1> QED BY <1>1, <1>2, <1>3

LEMMA CallsKeep ==
    ASSUME LifeInvariant, TablesOK', NEW w \in Worker,
           FindReplay(w) \/ ReadRequest(w) \/ ReadStock(w) \/ End(w)
    PROVE  LifeInvariant' /\ [Promise!Next]_Promise!vars
<1>1. PICK c : c = call[w]
  OBVIOUS
<1>2. Runs(w) => HandlerKnows(c)
  BY <1>1 DEF LifeInvariant, HandlersKnow
<1>3. CASE End(w)
  BY <1>3, CallKeeps DEF End, Idle
<1>4. CASE FindReplay(w)
  <2>1. /\ c.pc = "replay" /\ UNCHANGED <<request, releases, overlaps>>
        /\ \/ call' = [call EXCEPT ![w] = Idle]
           \/ call' = [call EXCEPT ![w].pc = "read"]
    BY <1>1, <1>4 DEF FindReplay
  <2>2. CASE call' = [call EXCEPT ![w] = Idle]
    BY <2>1, <2>2, CallKeeps DEF Idle
  <2>3. CASE call' = [call EXCEPT ![w].pc = "read"]
    <3>1. PICK h : h = [c EXCEPT !.pc = "read"]
      OBVIOUS
    <3>2. call' = [call EXCEPT ![w] = h]
      BY <1>1, <2>3, <3>1
    <3>3. h.request = c.request /\ h.op = c.op /\ h.user = c.user /\ Runs(w) /\ HandlerKnows(c)
      BY <1>1, <1>2, <2>1, <3>1 DEF Runs
    <3>4. h.pc \in {c.pc, "read"}
      BY <3>1
    <3>5. HandlerKnows(h)
      BY <2>1, <3>3, <3>4 DEF HandlerKnows
    <3> QED BY <1>1, <2>1, <3>2, <3>3, <3>5, CallKeeps
  <2> QED BY <2>1, <2>2, <2>3
<1>5. CASE ReadRequest(w)
  <2>1. PICK h : h = [pc |-> "stock", op |-> c.op, user |-> c.user, request |-> c.request,
                      key |-> c.key, wanted |-> c.wanted, lines |-> request[c.request].lines]
    OBVIOUS
  <2>2. /\ c.pc = "read" /\ c.op = "release" /\ request[c.request].status = "requested"
        /\ call' = [call EXCEPT ![w] = h] /\ UNCHANGED <<request, releases, overlaps>>
    BY <1>1, <1>5, <2>1 DEF ReadRequest
  <2>3. Runs(w) /\ HandlerKnows(h) /\ h.request = c.request
    BY <1>1, <1>2, <2>1, <2>2 DEF HandlerKnows, Runs
  <2> QED BY <1>1, <2>2, <2>3, CallKeeps
<1>6. CASE ReadStock(w)
  <2>1. PICK h : h = [pc |-> "write", op |-> c.op, user |-> c.user, request |-> c.request,
                      key |-> c.key, wanted |-> c.wanted, lines |-> c.lines, onHand |-> stock[Store]]
    OBVIOUS
  <2>2. /\ c.pc = "stock" /\ call' = [call EXCEPT ![w] = h]
        /\ UNCHANGED <<request, releases, overlaps>>
    BY <1>1, <1>6, <2>1 DEF ReadStock
  <2>3. Runs(w) /\ HandlerKnows(h) /\ h.request = c.request
    BY <1>1, <1>2, <2>1, <2>2 DEF HandlerKnows, Runs
  <2> QED BY <1>1, <2>2, <2>3, CallKeeps
<1> QED BY <1>3, <1>4, <1>5, <1>6

LEMMA WritesKeep ==
    ASSUME LifeInvariant, TablesOK', NEW w \in Worker,
           WriteRelease(w) \/ WriteConfirm(w) \/ WriteCancel(w)
    PROVE  LifeInvariant' /\ [Promise!Next]_Promise!vars
<1>1. PICK c : c = call[w]
  OBVIOUS
<1>2. PICK r : r = c.request
  OBVIOUS
<1>3. Runs(w) /\ HandlerKnows(c) /\ r \in Request /\ On(w, r) /\ c.pc = "write"
  BY <1>1, <1>2 DEF WriteRelease, WriteConfirm, WriteCancel, LifeInvariant, HandlersKnow, TablesOK, Runs, On
<1>4. Posted(r)
  BY <1>3 DEF LifeInvariant
<1>5. Contended(r)' <=> Contended(r)
  BY DEF WriteRelease, WriteConfirm, WriteCancel, Contended
<1>6. CASE WriteRelease(w)
  <2>1. PICK out : out = [n \in DOMAIN c.lines |-> Handover(c, n)]
    OBVIOUS
  <2>2. PICK d : d = [no |-> Cardinality(releases) + 1, request |-> r, key |-> c.key, out |-> out]
    OBVIOUS
  <2>3. /\ c.op = "release" /\ releases' = releases \cup {d} /\ UNCHANGED overlaps
        /\ request' = [request EXCEPT ![r].status = "released", ![r].issued = out, ![r].issuedBy = c.user]
        /\ call' = [call EXCEPT ![w] = Idle]
    BY <1>1, <1>2, <1>6, <2>1, <2>2 DEF WriteRelease
  <2>4. /\ ReleasesOf(r)' = ReleasesOf(r) \cup {d}
        /\ \A x \in Request \ {r} : ReleasesOf(x)' = ReleasesOf(x)
    BY <2>2, <2>3 DEF ReleasesOf
  <2>5. request'[r].status = "released" /\ \A x \in Request \ {r} : request'[x] = request[x]
    BY <1>3, <2>3, <1>6 DEF LifeInvariant, TablesOK
  <2>6. Posted(r)'
    BY <1>3, <1>4, <2>3, <2>4, <2>5 DEF Posted, LifeInvariant, TablesOK
  <2>7. Contended(r) \/ request[r].status = "requested"
    BY <1>2, <1>3, <2>3 DEF HandlerKnows
  <2> QED BY <1>3, <2>3, <2>4, <2>5, <2>6, <2>7, WriteKeeps
<1>7. CASE WriteConfirm(w)
  <2>1. /\ c.op = "confirm" /\ UNCHANGED <<releases, overlaps>>
        /\ request' = [request EXCEPT ![r].status = "received", ![r].receivedBy = c.user]
        /\ call' = [call EXCEPT ![w] = Idle]
    BY <1>1, <1>2, <1>7 DEF WriteConfirm
  <2>2. \A x : ReleasesOf(x)' = ReleasesOf(x)
    BY <2>1 DEF ReleasesOf
  <2>3. PICK row : row = request[r]
    OBVIOUS
  <2>4. /\ request'[r] = [[row EXCEPT !.status = "received"] EXCEPT !.receivedBy = c.user]
        /\ \A x \in Request \ {r} : request'[x] = request[x]
    BY <1>3, <2>1, <2>3 DEF LifeInvariant, TablesOK
  <2>5. request'[r].status = "received"
    BY <1>3, <2>1 DEF LifeInvariant, TablesOK
  <2>6. ReleasesOf(r) # {}
    BY <1>2, <1>3, <2>1 DEF HandlerKnows
  <2>7. Posted(r)'
    BY <1>4, <2>2, <2>3, <2>4, <2>5, <2>6 DEF Posted
  <2>8. \/ Contended(r)
        \/ request[r].status = "released" /\ request'[r].receivedBy # request'[r].issuedBy
    <3>1. "receivedBy" \in DOMAIN row
      BY <1>4, <2>3 DEF Posted
    <3>2. request'[r].receivedBy = c.user /\ request'[r].issuedBy = row.issuedBy
      BY <2>4, <3>1
    <3>3. Contended(r) \/ (request[r].status = "released" /\ row.issuedBy # c.user)
      BY <1>2, <1>3, <2>1, <2>3 DEF HandlerKnows
    <3> QED BY <3>2, <3>3
  <2> QED BY <1>3, <2>1, <2>2, <2>4, <2>5, <2>6, <2>7, <2>8, WriteKeeps
<1>8. CASE WriteCancel(w)
  <2>1. /\ c.op = "cancel" /\ UNCHANGED <<releases, overlaps>>
        /\ request' = [request EXCEPT ![r].status = "cancelled"]
        /\ call' = [call EXCEPT ![w] = Idle]
    BY <1>1, <1>2, <1>8 DEF WriteCancel
  <2>2. \A x : ReleasesOf(x)' = ReleasesOf(x)
    BY <2>1 DEF ReleasesOf
  <2>3. request'[r].status = "cancelled" /\ \A x \in Request \ {r} : request'[x] = request[x]
    BY <1>3, <2>1 DEF LifeInvariant, TablesOK
  <2>4. Posted(r)'
    BY <1>3, <1>4, <2>1, <2>3 DEF Posted, LifeInvariant, TablesOK
  <2>5. Contended(r) \/ request[r].status = "requested"
    BY <1>2, <1>3, <2>1 DEF HandlerKnows
  <2> QED BY <1>3, <2>1, <2>2, <2>3, <2>4, <2>5, WriteKeeps
<1> QED BY <1>6, <1>7, <1>8

LEMMA FlowStep ==
    ASSUME LifeInvariant, [Next]_vars
    PROVE  LifeInvariant' /\ [Promise!Next]_Promise!vars
<1>1. TablesOK'
  BY TablesStep DEF LifeInvariant
<1>2. CASE UNCHANGED vars
  <2>1. \A x : (Contended(x)' <=> Contended(x)) /\ ReleasesOf(x)' = ReleasesOf(x)
    BY <1>2 DEF vars, Contended, ReleasesOf
  <2>2. LifeInvariant'
    BY <1>1, <1>2, <2>1 DEF vars, LifeInvariant, Alone, On, Runs, HandlersKnow, HandlerKnows, Posted,
                            SignedForByAnother
  <2>3. \A x \in Request : StatusOf(x)' = StatusOf(x) /\ MovedTimes(x)' = MovedTimes(x)
    BY <1>2, <2>1 DEF vars, StatusOf, MovedTimes
  <2> QED BY <2>2, <2>3, PromiseStands
<1>3. CASE Next
  BY <1>1, <1>3, AskKeeps, StartsKeep, CallsKeep, WritesKeep DEF Next, Refuse, Drop
<1> QED BY <1>2, <1>3

LEMMA FlowBegins ==
    ASSUME Init
    PROVE  LifeInvariant /\ Promise!Init
<1>1. /\ DOMAIN request = Request /\ \A w \in Worker : call[w] = Idle
      /\ \A r \in Request : request[r].status = "none" /\ "receivedBy" \in DOMAIN request[r]
  BY DEF Init
<1>2. releases = {} /\ overlaps = {}
  BY DEF Init
<1>3. \A r : ReleasesOf(r) = {} /\ ~Contended(r)
  BY <1>2 DEF ReleasesOf, Contended
<1>4. TablesOK
  <2>1. \A k \in Key : keys[k].claimed = FALSE
    BY DEF Init, NoKeyRow
  <2> QED BY <1>1, <1>2, <2>1 DEF Init, TablesOK, Statuses, Idle
<1>5. LifeInvariant
  BY <1>1, <1>3, <1>4 DEF LifeInvariant, Alone, On, Runs, Idle, HandlersKnow, Posted, SignedForByAnother
<1>6. \A r \in Request : StatusOf(r) = "none" /\ MovedTimes(r) = 0
  BY <1>1, <1>3, FS_EmptySet DEF StatusOf, MovedTimes
<1>7. Promise!Init
  BY <1>6 DEF Promise!Init, StatusOf, MovedTimes
<1> QED BY <1>5, <1>7

\* The request flow implements its promise, for any users, requests, keys and bodies
\* and through retries and lost handlers: as long as no two handlers of a request
\* overlap, it goes from asked to cancelled, or to released and received, its stock
\* moves once, and whoever signs for it is not who released it.
THEOREM RequestsFollowTheirLifecycle == Spec => FollowsLifecycle
<1>1. Init => LifeInvariant /\ Promise!Init
  BY FlowBegins
<1>2. LifeInvariant /\ [Next]_vars => LifeInvariant' /\ [Promise!Next]_Promise!vars
  BY FlowStep
<1>3. LifeInvariant => SignedForByAnother
  BY DEF LifeInvariant
<1> QED BY <1>1, <1>2, <1>3, PTL DEF Spec, FollowsLifecycle, Promise!Spec

-----------------------------------------------------------------------------
(* What moves, and what is left in the store. *)

\* Who and what a row names, once it has been asked, and what of it stays: the lines.
RowsOK ==
    \A r \in Request :
        /\ {"status", "section", "lines"} \subseteq DOMAIN request[r]
        /\ request[r].status # "none" => request[r].section \in Section /\ request[r].lines \in Asks

\* What a release has read.  The shelf is still as it was read when nobody else was
\* under way.
ReleaseKnows(c) ==
    /\ c.wanted \in Wanted
    /\ c.pc \in {"stock", "write"} => c.lines = request[c.request].lines
    /\ c.pc = "write" => /\ c.onHand \in [Item -> Int]
                         /\ overlaps = {} => c.onHand = stock[Store]

ReleasesKnow ==
    \A w \in Worker :
        Runs(w) => /\ request[call[w].request].status # "none"
                   /\ call[w].op = "release" => ReleaseKnows(call[w])

OneAtATime == overlaps = {} => \A v, w \in Worker : Runs(v) /\ Runs(w) => v = w

\* A document has a line for every line of its request.
DocumentsOK ==
    \A d \in releases :
        /\ request[d.request].status # "none"
        /\ DOMAIN d.out = DOMAIN request[d.request].lines

StockTyped == stock \in [Section \cup {Store} -> [Item -> Int]]

NotOverdrawn ==
    overlaps = {} => \A i \in Item : stock[Store][i] >= 0 \/ \E d \in releases : Twice(d, i)

StockInvariant ==
    /\ TablesOK /\ RowsOK /\ ReleasesKnow /\ OneAtATime /\ DocumentsOK
    /\ StockTyped /\ StockConserved /\ NotOverdrawn

LEMMA LinesTyped ==
    ASSUME NEW lines \in Asks
    PROVE  /\ \E k \in Nat : DOMAIN lines = 1 .. k
           /\ \A n \in DOMAIN lines : lines[n].item \in Item /\ lines[n].qty \in Nat
<1>1. lines \in Seq([item : Item, qty : Nat \ {0}])
  BY RequestsAssumption
<1>2. DOMAIN lines = 1 .. Len(lines) /\ Len(lines) \in Nat
  BY <1>1
<1>3. \A n \in 1 .. Len(lines) : lines[n] \in [item : Item, qty : Nat \ {0}]
  <2>1. PICK Row : Row = [item : Item, qty : Nat \ {0}]
    OBVIOUS
  <2>2. lines \in Seq(Row)
    BY <1>1, <2>1
  <2>3. \A n \in 1 .. Len(lines) : lines[n] \in Row
    BY <2>2
  <2> QED BY <2>1, <2>3
<1>4. \A n \in DOMAIN lines : lines[n].item \in Item /\ lines[n].qty \in Nat
  BY <1>2, <1>3
<1> QED BY <1>2, <1>4

\* A line hands over something between nothing and what the store was read to have.
LEMMA HandoverBounded ==
    ASSUME NEW c, c.lines \in Asks, c.wanted \in Wanted, c.onHand \in [Item -> Int],
           NEW n \in DOMAIN c.lines
    PROVE  /\ c.lines[n].item \in Item
           /\ Handover(c, n) \in Nat
           /\ \/ Handover(c, n) <= c.onHand[c.lines[n].item]
              \/ Handover(c, n) = 0
<1> DEFINE i == c.lines[n].item
           has == c.onHand[i]
           available == Max({0, has})
           target == Target(c.wanted, c.lines, n)
<1>1. i \in Item /\ c.lines[n].qty \in Nat
  BY LinesTyped
<1>2. has \in Int
  BY <1>1
<1>3. target \in Nat
  BY <1>1, RequestsAssumption DEF Target
<1> HIDE DEF has, target
<1>4. available \in Nat /\ (available = has \/ available = 0)
  <2>1. \E x \in {0, has} : \A y \in {0, has} : x >= y
    BY <1>2
  <2> QED BY <1>2, <2>1 DEF Max
<1> HIDE DEF available
<1>5. Min({target, available}) \in {target, available}
      /\ Min({target, available}) <= available
  <2>1. \E x \in {target, available} : \A y \in {target, available} : x <= y
    BY <1>3, <1>4
  <2> QED BY <1>3, <1>4, <2>1 DEF Min
<1>6. Handover(c, n) = Min({target, available})
  BY DEF Handover, target, available, has
<1>7. Handover(c, n) \in Nat
  BY <1>3, <1>4, <1>5, <1>6
<1>8. Handover(c, n) <= has \/ Handover(c, n) = 0
  BY <1>2, <1>4, <1>5, <1>6, <1>7
<1> QED BY <1>1, <1>7, <1>8 DEF has

\* What a document moves of an item is not negative, and no more than the store was
\* read to have where no two lines name the item.
LEMMA MovedBounded ==
    ASSUME NEW c, c.lines \in Asks, c.wanted \in Wanted, c.onHand \in [Item -> Int],
           NEW i \in Item
    PROVE  /\ MovedOf(c, i) \in Nat
           /\ \/ MovedOf(c, i) <= c.onHand[i]
              \/ MovedOf(c, i) = 0
              \/ \E m, n \in DOMAIN c.lines : m # n /\ c.lines[m].item = i /\ c.lines[n].item = i
<1> DEFINE L == {m \in DOMAIN c.lines : c.lines[m].item = i}
           f == [n \in L |-> Handover(c, n)]
<1>1. IsFiniteSet(L)
  <2>1. PICK k \in Nat : DOMAIN c.lines = 1 .. k
    BY LinesTyped
  <2> QED BY <2>1, FS_Interval, FS_Subset
<1>2. f \in [L -> Nat]
  BY HandoverBounded
<1>3. MovedOf(c, i) = SumFunction(f)
  BY DEF MovedOf
<1>4. f \in [L -> Int]
  BY <1>2
<1>5. ASSUME NEW n \in L, \A m \in L : m = n
      PROVE  MovedOf(c, i) <= c.onHand[i] \/ MovedOf(c, i) = 0
  <2>1. f[n] <= c.onHand[i] \/ f[n] = 0
    BY HandoverBounded
  <2>2. \A y \in L \ {n} : f[y] = 0
    BY <1>5
  <2> HIDE DEF f
  <2>3. SumFunction(f) = f[n]
    BY <1>1, <1>4, <2>2, SumOfOne
  <2> QED BY <1>3, <2>1, <2>3
<1>6. CASE L = {}
  <2>1. f \in [{} -> Int]
    BY <1>4, <1>6
  <2>2. SumFunction(f) = 0
    BY <2>1, SumEmpty
  <2> QED BY <1>3, <2>2
<1>7. CASE L # {}
  <2>1. MovedOf(c, i) \in Nat
    BY <1>1, <1>2, <1>3, SumNat
  <2>2. \/ \E n \in L : \A m \in L : m = n
        \/ \E m, n \in L : m # n
    BY <1>7
  <2> QED BY <1>5, <2>1, <2>2
<1> QED BY <1>6, <1>7

\* The two legs of an issue document cancel.
LEMMA IssueConserves ==
    ASSUME StockTyped, StockConserved, NEW c, NEW to \in Section,
           \A i \in Item : MovedOf(c, i) \in Nat,
           stock' = AfterIssue(c, to)
    PROVE  /\ StockTyped' /\ StockConserved'
           /\ \A i \in Item : stock'[Store][i] = stock[Store][i] - MovedOf(c, i)
<1>1. Store # to /\ IsFiniteSet(Section)
  BY RequestsAssumption
<1>2. /\ stock'[Store] = [i \in Item |-> stock[Store][i] - MovedOf(c, i)]
      /\ stock'[to] = [i \in Item |-> stock[to][i] + MovedOf(c, i)]
      /\ \A s \in (Section \cup {Store}) \ {to, Store} : stock'[s] = stock[s]
      /\ stock' = [s \in Section \cup {Store} |-> stock'[s]]
  BY <1>1 DEF StockTyped, AfterIssue
<1>3. \A i \in Item : stock[Store][i] \in Int /\ stock[to][i] \in Int
  BY DEF StockTyped
<1>4. StockTyped'
  <2>1. stock'[Store] \in [Item -> Int] /\ stock'[to] \in [Item -> Int]
    BY <1>2, <1>3
  <2>2. \A s \in (Section \cup {Store}) \ {to, Store} : stock'[s] \in [Item -> Int]
    BY <1>2 DEF StockTyped
  <2>3. \A s \in Section \cup {Store} : stock'[s] \in [Item -> Int]
    BY <2>1, <2>2
  <2> QED BY <1>2, <2>3 DEF StockTyped
<1>5. \A i \in Item : stock'[Store][i] = stock[Store][i] - MovedOf(c, i)
  BY <1>2
<1>6. ASSUME NEW i \in Item
      PROVE  OpeningStock[i] = stock'[Store][i] + SumFunction([s \in Section |-> stock'[s][i]])
  <2> DEFINE f == [s \in Section |-> stock[s][i]]
             v == stock[to][i] + MovedOf(c, i)
  <2>1. f \in [Section -> Int] /\ v \in Int /\ f[to] = stock[to][i]
    BY <1>3 DEF StockTyped
  <2>2. [s \in Section |-> stock'[s][i]] = [f EXCEPT ![to] = v]
    <3>1. stock'[to][i] = v
      BY <1>2
    <3>2. ASSUME NEW s \in Section, s # to PROVE stock'[s] = stock[s]
      BY <1>1, <1>2, <3>2, RequestsAssumption
    <3> QED BY <3>1, <3>2
  <2>3. OpeningStock[i] = stock[Store][i] + SumFunction(f)
    BY DEF StockConserved
  <2>4. stock[to][i] \in Int /\ MovedOf(c, i) \in Int /\ stock[Store][i] \in Int
    BY <1>3
  <2> HIDE DEF f
  <2>5. SumFunction([f EXCEPT ![to] = v]) = SumFunction(f) - f[to] + v
    BY <1>1, <2>1, SumUpdate
  <2>6. SumFunction(f) \in Int
    BY <1>1, <2>1, SumType
  <2>7. SumFunction([f EXCEPT ![to] = v]) = SumFunction(f) + MovedOf(c, i)
    BY <2>1, <2>4, <2>5, <2>6
  <2> HIDE DEF v
  <2>8. stock'[Store][i] + SumFunction([f EXCEPT ![to] = v]) = stock[Store][i] + SumFunction(f)
    BY <1>5, <2>4, <2>6, <2>7
  <2> QED BY <2>2, <2>3, <2>8
<1> QED BY <1>4, <1>5, <1>6 DEF StockConserved

\* Documents and the lines they were made from stay.
LEMMA TwiceStays ==
    ASSUME DocumentsOK, NEW d \in releases, NEW i, Twice(d, i),
           request'[d.request].lines = request[d.request].lines
    PROVE  Twice(d, i)'
BY DEF Twice

LEMMA WriteReleaseStock ==
    ASSUME StockInvariant, TablesOK', NEW w \in Worker, WriteRelease(w)
    PROVE  StockInvariant'
<1>1. PICK c : c = call[w]
  OBVIOUS
<1>2. PICK out : out = [n \in DOMAIN c.lines |-> Handover(c, n)]
  OBVIOUS
<1>3. PICK d : d = [no |-> Cardinality(releases) + 1, request |-> c.request, key |-> c.key,
                    out |-> out]
  OBVIOUS
<1>4. /\ c.pc = "write" /\ c.op = "release"
      /\ request' = [request EXCEPT ![c.request].status = "released",
                       ![c.request].issued = out, ![c.request].issuedBy = c.user]
      /\ stock' = AfterIssue(c, request[c.request].section)
      /\ releases' = releases \cup {d}
      /\ call' = [call EXCEPT ![w] = Idle]
      /\ UNCHANGED overlaps
  BY <1>1, <1>2, <1>3 DEF WriteRelease
<1>5. Runs(w) /\ c.request \in Request /\ request[c.request].status # "none"
  BY <1>1, <1>4 DEF Runs, StockInvariant, TablesOK, ReleasesKnow
<1>6. /\ c.lines = request[c.request].lines /\ c.lines \in Asks /\ c.wanted \in Wanted
      /\ c.onHand \in [Item -> Int] /\ request[c.request].section \in Section
      /\ overlaps = {} => c.onHand = stock[Store]
  BY <1>1, <1>4, <1>5 DEF StockInvariant, RowsOK, ReleasesKnow, ReleaseKnows
<1>7. \A i \in Item : MovedOf(c, i) \in Nat
  BY <1>6, MovedBounded
<1>8. /\ StockTyped' /\ StockConserved'
      /\ \A i \in Item : stock'[Store][i] = stock[Store][i] - MovedOf(c, i)
  BY <1>4, <1>6, <1>7, IssueConserves DEF StockInvariant
<1>9. \A r \in Request : /\ request'[r].lines = request[r].lines
                         /\ request'[r].section = request[r].section
                         /\ DOMAIN request'[r] = DOMAIN request[r]
                         /\ r # c.request => request'[r] = request[r]
                         /\ request[r].status # "none" => request'[r].status # "none"
  <2>1. DOMAIN request = Request
    BY DEF StockInvariant, TablesOK
  <2> QED BY <1>4, <2>1
<1>9a. request'[c.request].status # "none"
  BY <1>5, <1>9
<1>10. RowsOK'
  BY <1>5, <1>9 DEF StockInvariant, RowsOK
<1>11. \A v \in Worker : Runs(v)' => v # w /\ Runs(v) /\ call'[v] = call[v]
  <2>1. DOMAIN call = Worker
    BY DEF StockInvariant, TablesOK
  <2> QED BY <1>4, <2>1 DEF Runs, Idle
<1>12. OneAtATime'
  BY <1>4, <1>11 DEF StockInvariant, OneAtATime
<1>13. ReleasesKnow'
  <2> SUFFICES ASSUME NEW v \in Worker, Runs(v)'
               PROVE  /\ request'[call'[v].request].status # "none"
                      /\ call'[v].op = "release" => ReleaseKnows(call[v])'
    BY <1>11 DEF ReleasesKnow
  <2>1. PICK h : h = call[v]
    OBVIOUS
  <2>2. call'[v] = h /\ Runs(v) /\ v # w /\ h.request \in Request
    BY <1>11, <2>1 DEF StockInvariant, TablesOK, Runs
  <2>3. overlaps # {} /\ overlaps' # {}
    BY <1>4, <1>5, <2>2 DEF StockInvariant, OneAtATime
  <2>4. request[h.request].status # "none" /\ (h.op = "release" => ReleaseKnows(h))
    BY <2>1, <2>2 DEF StockInvariant, ReleasesKnow
  <2>5. h.op = "release" => ReleaseKnows(h)'
    BY <1>9, <2>2, <2>3, <2>4 DEF ReleaseKnows
  <2>6. request'[h.request].status # "none"
    BY <1>9, <2>2, <2>4
  <2> QED BY <2>1, <2>2, <2>5, <2>6
<1>14. d.request = c.request /\ d.out = out /\ DOMAIN d.out = DOMAIN c.lines
  BY <1>2, <1>3
<1>15. DocumentsOK'
  <2> SUFFICES ASSUME NEW e \in releases'
               PROVE  /\ request'[e.request].status # "none"
                      /\ DOMAIN e.out = DOMAIN request'[e.request].lines
    BY DEF DocumentsOK
  <2>1. CASE e \in releases
    <3>1. e.request \in Request
      BY <2>1 DEF StockInvariant, TablesOK
    <3> QED BY <1>9, <2>1, <3>1 DEF StockInvariant, DocumentsOK
  <2>2. CASE e = d
    BY <1>5, <1>6, <1>9, <1>9a, <1>14, <2>2
  <2> QED BY <1>4, <2>1, <2>2
<1>16. NotOverdrawn'
  <2> SUFFICES ASSUME overlaps' = {}, NEW i \in Item
               PROVE  stock'[Store][i] >= 0 \/ \E e \in releases' : Twice(e, i)'
    BY DEF NotOverdrawn
  <2>1. overlaps = {} /\ c.onHand[i] = stock[Store][i]
    BY <1>4, <1>6
  <2>2. CASE stock[Store][i] >= 0
    <3>1. MovedOf(c, i) \in Nat
      BY <1>7
    <3>2. stock[Store][i] \in Int /\ stock'[Store][i] = stock[Store][i] - MovedOf(c, i)
      BY <1>8 DEF StockInvariant, StockTyped
    <3>3. CASE MovedOf(c, i) <= c.onHand[i] \/ MovedOf(c, i) = 0
      BY <2>1, <2>2, <3>1, <3>2, <3>3
    <3>4. CASE \E m, n \in DOMAIN c.lines : m # n /\ c.lines[m].item = i /\ c.lines[n].item = i
      <4>1. Twice(d, i)'
        BY <1>5, <1>6, <1>9, <1>14, <3>4 DEF Twice
      <4> QED BY <1>4, <4>1
    <3> QED BY <1>6, <3>3, <3>4, MovedBounded
  <2>3. CASE \E e \in releases : Twice(e, i)
    <3>1. PICK e \in releases : Twice(e, i)
      BY <2>3
    <3>2. e.request \in Request
      BY DEF StockInvariant, TablesOK
    <3>3. Twice(e, i)'
      BY <1>9, <3>1, <3>2, TwiceStays DEF StockInvariant
    <3> QED BY <1>4, <3>3
  <2> QED BY <2>1, <2>2, <2>3 DEF StockInvariant, NotOverdrawn
<1> QED BY <1>8, <1>10, <1>12, <1>13, <1>15, <1>16 DEF StockInvariant

\* A step that moves no stock keeps the shelves right if it keeps what the handlers
\* and the documents rest on.
LEMMA StockUntouched ==
    ASSUME StockInvariant, TablesOK', RowsOK', ReleasesKnow', OneAtATime',
           UNCHANGED <<stock, releases>>,
           overlaps \subseteq overlaps',
           \A r \in Request : request[r].status # "none" =>
               /\ request'[r].status # "none" /\ request'[r].lines = request[r].lines
    PROVE  StockInvariant'
<1>1. StockTyped' /\ StockConserved'
  BY DEF StockInvariant, StockTyped, StockConserved
<1>2. \A d \in releases : /\ d.request \in Request
                          /\ request'[d.request].status # "none"
                          /\ request'[d.request].lines = request[d.request].lines
  BY DEF StockInvariant, TablesOK, DocumentsOK
<1>3. DocumentsOK'
  BY <1>2 DEF StockInvariant, DocumentsOK
<1>4. NotOverdrawn'
  <2>1. \A d \in releases, i \in Item : Twice(d, i) => Twice(d, i)'
    BY <1>2, TwiceStays DEF StockInvariant
  <2> QED BY <2>1 DEF StockInvariant, NotOverdrawn
<1> QED BY <1>1, <1>3, <1>4 DEF StockInvariant

\* A handler that starts while another is under way leaves a trace of it.
LEMMA StartStock ==
    ASSUME StockInvariant, TablesOK', NEW w \in Worker, NEW c, Start(w, c), c.pc # "idle",
           c.request \in Request, request[c.request].status # "none",
           c.op = "release" => ReleaseKnows(c),
           UNCHANGED <<request, stock, releases>>
    PROVE  StockInvariant'
<1>1. /\ call[w] = Idle /\ call' = [call EXCEPT ![w] = c] /\ DOMAIN call = Worker
      /\ overlaps' = overlaps \cup {{c.request, call[v].request} : v \in {u \in Worker : call[u] # Idle}}
  BY DEF Start, StockInvariant, TablesOK
<1>2. call'[w] = c /\ ~Runs(w) /\ \A v \in Worker \ {w} : call'[v] = call[v]
  BY <1>1 DEF Runs, Idle
<1>3. overlaps' = {} => overlaps = {} /\ \A v \in Worker : call[v] = Idle
  <2>1. ASSUME NEW v \in Worker, call[v] # Idle PROVE overlaps' # {}
    BY <1>1, <2>1
  <2> QED BY <1>1, <2>1
<1>4. OneAtATime'
  BY <1>2, <1>3 DEF OneAtATime, Runs, Idle
<1>5. ReleasesKnow'
  <2> SUFFICES ASSUME NEW v \in Worker, Runs(v)'
               PROVE  /\ request'[call'[v].request].status # "none"
                      /\ call'[v].op = "release" => ReleaseKnows(call[v])'
    BY DEF ReleasesKnow
  <2>1. CASE v = w
    BY <1>2, <1>3, <2>1 DEF ReleaseKnows
  <2>2. CASE v # w
    BY <1>2, <1>3, <2>2 DEF StockInvariant, ReleasesKnow, ReleaseKnows, Runs
  <2> QED BY <2>1, <2>2
<1>6. RowsOK'
  BY DEF StockInvariant, RowsOK
<1>7. overlaps \subseteq overlaps'
  BY <1>1
<1> QED BY <1>4, <1>5, <1>6, <1>7, StockUntouched

\* A handler that goes on or ends, and writes no more than a status.
LEMMA CallStock ==
    ASSUME StockInvariant, TablesOK', NEW w \in Worker, NEW c, Runs(w) \/ c.pc = "idle",
           call' = [call EXCEPT ![w] = c],
           c.pc # "idle" => /\ c.request = call[w].request
                            /\ c.op = "release" => ReleaseKnows(c),
           UNCHANGED <<stock, releases, overlaps>>,
           \A r \in Request : request'[r].lines = request[r].lines
                              /\ request'[r].section = request[r].section
                              /\ DOMAIN request'[r] = DOMAIN request[r]
                              /\ (request'[r].status # "none" <=> request[r].status # "none")
    PROVE  StockInvariant'
<1>1. call'[w] = c /\ \A v \in Worker \ {w} : call'[v] = call[v]
  BY DEF StockInvariant, TablesOK
<1>2. OneAtATime'
  BY <1>1 DEF StockInvariant, OneAtATime, Runs
<1>3. \A v \in Worker : Runs(v) => call[v].request \in Request
  BY DEF StockInvariant, TablesOK, Runs
<1>4. ReleasesKnow'
  <2> SUFFICES ASSUME NEW v \in Worker, Runs(v)'
               PROVE  /\ request'[call'[v].request].status # "none"
                      /\ call'[v].op = "release" => ReleaseKnows(call[v])'
    BY DEF ReleasesKnow
  <2>1. CASE v = w
    <3>1. c.request \in Request /\ request[c.request].status # "none" /\ c.pc # "idle"
      BY <1>1, <1>3, <2>1 DEF Runs, StockInvariant, ReleasesKnow
    <3> QED BY <1>1, <2>1, <3>1 DEF Runs, ReleaseKnows
  <2>2. CASE v # w
    <3>1. PICK h : h = call[v]
      OBVIOUS
    <3>2. call'[v] = h /\ Runs(v) /\ h.request \in Request
      BY <1>1, <1>3, <2>2, <3>1 DEF Runs
    <3>3. request[h.request].status # "none" /\ (h.op = "release" => ReleaseKnows(h))
      BY <3>1, <3>2 DEF StockInvariant, ReleasesKnow
    <3>4. h.op = "release" => ReleaseKnows(h)'
      BY <3>2, <3>3 DEF ReleaseKnows
    <3> QED BY <3>1, <3>2, <3>3, <3>4
  <2> QED BY <2>1, <2>2
<1>5. RowsOK'
  BY DEF StockInvariant, RowsOK
<1> QED BY <1>2, <1>4, <1>5, StockUntouched

LEMMA AskStock ==
    ASSUME StockInvariant, TablesOK', NEW u \in User, NEW r \in Request, NEW s \in Section,
           NEW lines \in Asks, Ask(u, r, s, lines)
    PROVE  StockInvariant'
<1>1. /\ request[r].status = "none" /\ UNCHANGED <<stock, releases, call, overlaps>>
      /\ request' = [request EXCEPT ![r].status = "requested", ![r].section = s, ![r].lines = lines]
  BY DEF Ask
<1>2. \A x \in Request \ {r} : request'[x] = request[x]
  BY <1>1 DEF StockInvariant, TablesOK
<1>3. RowsOK'
  <2>1. /\ request'[r].section = s /\ request'[r].lines = lines
        /\ DOMAIN request'[r] = DOMAIN request[r]
    BY <1>1 DEF StockInvariant, TablesOK, RowsOK
  <2> QED BY <1>1, <1>2, <2>1 DEF StockInvariant, RowsOK
<1>4. OneAtATime'
  BY <1>1 DEF StockInvariant, OneAtATime, Runs
<1>5. ReleasesKnow'
  <2> SUFFICES ASSUME NEW v \in Worker, Runs(v)'
               PROVE  /\ request'[call'[v].request].status # "none"
                      /\ call'[v].op = "release" => ReleaseKnows(call[v])'
    BY DEF ReleasesKnow
  <2>1. PICK h : h = call[v]
    OBVIOUS
  <2>2. call'[v] = h /\ Runs(v) /\ h.request \in Request
    BY <1>1, <2>1 DEF Runs, StockInvariant, TablesOK
  <2>3. request[h.request].status # "none" /\ (h.op = "release" => ReleaseKnows(h))
    BY <2>1, <2>2 DEF StockInvariant, ReleasesKnow
  <2>4. request'[h.request] = request[h.request]
    BY <1>1, <1>2, <2>2, <2>3
  <2> QED BY <1>1, <2>1, <2>2, <2>3, <2>4 DEF ReleaseKnows
<1> QED BY <1>1, <1>2, <1>3, <1>4, <1>5, StockUntouched

LEMMA StockStep ==
    ASSUME StockInvariant, [Next]_vars PROVE StockInvariant'
<1>1. TablesOK' /\ TablesOK
  BY TablesStep DEF StockInvariant
<1>2. CASE UNCHANGED vars
  BY <1>2 DEF vars, StockInvariant, TablesOK, RowsOK, ReleasesKnow, ReleaseKnows, OneAtATime,
              DocumentsOK, StockTyped, StockConserved, NotOverdrawn, Twice, Runs
<1>3. ASSUME NEW w \in Worker, NEW u \in User, NEW r \in Request, NEW k \in Key,
             NEW wanted \in Wanted, StartRelease(w, u, r, k, wanted)
      PROVE  StockInvariant'
  <2>1. PICK c : c = [pc |-> "replay", op |-> "release", user |-> u, request |-> r,
                      key |-> k, wanted |-> wanted]
    OBVIOUS
  <2>2. Start(w, c) /\ UNCHANGED <<request, stock, releases>> /\ request[r].status # "none"
    BY <1>3, <2>1 DEF StartRelease
  <2>3. c.pc = "replay" /\ c.wanted = wanted /\ c.request = r
    BY <2>1
  <2>4. ReleaseKnows(c)
    BY <2>3 DEF ReleaseKnows
  <2> QED BY <1>1, <2>2, <2>3, <2>4, StartStock
<1>4. ASSUME NEW w \in Worker, NEW u, NEW r \in Request,
             StartConfirm(w, u, r) \/ StartCancel(w, r)
      PROVE  StockInvariant'
  <2>1. PICK c : c = [pc |-> "write", op |-> "confirm", user |-> u, request |-> r]
    OBVIOUS
  <2>2. PICK e : e = [pc |-> "write", op |-> "cancel", user |-> Nobody, request |-> r]
    OBVIOUS
  <2>3. /\ Start(w, c) \/ Start(w, e)
        /\ UNCHANGED <<request, stock, releases>> /\ request[r].status # "none"
    BY <1>4, <2>1, <2>2 DEF StartConfirm, StartCancel, MayConfirm, MayCancel
  <2>4. /\ c.pc # "idle" /\ c.op # "release" /\ c.request = r
        /\ e.pc # "idle" /\ e.op # "release" /\ e.request = r
    BY <2>1, <2>2
  <2> QED BY <1>1, <2>3, <2>4, StartStock
<1>5. ASSUME NEW w \in Worker, End(w) PROVE StockInvariant'
  BY <1>1, <1>5, CallStock DEF End, Idle
<1>6. ASSUME NEW w \in Worker, FindReplay(w) PROVE StockInvariant'
  <2>1. /\ call[w].pc = "replay" /\ UNCHANGED <<request, stock, releases, overlaps>>
        /\ \/ call' = [call EXCEPT ![w] = Idle]
           \/ call' = [call EXCEPT ![w].pc = "read"]
    BY <1>6 DEF FindReplay
  <2>2. CASE call' = [call EXCEPT ![w] = Idle]
    BY <1>1, <2>1, <2>2, CallStock DEF Idle, Runs
  <2>3. CASE call' = [call EXCEPT ![w].pc = "read"]
    <3>1. PICK c : c = call[w]
      OBVIOUS
    <3>2. PICK h : h = [c EXCEPT !.pc = "read"]
      OBVIOUS
    <3>3. call' = [call EXCEPT ![w] = h] /\ Runs(w) /\ c.op = "release"
      BY <1>1, <2>1, <2>3, <3>1, <3>2 DEF Runs, TablesOK
    <3>4. ReleaseKnows(c)
      BY <3>1, <3>3 DEF StockInvariant, ReleasesKnow
    <3>5. h.request = c.request /\ h.wanted = c.wanted /\ h.pc \in {"read", c.pc}
      BY <3>2
    <3>6. ReleaseKnows(h)
      BY <2>1, <3>1, <3>4, <3>5 DEF ReleaseKnows
    <3> QED BY <1>1, <2>1, <3>1, <3>3, <3>5, <3>6, CallStock
  <2> QED BY <2>1, <2>2, <2>3
<1>7. ASSUME NEW w \in Worker, ReadRequest(w) PROVE StockInvariant'
  <2>1. PICK c : c = call[w]
    OBVIOUS
  <2>2. PICK h : h = [pc |-> "stock", op |-> c.op, user |-> c.user, request |-> c.request,
                      key |-> c.key, wanted |-> c.wanted, lines |-> request[c.request].lines]
    OBVIOUS
  <2>3. /\ c.pc = "read" /\ c.op = "release" /\ call' = [call EXCEPT ![w] = h]
        /\ UNCHANGED <<request, stock, releases, overlaps>>
    BY <1>7, <2>1, <2>2 DEF ReadRequest
  <2>4. Runs(w) /\ ReleaseKnows(c)
    BY <2>1, <2>3 DEF StockInvariant, ReleasesKnow, Runs
  <2>5. ReleaseKnows(h) /\ h.request = c.request
    BY <2>2, <2>4 DEF ReleaseKnows
  <2> QED BY <1>1, <2>1, <2>3, <2>4, <2>5, CallStock
<1>8. ASSUME NEW w \in Worker, ReadStock(w) PROVE StockInvariant'
  <2>1. PICK c : c = call[w]
    OBVIOUS
  <2>2. PICK h : h = [pc |-> "write", op |-> c.op, user |-> c.user, request |-> c.request,
                      key |-> c.key, wanted |-> c.wanted, lines |-> c.lines,
                      onHand |-> stock[Store]]
    OBVIOUS
  <2>3. /\ c.pc = "stock" /\ call' = [call EXCEPT ![w] = h]
        /\ UNCHANGED <<request, stock, releases, overlaps>>
    BY <1>8, <2>1, <2>2 DEF ReadStock
  <2>4. Runs(w) /\ ReleaseKnows(c)
    BY <1>1, <2>1, <2>3 DEF StockInvariant, ReleasesKnow, Runs, TablesOK
  <2>5. stock[Store] \in [Item -> Int]
    BY DEF StockInvariant, StockTyped
  <2>6. ReleaseKnows(h) /\ h.request = c.request
    BY <2>2, <2>3, <2>4, <2>5 DEF ReleaseKnows
  <2> QED BY <1>1, <2>1, <2>3, <2>4, <2>6, CallStock
<1>9. ASSUME NEW w \in Worker, WriteConfirm(w) \/ WriteCancel(w) PROVE StockInvariant'
  <2>1. PICK c : c = call[w]
    OBVIOUS
  <2>2. /\ c.pc = "write" /\ UNCHANGED <<stock, releases, overlaps>>
        /\ call' = [call EXCEPT ![w] = Idle]
        /\ \/ request' = [request EXCEPT ![c.request].status = "received",
                                        ![c.request].receivedBy = c.user]
           \/ request' = [request EXCEPT ![c.request].status = "cancelled"]
    BY <1>9, <2>1 DEF WriteConfirm, WriteCancel
  <2>3. Runs(w) /\ request[c.request].status # "none" /\ DOMAIN request = Request
    BY <1>1, <2>1, <2>2 DEF Runs, StockInvariant, ReleasesKnow, TablesOK
  <2>4. \A r \in Request : /\ request'[r].lines = request[r].lines
                           /\ request'[r].section = request[r].section
                           /\ DOMAIN request'[r] = DOMAIN request[r]
                           /\ (request'[r].status # "none" <=> request[r].status # "none")
    <3> SUFFICES ASSUME NEW r \in Request, r = c.request
                 PROVE  /\ request'[r].lines = request[r].lines
                        /\ request'[r].section = request[r].section
                        /\ DOMAIN request'[r] = DOMAIN request[r]
                        /\ request'[r].status # "none"
      BY <2>2, <2>3
    <3>1. PICK row : row = request[r]
      OBVIOUS
    <3>2. "status" \in DOMAIN row
      BY <3>1 DEF StockInvariant, RowsOK
    <3>3. CASE request'[r] = [[row EXCEPT !.status = "received"] EXCEPT !.receivedBy = c.user]
      <4>1. request'[r].status = "received"
        BY <3>2, <3>3
      <4> QED BY <3>1, <3>3, <4>1
    <3>4. CASE request'[r] = [row EXCEPT !.status = "cancelled"]
      BY <3>1, <3>2, <3>4
    <3> QED BY <2>2, <2>3, <3>1, <3>3, <3>4
  <2> QED BY <1>1, <2>1, <2>2, <2>3, <2>4, CallStock DEF Idle
<1>10. CASE \E u \in User, r \in Request, x \in Section, lines \in Asks : Ask(u, r, x, lines)
  BY <1>1, <1>10, AskStock
<1>11. ASSUME NEW w \in Worker, WriteRelease(w) PROVE StockInvariant'
  BY <1>1, <1>11, WriteReleaseStock
<1>12. ASSUME NEW w \in Worker, Refuse(w) \/ Drop(w) PROVE StockInvariant'
  BY <1>5, <1>12 DEF Refuse, Drop
<1> QED BY <1>2, <1>3, <1>4, <1>6, <1>7, <1>8, <1>9, <1>10, <1>11, <1>12 DEF Next

LEMMA StockBegins ==
    ASSUME Init PROVE StockInvariant
<1>1. TablesOK
  BY FlowBegins DEF LifeInvariant
<1>2. /\ stock = [s \in Section \cup {Store} |-> IF s = Store THEN OpeningStock ELSE [i \in Item |-> 0]]
      /\ releases = {} /\ \A w \in Worker : call[w] = Idle
  BY DEF Init
<1>3. StockTyped
  <2>1. OpeningStock \in [Item -> Int] /\ [i \in Item |-> 0] \in [Item -> Int]
    BY RequestsAssumption
  <2> QED BY <1>2, <2>1 DEF StockTyped
<1>4. StockConserved
  <2> SUFFICES ASSUME NEW i \in Item
               PROVE  OpeningStock[i] = stock[Store][i] + SumFunction([s \in Section |-> stock[s][i]])
    BY DEF StockConserved
  <2>1. stock[Store][i] = OpeningStock[i] /\ OpeningStock[i] \in Int
    BY <1>2, RequestsAssumption
  <2>2. \A s \in Section : stock[s][i] = 0
    BY <1>2, RequestsAssumption
  <2>3. [s \in Section |-> stock[s][i]] = [s \in Section |-> 0]
    BY <2>2
  <2>4. SumFunction([s \in Section |-> 0]) = 0
    BY SumZero, RequestsAssumption
  <2> QED BY <2>1, <2>3, <2>4
<1>5. NotOverdrawn
  BY <1>2, RequestsAssumption DEF NotOverdrawn
<1>6. RowsOK
  BY DEF Init, RowsOK
<1> QED BY <1>1, <1>2, <1>3, <1>4, <1>5, <1>6
        DEF StockInvariant, ReleasesKnow, OneAtATime, DocumentsOK, Runs, Idle

\* Through every race nothing is made or lost between the store and the sections; and
\* as long as no two handlers overlapped, the store is overdrawn only in an item that
\* one document named on two lines.
THEOREM StoreOverdrawnOnlyTogether == Spec => []OverdrawnOnlyTogether
<1>1. Init => StockInvariant
  BY StockBegins
<1>2. StockInvariant /\ [Next]_vars => StockInvariant'
  BY StockStep
<1>3. StockInvariant => OverdrawnOnlyTogether
  BY DEF StockInvariant, OverdrawnOnlyTogether, NotOverdrawn
<1> QED BY <1>1, <1>2, <1>3, PTL DEF Spec

-----------------------------------------------------------------------------
(* Purchasing: what lines hold and take. *)

LEMMA MaxOfTwo ==
    ASSUME NEW x \in Int, NEW y \in Int
    PROVE  Max({x, y}) \in Int /\ Max({x, y}) = (IF x >= y THEN x ELSE y)
<1>1. \E m \in {x, y} : \A n \in {x, y} : m >= n
  OBVIOUS
<1> QED BY <1>1 DEF Max

LEMMA MinOfTwo ==
    ASSUME NEW x \in Int, NEW y \in Int
    PROVE  Min({x, y}) \in Int /\ Min({x, y}) = (IF x <= y THEN x ELSE y)
<1>1. \E m \in {x, y} : \A n \in {x, y} : m <= n
  OBVIOUS
<1> QED BY <1>1 DEF Min

\* Two numbers that are not zero have a product that is not.
LEMMA ProductPositive ==
    ASSUME NEW a \in Nat \ {0}, NEW b \in Nat \ {0}
    PROVE  a * b \in Nat \ {0}
OBVIOUS

\* A finite set of numbers that is not empty has a largest.
LEMMA Largest ==
    ASSUME NEW N \in SUBSET Nat, NEW k \in Nat, N \subseteq 1 .. k, N # {}
    PROVE  Max(N) \in N /\ \A n \in N : n <= Max(N)
<1> DEFINE From == {k - n : n \in N}
<1>1. From \in SUBSET Nat /\ From # {}
  <2>1. \A n \in N : n \in Nat /\ n <= k /\ k - n \in Nat
    OBVIOUS
  <2> QED BY <2>1
<1>2. PICK m \in From : \A n \in From : m <= n
  BY <1>1, Smallest
<1>3. PICK n \in N : m = k - n
  BY <1>2
<1>4. \A j \in N : n >= j
  <2> TAKE j \in N
  <2>1. m <= k - j
    BY <1>2
  <2> QED BY <1>3, <2>1
<1> QED BY <1>4 DEF Max

\* Lines, of an order or of a delivery.
Line(line) == line.pack \in Pack /\ line.qty \in Nat \ {0}
Lines(lines) == \E k \in Nat : DOMAIN lines = 1 .. k /\ \A n \in 1 .. k : Line(lines[n])

LEMMA OrderLines == \A lines \in Seq(OrderLine) : Lines(lines)
<1> SUFFICES ASSUME NEW lines \in Seq(OrderLine) PROVE Lines(lines)
  OBVIOUS
<1>1. Len(lines) \in Nat /\ DOMAIN lines = 1 .. Len(lines)
  OBVIOUS
<1>2. \A n \in 1 .. Len(lines) : lines[n] \in OrderLine
  OBVIOUS
<1>3. \A n \in 1 .. Len(lines) : Line(lines[n])
  BY <1>2 DEF Line, OrderLine
<1> QED BY <1>1, <1>3 DEF Lines

LEMMA DeliveryLines == \A lines \in Seq(DeliveryLine) : Lines(lines)
<1> SUFFICES ASSUME NEW lines \in Seq(DeliveryLine) PROVE Lines(lines)
  OBVIOUS
<1>1. Len(lines) \in Nat /\ DOMAIN lines = 1 .. Len(lines)
  OBVIOUS
<1>2. \A n \in 1 .. Len(lines) : lines[n] \in DeliveryLine
  OBVIOUS
<1>3. \A n \in 1 .. Len(lines) : Line(lines[n])
  BY <1>2 DEF Line, DeliveryLine
<1> QED BY <1>1, <1>3 DEF Lines

LEMMA BaseNat ==
    ASSUME NEW lines, Lines(lines), NEW n \in DOMAIN lines
    PROVE  Base(lines[n]) \in Nat \ {0}
<1>1. lines[n].qty \in Nat \ {0} /\ Size[lines[n].pack] \in Nat \ {0}
  BY PurchasingAssumption DEF Lines, Line
<1> QED BY <1>1, ProductPositive DEF Base

LEMMA LinesFinite ==
    ASSUME NEW lines, Lines(lines)
    PROVE  /\ DOMAIN lines \subseteq Nat /\ IsFiniteSet(DOMAIN lines)
           /\ \A i : IsFiniteSet(LinesOf(i, lines)) /\ LinesOf(i, lines) \subseteq DOMAIN lines
<1>1. DOMAIN lines \subseteq Nat /\ IsFiniteSet(DOMAIN lines)
  BY FS_Interval DEF Lines
<1>2. \A i : LinesOf(i, lines) \subseteq DOMAIN lines
  BY DEF LinesOf
<1> QED BY <1>1, <1>2, FS_Subset

LEMMA TotalNat ==
    ASSUME NEW i, NEW lines, Lines(lines)
    PROVE  TotalOf(i, lines) \in Nat
<1> DEFINE L == LinesOf(i, lines)
           f == [n \in L |-> Base(lines[n])]
<1>1. IsFiniteSet(L) /\ L \subseteq DOMAIN lines
  BY LinesFinite
<1>2. f \in [L -> Nat]
  BY <1>1, BaseNat
<1> HIDE DEF f
<1>3. SumFunction(f) \in Nat
  BY <1>1, <1>2, SumNat
<1> QED BY <1>3 DEF f, TotalOf

\* The last line of an item.
LEMMA LastOfItem ==
    ASSUME NEW lines, Lines(lines), NEW n \in DOMAIN lines
    PROVE  /\ n \in SameItem(lines, n)
           /\ Max(SameItem(lines, n)) \in SameItem(lines, n)
           /\ \A m \in SameItem(lines, n) : m <= Max(SameItem(lines, n))
<1>1. PICK k \in Nat : DOMAIN lines = 1 .. k
  BY DEF Lines
<1>2. n \in SameItem(lines, n) /\ SameItem(lines, n) \subseteq 1 .. k
  BY <1>1 DEF SameItem, LinesOf
<1>3. SameItem(lines, n) \in SUBSET Nat /\ SameItem(lines, n) # {}
  BY <1>2
<1> QED BY <1>1, <1>2, <1>3, Largest

-----------------------------------------------------------------------------
\* What the numbers below k have in a function.
Below(f, k) == SumFunction([m \in {m \in DOMAIN f : m < k} |-> f[m]])

LEMMA BelowNat ==
    ASSUME NEW L \in SUBSET Nat, IsFiniteSet(L), NEW f \in [L -> Nat], NEW k \in Nat
    PROVE  Below(f, k) \in Nat
<1> DEFINE P == {m \in L : m < k}
           g == [m \in P |-> f[m]]
<1>1. IsFiniteSet(P) /\ g \in [P -> Nat]
  BY FS_Subset
<1> HIDE DEF g
<1>2. SumFunction(g) \in Nat
  BY <1>1, SumNat
<1> QED BY <1>2 DEF g, Below

LEMMA BelowZero ==
    ASSUME NEW L \in SUBSET Nat, NEW f \in [L -> Nat]
    PROVE  Below(f, 0) = 0
<1> DEFINE P == {m \in L : m < 0}
           g == [m \in P |-> f[m]]
<1>1. g \in [{} -> Int]
  <2>1. P = {}
    <3>1. \A m \in L : m \in Nat /\ ~(m < 0)
      OBVIOUS
    <3> QED BY <3>1
  <2> QED BY <2>1
<1>2. Below(f, 0) = SumFunction(g)
  BY DEF Below
<1> HIDE DEF g
<1> QED BY <1>1, <1>2, SumEmpty

LEMMA BelowNext ==
    ASSUME NEW L \in SUBSET Nat, IsFiniteSet(L), NEW f \in [L -> Nat], NEW k \in Nat
    PROVE  Below(f, k + 1) = IF k \in L THEN f[k] + Below(f, k) ELSE Below(f, k)
<1> DEFINE P == {m \in L : m < k}
           Q == {m \in L : m < k + 1}
           g == [m \in P |-> f[m]]
           h == [m \in Q |-> f[m]]
<1>1. CASE k \notin L
  <2>1. \A m \in L : m < k <=> m < k + 1
    <3>1. \A m \in L : m \in Nat /\ m # k
      BY <1>1
    <3> QED BY <3>1
  <2>2. P = Q
    BY <2>1
  <2> QED BY <1>1, <2>2 DEF Below
<1>2. CASE k \in L
  <2>1. IsFiniteSet(Q) /\ h \in [Q -> Int] /\ k \in Q /\ h[k] = f[k]
    <3>1. k \in Q /\ Q \subseteq L
      BY <1>2
    <3>2. IsFiniteSet(Q)
      BY <3>1, FS_Subset
    <3>3. h \in [Q -> Int]
      <4>1. \A m \in Q : f[m] \in Int
        BY <3>1
      <4> HIDE DEF Q
      <4> QED BY <4>1
    <3> QED BY <3>1, <3>2, <3>3
  <2>2. Q \ {k} = P
    <3>1. \A m \in L : m < k <=> m < k + 1 /\ m # k
      <4>1. \A m \in L : m \in Nat
        OBVIOUS
      <4> QED BY <4>1
    <3> QED BY <3>1
  <2>3. [m \in Q \ {k} |-> h[m]] = g
    BY <2>2
  <2>4. SumFunction(h) = h[k] + SumFunction([m \in Q \ {k} |-> h[m]])
    <3>1. IsFiniteSet(Q) /\ h \in [Q -> Int] /\ k \in Q
      BY <2>1
    <3> HIDE DEF g, h, P, Q
    <3>2. PICK S, e : S = Q /\ e = h
      OBVIOUS
    <3>3. SumFunction(e) = e[k] + SumFunction([m \in S \ {k} |-> e[m]])
      <4>1. IsFiniteSet(S) /\ e \in [S -> Int] /\ k \in S
        BY <3>1, <3>2
      <4> QED BY ONLY SumTake, <4>1, ZenonT(30)
    <3> QED BY <3>2, <3>3
  <2>5. SumFunction(h) = f[k] + SumFunction(g)
    <3>1. h[k] = f[k]
      BY <2>1
    <3> HIDE DEF g, h, P, Q
    <3> QED BY <2>3, <2>4, <3>1
  <2> QED BY <1>2, <2>5 DEF Below
<1> QED BY <1>1, <1>2

LEMMA BelowGrows ==
    ASSUME NEW L \in SUBSET Nat, IsFiniteSet(L), NEW f \in [L -> Nat], NEW j \in Nat, NEW k \in Nat, j < k
    PROVE  Below(f, j + 1) <= Below(f, k)
<1> DEFINE G == {n \in Nat : Below(f, j + 1) <= Below(f, j + 1 + n)}
<1>1. 0 \in G
  BY BelowNat
<1>2. ASSUME NEW n \in Nat, n \in G PROVE n + 1 \in G
  <2>1. PICK c \in Nat : c = j + 1 + n
    OBVIOUS
  <2>2. Below(f, c + 1) = IF c \in L THEN f[c] + Below(f, c) ELSE Below(f, c)
    BY BelowNext
  <2>3. Below(f, c) \in Nat /\ Below(f, j + 1) \in Nat /\ (c \in L => f[c] \in Nat)
    BY BelowNat
  <2>4. Below(f, j + 1) <= Below(f, c)
    BY <1>2, <2>1
  <2>5. Below(f, j + 1) <= Below(f, c + 1)
    BY <2>2, <2>3, <2>4
  <2> QED BY <2>1, <2>5
<1>3. Nat \subseteq G
  <2> HIDE DEF G
  <2> QED BY <1>1, <1>2, NatSetInduction
<1>4. PICK n \in Nat : k = j + 1 + n
  <2>1. k - (j + 1) \in Nat /\ k = j + 1 + (k - (j + 1))
    OBVIOUS
  <2> QED BY <2>1
<1> QED BY <1>3, <1>4

\* What arrives runs down the lines: each takes what it wants of what is left, and
\* the last one the rest.  Nothing is lost on the way.
LEMMA Waterfall ==
    ASSUME NEW L \in SUBSET Nat, IsFiniteSet(L), NEW last \in L, \A n \in L : n <= last,
           NEW T \in Nat, NEW out \in [L -> Nat], NEW take \in [L -> Nat],
           \A n \in L : LET a == IF T - Below(out, n) >= 0 THEN T - Below(out, n) ELSE 0
                        IN take[n] = IF n = last THEN a ELSE IF a <= out[n] THEN a ELSE out[n]
    PROVE  SumFunction(take) = T
<1> DEFINE Least(x, y) == IF x <= y THEN x ELSE y
           G == {k \in Nat : k <= last => Below(take, k) = Least(T, Below(out, k))}
<1>1. 0 \in G
  BY BelowZero
<1>2. ASSUME NEW k \in Nat, k \in G PROVE k + 1 \in G
  <2>1. CASE k + 1 > last
    BY <2>1
  <2>2. CASE k + 1 <= last
    <3>1. Below(take, k) = Least(T, Below(out, k)) /\ k < last
      BY <1>2, <2>2
    <3>2. Below(out, k) \in Nat /\ Below(take, k) \in Nat
      BY BelowNat
    <3>3. CASE k \notin L
      <4>1. Below(take, k + 1) = Below(take, k) /\ Below(out, k + 1) = Below(out, k)
        BY <3>3, BelowNext
      <4> QED BY <3>1, <4>1
    <3>4. CASE k \in L
      <4>1. Below(take, k + 1) = take[k] + Below(take, k) /\ Below(out, k + 1) = out[k] + Below(out, k)
        BY <3>4, BelowNext
      <4>2. out[k] \in Nat /\ take[k] \in Nat
        BY <3>4
      <4>3. take[k] = LET a == IF T - Below(out, k) >= 0 THEN T - Below(out, k) ELSE 0
                      IN IF a <= out[k] THEN a ELSE out[k]
        BY <3>1, <3>4
      <4>4. Below(take, k + 1) = Least(T, Below(out, k + 1))
        BY <3>1, <3>2, <4>1, <4>2, <4>3
      <4> QED BY <4>4
    <3> QED BY <3>3, <3>4
  <2> QED BY <2>1, <2>2
<1>3. Nat \subseteq G
  <2> HIDE DEF G
  <2> QED BY <1>1, <1>2, NatSetInduction
<1>4. Below(take, last) = Least(T, Below(out, last))
  BY <1>3
<1>5. Below(out, last) \in Nat /\ Below(take, last) \in Nat
  BY BelowNat
<1>6. take[last] = IF T - Below(out, last) >= 0 THEN T - Below(out, last) ELSE 0
  OBVIOUS
<1>7. Below(take, last + 1) = take[last] + Below(take, last)
  BY BelowNext
<1>8. Below(take, last + 1) = SumFunction(take)
  <2>1. {m \in L : m < last + 1} = L
    <3>1. \A m \in L : m \in Nat /\ last \in Nat /\ m < last + 1
      OBVIOUS
    <3> QED BY <3>1
  <2>2. [m \in {m \in L : m < last + 1} |-> take[m]] = take
    BY <2>1
  <2> QED BY <2>2 DEF Below
<1> QED BY <1>4, <1>5, <1>6, <1>7, <1>8

LEMMA OutstandingIs ==
    ASSUME NEW lines, Lines(lines), NEW received \in [DOMAIN lines -> Nat], NEW n \in DOMAIN lines
    PROVE  /\ Outstanding(lines, received, n) \in Nat
           /\ Outstanding(lines, received, n) =
                IF received[n] >= Base(lines[n]) THEN 0 ELSE Base(lines[n]) - received[n]
<1>1. Base(lines[n]) \in Nat /\ received[n] \in Nat
  BY BaseNat
<1>2. PICK x \in Int : x = Base(lines[n]) - received[n]
  BY <1>1
<1>3. Max({0, x}) = (IF 0 >= x THEN 0 ELSE x)
  BY <1>2, MaxOfTwo
<1> QED BY <1>1, <1>2, <1>3 DEF Outstanding

\* What a line takes, among the lines of its item.
LEMMA TakeIs ==
    ASSUME NEW lines, Lines(lines), NEW delivery, Lines(delivery),
           NEW received \in [DOMAIN lines -> Nat], NEW i, NEW out,
           out = [m \in LinesOf(i, lines) |-> Outstanding(lines, received, m)],
           NEW n \in LinesOf(i, lines)
    PROVE  LET T == TotalOf(i, delivery)
               a == IF T - Below(out, n) >= 0 THEN T - Below(out, n) ELSE 0
           IN /\ out \in [LinesOf(i, lines) -> Nat] /\ T \in Nat /\ Below(out, n) \in Nat
              /\ Take(lines, received, delivery, n) =
                   IF n = Max(LinesOf(i, lines)) THEN a ELSE IF a <= out[n] THEN a ELSE out[n]
<1> DEFINE L == LinesOf(i, lines)
           earlier == {m \in L : m < n}
           less == TotalOf(i, delivery) - Below(out, n)
<1>1. /\ SameItem(lines, n) = L /\ ItemOf[lines[n].pack] = i /\ n \in DOMAIN lines
      /\ L \subseteq DOMAIN lines
  BY DEF SameItem, LinesOf
<1>2. L \in SUBSET Nat /\ IsFiniteSet(L)
  BY LinesFinite
<1>3. out \in [L -> Nat]
  BY <1>1, OutstandingIs
<1>4. TotalOf(i, delivery) \in Nat
  BY TotalNat
<1>5. Below(out, n) \in Nat
  BY <1>2, <1>3, BelowNat
<1>6. SumFunction([m \in earlier |-> Outstanding(lines, received, m)]) = Below(out, n)
  <2>1. DOMAIN out = L
    BY <1>3
  <2>2. [m \in earlier |-> Outstanding(lines, received, m)] = [m \in earlier |-> out[m]]
    OBVIOUS
  <2> QED BY <2>1, <2>2 DEF Below
<1>7. PICK a : a = IF less >= 0 THEN less ELSE 0
  OBVIOUS
<1>8. Max({0, less}) = a /\ a \in Int
  <2>1. PICK x \in Int : x = less
    BY <1>4, <1>5
  <2>2. Max({0, x}) = (IF 0 >= x THEN 0 ELSE x)
    BY MaxOfTwo
  <2> QED BY <1>7, <2>1, <2>2
<1>9. Take(lines, received, delivery, n) =
        IF n = Max(L) THEN a ELSE Min({a, Outstanding(lines, received, n)})
  BY <1>1, <1>6, <1>8 DEF Take
<1>10. out[n] = Outstanding(lines, received, n) /\ out[n] \in Int
  BY <1>3
<1>11. Min({a, out[n]}) = (IF a <= out[n] THEN a ELSE out[n])
  BY <1>8, <1>10, MinOfTwo
<1> QED BY <1>3, <1>4, <1>5, <1>7, <1>9, <1>10, <1>11

\* Each line takes something or nothing ...
LEMMA TakeNat ==
    ASSUME NEW lines, Lines(lines), NEW delivery, Lines(delivery),
           NEW received \in [DOMAIN lines -> Nat], NEW n \in DOMAIN lines
    PROVE  Take(lines, received, delivery, n) \in Nat
<1>1. PICK i : i = ItemOf[lines[n].pack]
  OBVIOUS
<1>2. PICK out : out = [m \in LinesOf(i, lines) |-> Outstanding(lines, received, m)]
  OBVIOUS
<1>3. n \in LinesOf(i, lines)
  BY <1>1 DEF LinesOf
<1>4. PICK a : a = IF TotalOf(i, delivery) - Below(out, n) >= 0 THEN TotalOf(i, delivery) - Below(out, n) ELSE 0
  OBVIOUS
<1>5. /\ out \in [LinesOf(i, lines) -> Nat] /\ TotalOf(i, delivery) \in Nat /\ Below(out, n) \in Nat
      /\ Take(lines, received, delivery, n) =
                   IF n = Max(LinesOf(i, lines)) THEN a ELSE IF a <= out[n] THEN a ELSE out[n]
  BY <1>2, <1>3, <1>4, TakeIs
<1> QED BY <1>3, <1>4, <1>5

\* Together the lines of an item take what the delivery brings of it, in stock units:
\* nothing of it is lost on the way and nothing counted twice ...
THEOREM TakesAll ==
    ASSUME NEW lines, Lines(lines), NEW delivery, Lines(delivery),
           NEW received \in [DOMAIN lines -> Nat], NEW i, LinesOf(i, lines) # {}
    PROVE  SumFunction([n \in LinesOf(i, lines) |-> Take(lines, received, delivery, n)])
             = TotalOf(i, delivery)
<1> DEFINE L == LinesOf(i, lines)
           take == [n \in L |-> Take(lines, received, delivery, n)]
           T == TotalOf(i, delivery)
<1>1. PICK out : out = [m \in LinesOf(i, lines) |-> Outstanding(lines, received, m)]
  OBVIOUS
<1>2. L \in SUBSET Nat /\ IsFiniteSet(L) /\ L \subseteq DOMAIN lines
  BY LinesFinite
<1>3. PICK last : last = Max(L)
  OBVIOUS
<1>4. last \in L /\ \A n \in L : n <= last
  <2>1. PICK n : n \in L
    OBVIOUS
  <2>2. SameItem(lines, n) = L /\ n \in DOMAIN lines
    BY <2>1 DEF SameItem, LinesOf
  <2> QED BY <1>3, <2>2, LastOfItem
<1>5. take \in [L -> Nat]
  BY <1>2, TakeNat
<1>6. out \in [L -> Nat] /\ T \in Nat
  BY <1>1, <1>4, TakeIs
<1>7. \A n \in L : LET a == IF T - Below(out, n) >= 0 THEN T - Below(out, n) ELSE 0
                   IN take[n] = IF n = last THEN a ELSE IF a <= out[n] THEN a ELSE out[n]
  BY <1>1, <1>3, TakeIs
<1> HIDE DEF L, take, T
<1>8. SumFunction(take) = T
  BY <1>2, <1>4, <1>5, <1>6, <1>7, Waterfall
<1> QED BY <1>8 DEF L, take, T

\* ... and a line gets more than it wants only as the last, and when those before
\* it have what they want.
LEMMA SurplusComesLast ==
    ASSUME NEW lines, Lines(lines), NEW delivery, Lines(delivery),
           NEW received \in [DOMAIN lines -> Nat], NEW n \in DOMAIN lines,
           Take(lines, received, delivery, n) > Outstanding(lines, received, n)
    PROVE  /\ n = Max(SameItem(lines, n))
           /\ \A m \in SameItem(lines, n) :
                Take(lines, received, delivery, m) >= Outstanding(lines, received, m)
<1>1. PICK i : i = ItemOf[lines[n].pack]
  OBVIOUS
<1>2. PICK L : L = LinesOf(i, lines)
  OBVIOUS
<1>3. PICK out : out = [m \in LinesOf(i, lines) |-> Outstanding(lines, received, m)]
  OBVIOUS
<1>4. /\ n \in L /\ SameItem(lines, n) = L /\ L \in SUBSET Nat /\ IsFiniteSet(L) /\ L \subseteq DOMAIN lines
  BY <1>1, <1>2, LinesFinite DEF SameItem, LinesOf
<1>5. PICK T : T = TotalOf(i, delivery)
  OBVIOUS
<1>6. out \in [L -> Nat] /\ T \in Nat
  BY <1>2, <1>3, <1>4, <1>5, TakeIs
<1>7. ASSUME NEW m \in L
      PROVE  LET a == IF T - Below(out, m) >= 0 THEN T - Below(out, m) ELSE 0
             IN /\ Take(lines, received, delivery, m) =
                     IF m = Max(L) THEN a ELSE IF a <= out[m] THEN a ELSE out[m]
                /\ Below(out, m) \in Nat
  BY <1>2, <1>3, <1>5, TakeIs
<1>8. \A m \in L : out[m] = Outstanding(lines, received, m) /\ out[m] \in Nat
  BY <1>2, <1>3, <1>6
<1>9. n = Max(L)
  BY <1>4, <1>6, <1>7, <1>8
<1>10. T - Below(out, n) > 0
  BY <1>4, <1>6, <1>7, <1>8, <1>9
<1>11. ASSUME NEW m \in L, m # n
       PROVE  Below(out, m) + out[m] <= Below(out, n)
  <2>1. m < n
    <3>1. m <= n /\ m \in Nat /\ n \in Nat
      BY <1>4, <1>9, LastOfItem
    <3> QED BY <1>11, <3>1
  <2>2. Below(out, m + 1) = out[m] + Below(out, m)
    BY <1>4, <1>6, BelowNext
  <2>3. Below(out, m + 1) <= Below(out, n)
    BY <1>4, <1>6, <2>1, BelowGrows
  <2> QED BY <1>6, <1>7, <1>8, <2>2, <2>3
<1>12. ASSUME NEW m \in L PROVE Take(lines, received, delivery, m) >= out[m]
  <2>1. CASE m = n
    <3>1. /\ Take(lines, received, delivery, n) \in Nat /\ out[n] \in Nat
          /\ Take(lines, received, delivery, n) > out[n]
      BY <1>4, <1>8, TakeNat
    <3> QED BY <2>1, <3>1
  <2>2. CASE m # n
    <3>1. m # Max(L)
      BY <1>9, <2>2
    <3>2. Below(out, m) + out[m] <= Below(out, n) /\ Below(out, m) \in Nat /\ Below(out, n) \in Nat
      BY <1>4, <1>7, <1>11, <2>2
    <3>3. PICK a : a = IF T - Below(out, m) >= 0 THEN T - Below(out, m) ELSE 0
      OBVIOUS
    <3>4. Take(lines, received, delivery, m) = IF a <= out[m] THEN a ELSE out[m]
      BY <1>7, <3>1, <3>3
    <3> QED BY <1>6, <1>8, <1>10, <3>2, <3>3, <3>4
  <2> QED BY <2>1, <2>2
<1> QED BY <1>4, <1>8, <1>9, <1>12

-----------------------------------------------------------------------------
\* A line has more than was asked for only as the last of its item, when all of them
\* have what was asked for.
SurplusLast(lines, received) ==
    \A n \in DOMAIN lines : received[n] > Base(lines[n]) =>
        /\ n = Max(SameItem(lines, n))
        /\ \A m \in SameItem(lines, n) : received[m] >= Base(lines[m])

\* What a delivery leaves on the lines.
LEMMA FillsAre ==
    ASSUME NEW lines, Lines(lines), NEW delivery, Lines(delivery),
           NEW received \in [DOMAIN lines -> Nat], NEW fills, fills = Fills(lines, received, delivery),
           NEW new, new = WithFills(received, fills)
    PROVE  /\ DOMAIN fills \subseteq DOMAIN lines /\ fills \in [DOMAIN fills -> Nat]
           /\ new \in [DOMAIN lines -> Nat]
           /\ \A n \in DOMAIN lines : new[n] = received[n] + Take(lines, received, delivery, n)
<1> DEFINE take(n) == Take(lines, received, delivery, n)
<1>1. \A n \in DOMAIN lines : take(n) \in Nat /\ received[n] \in Nat
  BY TakeNat
<1> HIDE DEF take
<1>2. fills = [n \in {m \in DOMAIN lines : take(m) > 0} |-> received[n] + take(n)]
  BY DEF Fills, take
<1>3. DOMAIN fills \subseteq DOMAIN lines /\ \A n \in DOMAIN fills : fills[n] = received[n] + take(n)
  BY <1>2
<1>4. \A n \in DOMAIN fills : fills[n] \in Nat
  BY <1>1, <1>3
<1>5. fills \in [DOMAIN fills -> Nat]
  BY <1>2, <1>4
<1>6. \A n \in DOMAIN lines : n \in DOMAIN fills \/ take(n) = 0
  BY <1>1, <1>2
<1>7. DOMAIN new = DOMAIN lines /\ \A n \in DOMAIN lines : new[n] = IF n \in DOMAIN fills THEN fills[n] ELSE received[n]
  BY DEF WithFills
<1>8. \A n \in DOMAIN lines : new[n] = received[n] + take(n)
  BY <1>1, <1>3, <1>6, <1>7
<1>9. new \in [DOMAIN lines -> Nat]
  <2>1. \A n \in DOMAIN lines : new[n] \in Nat
    BY <1>1, <1>8
  <2> QED BY <1>7, <2>1 DEF WithFills
<1> QED BY <1>3, <1>5, <1>8, <1>9 DEF take

LEMMA SurplusStaysLast ==
    ASSUME NEW lines, Lines(lines), NEW delivery, Lines(delivery),
           NEW received \in [DOMAIN lines -> Nat], SurplusLast(lines, received),
           NEW new, new = WithFills(received, Fills(lines, received, delivery))
    PROVE  SurplusLast(lines, new)
<1>1. SUFFICES ASSUME NEW n \in DOMAIN lines, new[n] > Base(lines[n])
               PROVE  /\ n = Max(SameItem(lines, n))
                      /\ \A m \in SameItem(lines, n) : new[m] >= Base(lines[m])
  BY DEF SurplusLast
<1> DEFINE take(m) == Take(lines, received, delivery, m)
           out(m) == Outstanding(lines, received, m)
<1>2. \A m \in DOMAIN lines : /\ take(m) \in Nat /\ received[m] \in Nat /\ Base(lines[m]) \in Nat
                              /\ out(m) = IF received[m] >= Base(lines[m]) THEN 0 ELSE Base(lines[m]) - received[m]
  BY TakeNat, BaseNat, OutstandingIs
<1>3. \A m \in DOMAIN lines : new[m] = received[m] + take(m)
  BY FillsAre
<1>4. SameItem(lines, n) \subseteq DOMAIN lines
  BY DEF SameItem, LinesOf
<1>5. CASE received[n] > Base(lines[n])
  <2>1. n = Max(SameItem(lines, n)) /\ \A m \in SameItem(lines, n) : received[m] >= Base(lines[m])
    BY <1>5 DEF SurplusLast
  <2> HIDE DEF take, out
  <2>2. \A m \in SameItem(lines, n) : new[m] >= Base(lines[m])
    BY <1>2, <1>3, <1>4, <2>1
  <2> QED BY <2>1, <2>2
<1>6. CASE ~(received[n] > Base(lines[n]))
  <2>1. take(n) > out(n)
    <3> HIDE DEF take, out
    <3> QED BY <1>1, <1>2, <1>3, <1>6
  <2>2. n = Max(SameItem(lines, n)) /\ \A m \in SameItem(lines, n) : take(m) >= out(m)
    BY <2>1, SurplusComesLast
  <2> HIDE DEF take, out
  <2>3. \A m \in SameItem(lines, n) : new[m] >= Base(lines[m])
    BY <1>2, <1>3, <1>4, <2>2
  <2> QED BY <2>2, <2>3
<1> QED BY <1>5, <1>6

\* What the lines of an item have received.
ReceivedOf(i, lines, received) == SumFunction([n \in LinesOf(i, lines) |-> received[n]])

LEMMA ReceivedNat ==
    ASSUME NEW lines, Lines(lines), NEW received \in [DOMAIN lines -> Nat], NEW i
    PROVE  ReceivedOf(i, lines, received) \in Nat
<1> DEFINE L == LinesOf(i, lines)
           f == [n \in L |-> received[n]]
<1>1. IsFiniteSet(L) /\ L \subseteq DOMAIN lines
  BY LinesFinite
<1>2. f \in [L -> Nat]
  BY <1>1
<1> HIDE DEF f
<1>3. SumFunction(f) \in Nat
  BY <1>1, <1>2, SumNat
<1> QED BY <1>3 DEF f, ReceivedOf

\* The delivery is all on the lines.
LEMMA FilledByDelivery ==
    ASSUME NEW lines, Lines(lines), NEW delivery, Lines(delivery),
           NEW received \in [DOMAIN lines -> Nat], NEW i \in ItemsOf(lines),
           NEW new, new = WithFills(received, Fills(lines, received, delivery))
    PROVE  ReceivedOf(i, lines, new) = ReceivedOf(i, lines, received) + TotalOf(i, delivery)
<1> DEFINE L == LinesOf(i, lines)
           f == [n \in L |-> received[n]]
           g == [n \in L |-> Take(lines, received, delivery, n)]
<1>1. IsFiniteSet(L) /\ L \subseteq DOMAIN lines /\ L # {}
  BY LinesFinite DEF ItemsOf, LinesOf
<1>2. f \in [L -> Int] /\ g \in [L -> Int]
  BY <1>1, TakeNat
<1>3. \A n \in DOMAIN lines : new[n] = received[n] + Take(lines, received, delivery, n)
  BY FillsAre
<1>4. [n \in L |-> new[n]] = [n \in L |-> f[n] + g[n]]
  BY <1>1, <1>3
<1>5. SumFunction(g) = TotalOf(i, delivery)
  BY <1>1, TakesAll
<1> HIDE DEF f, g
<1>6. SumFunction([n \in L |-> f[n] + g[n]]) = SumFunction(f) + SumFunction(g)
  BY <1>1, <1>2, SumPlus
<1>7. SumFunction([n \in L |-> new[n]]) = SumFunction(f) + TotalOf(i, delivery)
  BY <1>4, <1>5, <1>6
<1> QED BY <1>7 DEF f, ReceivedOf

\* An item is short exactly when a line of it is.
LEMMA ShortByLine ==
    ASSUME NEW lines, Lines(lines), NEW received \in [DOMAIN lines -> Nat],
           SurplusLast(lines, received), NEW i
    PROVE  ReceivedOf(i, lines, received) < TotalOf(i, lines)
             <=> \E n \in LinesOf(i, lines) : received[n] < Base(lines[n])
<1> DEFINE L == LinesOf(i, lines)
           f == [n \in L |-> received[n]]
           g == [n \in L |-> Base(lines[n])]
<1>1. IsFiniteSet(L) /\ L \subseteq DOMAIN lines
  BY LinesFinite
<1>2. f \in [L -> Int] /\ g \in [L -> Int] /\ \A n \in L : f[n] = received[n] /\ g[n] = Base(lines[n])
  BY <1>1, BaseNat
<1>3. \A n, m \in L : m \in SameItem(lines, n)
  BY DEF SameItem, LinesOf
<1>4. ReceivedOf(i, lines, received) = SumFunction(f) /\ TotalOf(i, lines) = SumFunction(g)
  BY DEF ReceivedOf, TotalOf
<1> HIDE DEF f, g
<1>5. SumFunction(f) \in Int /\ SumFunction(g) \in Int
  BY <1>1, <1>2, SumType
<1>6. ASSUME NEW n \in L, received[n] < Base(lines[n]) PROVE SumFunction(f) < SumFunction(g)
  <2>1. \A m \in L : f[m] <= g[m]
    <3> SUFFICES ASSUME NEW m \in L, ~(f[m] <= g[m]) PROVE FALSE
      OBVIOUS
    <3>1. received[m] > Base(lines[m])
      BY <1>2
    <3>2. received[n] >= Base(lines[n])
      BY <1>1, <1>3, <3>1 DEF SurplusLast
    <3> QED BY <1>1, <1>2, <1>6, <3>2
  <2>2. f[n] < g[n]
    BY <1>2, <1>6
  <2> HIDE DEF L
  <2> QED BY <1>1, <1>2, <2>1, <2>2, SumStrict
<1>7. ASSUME \A n \in L : ~(received[n] < Base(lines[n])) PROVE SumFunction(g) <= SumFunction(f)
  <2>1. \A m \in L : g[m] <= f[m]
    BY <1>2, <1>7
  <2> HIDE DEF L
  <2> QED BY <1>1, <1>2, <2>1, SumMonotone
<1> QED BY <1>4, <1>5, <1>6, <1>7

LEMMA SomethingByLine ==
    ASSUME NEW lines, Lines(lines), NEW received \in [DOMAIN lines -> Nat], NEW i
    PROVE  ReceivedOf(i, lines, received) > 0 <=> \E n \in LinesOf(i, lines) : received[n] > 0
<1> DEFINE L == LinesOf(i, lines)
           f == [n \in L |-> received[n]]
           z == [n \in L |-> 0]
<1>1. IsFiniteSet(L) /\ L \subseteq DOMAIN lines
  BY LinesFinite
<1>2. /\ f \in [L -> Int] /\ z \in [L -> Int] /\ \A n \in L : f[n] = received[n] /\ z[n] = 0 /\ f[n] \in Nat
  BY <1>1
<1>3. SumFunction(z) = 0
  BY <1>1, SumZero
<1>4. ReceivedOf(i, lines, received) = SumFunction(f)
  BY DEF ReceivedOf
<1> HIDE DEF f, z
<1>5. SumFunction(f) \in Int
  BY <1>1, <1>2, SumType
<1>6. ASSUME NEW n \in L, received[n] > 0 PROVE SumFunction(f) > 0
  <2>1. \A m \in L : z[m] <= f[m]
    BY <1>2
  <2>2. z[n] < f[n]
    BY <1>2, <1>6
  <2>3. SumFunction(z) < SumFunction(f)
    <3> HIDE DEF L
    <3> QED BY <1>1, <1>2, <2>1, <2>2, SumStrict
  <2> QED BY <1>3, <1>5, <2>3
<1>7. ASSUME \A n \in L : ~(received[n] > 0) PROVE SumFunction(f) <= 0
  <2>1. \A m \in L : f[m] <= z[m]
    BY <1>2, <1>7
  <2>2. SumFunction(f) <= SumFunction(z)
    <3> HIDE DEF L
    <3> QED BY <1>1, <1>2, <2>1, SumMonotone
  <2> QED BY <1>3, <2>2
<1> QED BY <1>4, <1>5, <1>6, <1>7
-----------------------------------------------------------------------------
(* What holds of orders, deliveries and prices. *)

Received == UNION {[S -> Nat] : S \in SUBSET Nat}
OrderRow == [status : {"none"} \cup OPEN_STATUSES \cup Finished, supplier : Supplier \cup {NoSupplier}, lines : Seq(OrderLine),
             received : Received, closed : BOOLEAN, byHand : BOOLEAN]
Grn == [no : Nat, order : Order \cup {NoOrder}, supplier : Supplier, lines : Seq(DeliveryLine)]
PriceRow == [grn : Nat, line : Nat, supplier : Supplier, pack : Pack, price : Nat]

DecideJob == [pc : {"write"}, op : {"decide"}, order : Order, decision : Decisions,
              supplier : Supplier \cup {NoSupplier}]
CloseJob == [pc : {"write"}, op : {"close"}, order : Order]
\* A delivery that read these last prices.
DeliverJob(last) ==
    [pc : {"record", "order", "lines", "fill", "commit"}, op : {"deliver"}, order : Order \cup {NoOrder},
     supplier : Supplier, lines : Seq(DeliveryLine), last : {last}, no : Nat, fills : Received,
     complete : BOOLEAN]
Job(c) ==
    \/ c \in {NoJob} \cup DecideJob \cup CloseJob
    \/ c \in DeliverJob(c.last) /\ (c.pc \in {"order", "lines", "fill"} => c.order \in Order)

PurchasingTypes ==
    /\ order \in [Order -> OrderRow]
    /\ \A o \in Order : DOMAIN order[o].received = DOMAIN order[o].lines
    /\ serial \in Nat
    /\ grns \subseteq Grn /\ IsFiniteSet(grns) /\ \A g \in grns : g.no <= serial
    /\ prices \subseteq PriceRow /\ \A row \in prices : row.grn <= serial
    /\ DOMAIN job = Handler
    /\ \A w \in Handler : Job(job[w]) /\ (job[w] # NoJob /\ job[w].op = "deliver" => job[w].no <= serial)

\* An order that was not raised has nothing to its name.
Unraised(o) ==
    /\ order[o].status = "none" =>
         /\ order[o] = NoSuchOrder
         /\ \A g \in grns : g.order # o
         /\ \A w \in Busy : job[w].order # o
    /\ order[o].status # "none" => order[o].lines # << >>

\* What the row of an order says, of itself ...
Says(po) ==
    /\ SurplusLast(po.lines, po.received)
    /\ po.closed <=> po.status \in Finished
    /\ po.byHand => po.status \in Finished
    /\ po.status # "none" /\ ~po.byHand => (Covered(po.lines, po.received) <=> po.status = "done")

\* ... and what the handler of it has read of it and knows still.
Knows(c, po) ==
    /\ c.op \in {"decide", "close"} => po.status \in OPEN_STATUSES
    /\ c.op = "deliver" =>
         /\ c.pc \in {"lines", "fill", "commit"} => po.status \in RECEIVABLE
         /\ c.pc \in {"fill", "commit"} => c.fills = Fills(po.lines, po.received, c.lines)
         /\ c.pc = "commit" => (c.complete <=> Covered(po.lines, WithFills(po.received, c.fills)))

\* The price history, with the tables as parameters.
NewestOf(R) ==
    CHOOSE row \in R : \A other \in R :
        \/ other.grn < row.grn
        \/ other.grn = row.grn /\ other.line <= row.line
LatestOf(C) == CHOOSE g \in C : \A h \in C : h.no <= g.no
Named(lines, p) == {n \in DOMAIN lines : lines[n].pack = p}
Naming(G, p) == {g \in G : \E n \in DOMAIN g.lines : g.lines[n].pack = p}

HistoryOf(C, R, p) ==
    C # {} /\ Cardinality(Named(LatestOf(C).lines, p)) = 1 =>
        /\ R # {}
        /\ \A n \in Named(LatestOf(C).lines, p) : NewestOf(R).price = LatestOf(C).lines[n].price

\* A delivery that has its number comes after those of a set.
Later(c, G) == c.op = "deliver" /\ c.pc # "record" => \A g \in G : g.no < c.no

GrnsFor(o) == {g \in grns : g.order = o}
GrnsOf(s) == {g \in grns : g.supplier = s}
RowsOf(s) == {row \in prices : row.supplier = s}

\* The lines have what a set of deliveries brought.
Brought(G, i) == SumFunction([g \in G |-> TotalOf(i, g.lines)])
Filled(G, po) == \A i \in ItemsOf(po.lines) : Brought(G, i) = ReceivedOf(i, po.lines, po.received)

OrderKept(o) ==
    /\ Filled(GrnsFor(o), order[o])
    /\ Says(order[o])
    /\ \A v, w \in Busy : job[v].order = o /\ job[w].order = o => v = w
    /\ \A w \in Busy : job[w].order = o => Knows(job[w], order[o]) /\ Later(job[w], GrnsFor(o))

\* A handler that enters a delivery of the supplier, and what it knows of its prices.
Enters(c, s) == c # NoJob /\ c.op = "deliver" /\ c.supplier = s
PriceOf(R) == IF R = {} THEN -1 ELSE NewestOf(R).price
OfPack(R, p) == {row \in R : row.pack = p}
KnowsPrices(c, G, R) ==
    /\ \A p \in Pack : c.last[p] = PriceOf(OfPack(R, p))
    /\ Later(c, G)
    /\ c.pc # "record" => \A row \in R : row.grn < c.no

SupplierKept(s) ==
    /\ \A v, w \in Handler : Enters(job[v], s) /\ Enters(job[w], s) => v = w
    /\ \A w \in Handler : Enters(job[w], s) => KnowsPrices(job[w], GrnsOf(s), RowsOf(s))
    /\ \A p \in Pack : HistoryOf(Naming(GrnsOf(s), p), OfPack(RowsOf(s), p), p)

PurchasingInvariant ==
    /\ PurchasingTypes
    /\ \A o \in Order : Unraised(o)
    /\ \A o \in Order \ crossed : OrderKept(o)
    /\ \A s \in Supplier \ crossed : SupplierKept(s)

-----------------------------------------------------------------------------
LEMMA Constants == Decisions \subseteq OPEN_STATUSES \cup Finished /\ RECEIVABLE \subseteq OPEN_STATUSES
BY DEF Decisions, OPEN_STATUSES, Finished, RECEIVABLE

\* The pieces of a handler's record.
LEMMA JobPieces ==
    ASSUME NEW c, Job(c)
    PROVE  /\ NoJob.pc = "idle"
           /\ c # NoJob => c.op \in {"decide", "close", "deliver"} /\ c.pc # "idle"
           /\ c # NoJob /\ c.op = "decide" => c \in DecideJob
           /\ c # NoJob /\ c.op = "close" => c \in CloseJob
           /\ c # NoJob /\ c.op = "deliver" => c \in DeliverJob(c.last)
           /\ c.pc \in {"record", "order", "lines", "fill", "commit"} =>
                 c \in DeliverJob(c.last) /\ c # NoJob /\ c.op = "deliver"
           /\ c.pc \in {"order", "lines", "fill"} => c.order \in Order
           /\ c.pc = "write" => c \in DecideJob \cup CloseJob /\ c # NoJob
BY DEF Job, NoJob, DecideJob, CloseJob, DeliverJob

\* What a handler's step does to the others.
LEMMA JobStep ==
    ASSUME PurchasingTypes, NEW w \in Handler, NEW c, job' = [job EXCEPT ![w] = c]
    PROVE  /\ DOMAIN job' = Handler
           /\ \A v \in Handler : job'[v] = IF v = w THEN c ELSE job[v]
           /\ \A v : v \in Busy' <=> v \in Handler /\ job'[v] # NoJob
           /\ \A v : v \in Busy <=> v \in Handler /\ job[v] # NoJob
BY DEF PurchasingTypes, Busy

JobOK(c, n) == Job(c) /\ (c # NoJob /\ c.op = "deliver" => c.no <= n)

LEMMA JobsTyped ==
    ASSUME PurchasingTypes, NEW w \in Handler, NEW c, job' = [job EXCEPT ![w] = c],
           serial' \in Nat, serial <= serial', JobOK(c, serial')
    PROVE  DOMAIN job' = Handler /\ \A v \in Handler : JobOK(job'[v], serial')
<1>1. DOMAIN job' = Handler /\ \A v \in Handler : job'[v] = IF v = w THEN c ELSE job[v]
  BY JobStep
<1>2. ASSUME NEW v \in Handler PROVE JobOK(job[v], serial')
  <2>1. Job(job[v]) /\ serial \in Nat /\ (job[v] # NoJob /\ job[v].op = "deliver" => job[v].no <= serial)
    BY DEF PurchasingTypes
  <2>2. job[v] # NoJob /\ job[v].op = "deliver" => job[v].no \in Nat
    BY <2>1, JobPieces DEF DeliverJob
  <2> QED BY <2>1, <2>2 DEF JobOK
<1> QED BY <1>1, <1>2

\* Handlers move and the tables stay.
LEMMA TypesStay ==
    ASSUME PurchasingTypes, UNCHANGED <<order, grns, prices>>, serial' \in Nat, serial <= serial',
           DOMAIN job' = Handler, \A v \in Handler : JobOK(job'[v], serial')
    PROVE  PurchasingTypes'
<1>1. /\ \A g \in grns : g.no \in Nat /\ g.no <= serial'
      /\ \A row \in prices : row.grn \in Nat /\ row.grn <= serial'
  BY DEF PurchasingTypes, Grn, PriceRow
<1> QED BY <1>1 DEF PurchasingTypes, JobOK

\* The property and the invariant speak of the same history.
LEMMA HistoryIs ==
    /\ \A s, p : LastPrice(s, p) = PriceOf(OfPack(RowsOf(s), p))
    /\ (\A s \in Supplier \ crossed : SupplierKept(s)) => PriceHistoryKeepsUp
<1> DEFINE Charged(s, p) == {g \in grns : g.supplier = s /\ \E n \in DOMAIN g.lines : g.lines[n].pack = p}
<1>1. \A s, p : Charged(s, p) = Naming(GrnsOf(s), p) /\ Rows(s, p) = OfPack(RowsOf(s), p)
  BY DEF Naming, GrnsOf, OfPack, RowsOf, Rows
<1>2. \A s, p : LastPrice(s, p) = IF Rows(s, p) = {} THEN -1 ELSE NewestOf(Rows(s, p)).price
  BY DEF LastPrice, NewestOf
<1>3. ASSUME \A s \in Supplier \ crossed : SupplierKept(s) PROVE PriceHistoryKeepsUp
  <2>1. PriceHistoryKeepsUp <=>
          \A s \in Supplier \ crossed, p \in Pack : HistoryOf(Charged(s, p), Rows(s, p), p)
    BY DEF PriceHistoryKeepsUp, HistoryOf, Rows, Named, LatestOf, NewestOf
  <2> HIDE DEF Charged
  <2>2. \A s \in Supplier \ crossed, p \in Pack : HistoryOf(Naming(GrnsOf(s), p), OfPack(RowsOf(s), p), p)
    BY <1>3 DEF SupplierKept
  <2> QED BY <1>1, <2>1, <2>2
<1> HIDE DEF Charged
<1>4. \A s, p : LastPrice(s, p) = PriceOf(OfPack(RowsOf(s), p))
  BY <1>1, <1>2 DEF PriceOf
<1> QED BY <1>3, <1>4

\* The lines have received what was delivered, as the property says it.
LEMMA FilledIs == \A o : ReceivedAsDelivered(o) <=> Filled(GrnsFor(o), order[o])
BY DEF ReceivedAsDelivered, Filled, BroughtFor, Brought, GrnsFor, ReceivedOf

\* What the next state keeps.
LEMMA OrderKeptNext ==
    ASSUME NEW o, DOMAIN job' = Handler
    PROVE  OrderKept(o)' <=>
             /\ Filled(GrnsFor(o)', order'[o])
             /\ Says(order'[o])
             /\ \A v, w \in Busy' : job'[v].order = o /\ job'[w].order = o => v = w
             /\ \A w \in Busy' : job'[w].order = o => Knows(job'[w], order'[o]) /\ Later(job'[w], GrnsFor(o)')
BY DEF OrderKept

LEMMA SupplierKeptNext ==
    ASSUME NEW s, DOMAIN job' = Handler
    PROVE  SupplierKept(s)' <=>
             /\ \A v, w \in Handler : Enters(job'[v], s) /\ Enters(job'[w], s) => v = w
             /\ \A w \in Handler : Enters(job'[w], s) => KnowsPrices(job'[w], GrnsOf(s)', RowsOf(s)')
             /\ \A p \in Pack : HistoryOf(Naming(GrnsOf(s)', p), OfPack(RowsOf(s)', p), p)
BY DEF SupplierKept

-----------------------------------------------------------------------------
(* Steps that move one handler and leave the tables alone. *)

\* What the handler of an order and of a supplier may know, and nobody beside it.
AloneAndRight(w, c) ==
    /\ \A o \in Order : c.order = o => order[o].status # "none"
    /\ \A o \in Order \ crossed' : c.order = o =>
          /\ \A v \in Busy : job[v].order = o => v = w
          /\ Knows(c, order[o]) /\ Later(c, GrnsFor(o))
    /\ \A s \in Supplier \ crossed' : Enters(c, s) =>
          /\ \A v \in Handler : Enters(job[v], s) => v = w
          /\ KnowsPrices(c, GrnsOf(s), RowsOf(s))

LEMMA MoveKeeps ==
    ASSUME PurchasingInvariant, NEW w \in Handler, NEW c, job' = [job EXCEPT ![w] = c],
           UNCHANGED <<order, grns, prices>>, serial' \in Nat, serial <= serial',
           crossed \subseteq crossed', JobOK(c, serial'), c # NoJob => AloneAndRight(w, c)
    PROVE  PurchasingInvariant'
<1>1. PurchasingTypes
  BY DEF PurchasingInvariant
<1>2. /\ DOMAIN job' = Handler
      /\ \A v \in Handler : job'[v] = IF v = w THEN c ELSE job[v]
      /\ \A v : v \in Busy' <=> v \in Handler /\ job'[v] # NoJob
      /\ \A v : v \in Busy <=> v \in Handler /\ job[v] # NoJob
  BY <1>1, JobStep
<1>3. PurchasingTypes'
  <2>1. \A v \in Handler : JobOK(job'[v], serial')
    BY <1>1, JobsTyped
  <2> QED BY <1>1, <1>2, <2>1, TypesStay
<1>4. /\ \A o : GrnsFor(o)' = GrnsFor(o)
      /\ \A s : GrnsOf(s)' = GrnsOf(s) /\ RowsOf(s)' = RowsOf(s)
  BY DEF GrnsFor, GrnsOf, RowsOf
<1>5. \A v \in Busy' : (v = w /\ job'[v] = c /\ c # NoJob) \/ (v \in Busy /\ v # w /\ job'[v] = job[v])
  BY <1>2
<1>6. ASSUME NEW o \in Order PROVE Unraised(o)'
  <2>1. Unraised(o)
    BY DEF PurchasingInvariant
  <2>2. order[o].status = "none" => \A v \in Busy' : job'[v].order # o
    BY <1>5, <2>1 DEF Unraised, AloneAndRight
  <2> QED BY <2>1, <2>2 DEF Unraised
<1>7. ASSUME NEW o \in Order \ crossed' PROVE OrderKept(o)'
  <2>1. OrderKept(o)
    BY DEF PurchasingInvariant
  <2>2. \A u, v \in Busy' : job'[u].order = o /\ job'[v].order = o => u = v
    BY <1>5, <2>1 DEF OrderKept, AloneAndRight
  <2>3. \A v \in Busy' : job'[v].order = o => Knows(job'[v], order[o]) /\ Later(job'[v], GrnsFor(o))
    BY <1>5, <2>1 DEF OrderKept, AloneAndRight
  <2>4. Filled(GrnsFor(o), order[o]) /\ Says(order[o])
    BY <2>1 DEF OrderKept
  <2> QED BY <1>2, <1>4, <2>2, <2>3, <2>4, OrderKeptNext
<1>8. ASSUME NEW s \in Supplier \ crossed' PROVE SupplierKept(s)'
  <2>1. SupplierKept(s)
    BY DEF PurchasingInvariant
  <2>2. \A v \in Handler : Enters(job'[v], s) => (v = w /\ job'[v] = c /\ c # NoJob) \/ (v # w /\ job'[v] = job[v])
    BY <1>2 DEF Enters
  <2>3. \A u, v \in Handler : Enters(job'[u], s) /\ Enters(job'[v], s) => u = v
    BY <2>1, <2>2 DEF SupplierKept, AloneAndRight
  <2>4. \A v \in Handler : Enters(job'[v], s) => KnowsPrices(job'[v], GrnsOf(s), RowsOf(s))
    BY <2>1, <2>2 DEF SupplierKept, AloneAndRight
  <2>5. \A p \in Pack : HistoryOf(Naming(GrnsOf(s), p), OfPack(RowsOf(s), p), p)
    BY <2>1 DEF SupplierKept
  <2> QED BY <1>2, <1>4, <2>3, <2>4, <2>5, SupplierKeptNext
<1> QED BY <1>3, <1>6, <1>7, <1>8 DEF PurchasingInvariant

LEMMA LoseKeeps ==
    ASSUME PurchasingInvariant, NEW w \in Handler, Lose(w)
    PROVE  PurchasingInvariant'
<1>1. /\ job' = [job EXCEPT ![w] = NoJob] /\ UNCHANGED <<order, grns, prices, serial, crossed>>
  BY DEF Lose, Finish
<1>2. serial \in Nat
  BY DEF PurchasingInvariant, PurchasingTypes
<1>3. JobOK(NoJob, serial')
  BY DEF JobOK, Job
<1>4. serial' \in Nat /\ serial <= serial' /\ crossed \subseteq crossed'
  BY <1>1, <1>2
<1>5. PICK c : c = NoJob
  OBVIOUS
<1>6. job' = [job EXCEPT ![w] = c] /\ JobOK(c, serial') /\ UNCHANGED <<order, grns, prices>>
  BY <1>1, <1>3, <1>5
<1> QED BY <1>4, <1>5, <1>6, MoveKeeps

LEMMA TakeUpKeeps ==
    ASSUME PurchasingInvariant, NEW w \in Handler, NEW c, TakeUp(w, c),
           UNCHANGED <<order, grns, prices, serial>>, JobOK(c, serial), c # NoJob,
           c.order \in Order => order[c.order].status # "none" /\ Knows(c, order[c.order]),
           c.op = "deliver" => c.pc = "record" /\ \A p \in Pack : c.last[p] = LastPrice(c.supplier, p)
    PROVE  PurchasingInvariant'
<1>1. /\ job' = [job EXCEPT ![w] = c] /\ crossed \subseteq crossed'
      /\ \A o \in Order \ crossed' : c.order = o => \A v \in Busy : job[v].order # o
      /\ \A s \in Supplier \ crossed' : c.op = "deliver" /\ c.supplier = s =>
            \A v \in Busy : ~(job[v].op = "deliver" /\ job[v].supplier = s)
  BY DEF TakeUp
<1>2. serial' \in Nat /\ serial <= serial' /\ JobOK(c, serial')
  BY DEF PurchasingInvariant, PurchasingTypes
<1>3. \A G : Later(c, G)
  BY DEF Later
<1>4. \A o \in Order \ crossed' : c.order = o =>
          /\ \A v \in Busy : job[v].order = o => v = w
          /\ Knows(c, order[o]) /\ Later(c, GrnsFor(o))
  BY <1>1, <1>3
<1>5. ASSUME NEW s \in Supplier \ crossed', Enters(c, s)
      PROVE  /\ \A v \in Handler : Enters(job[v], s) => v = w
             /\ KnowsPrices(c, GrnsOf(s), RowsOf(s))
  <2>1. \A v \in Handler : ~Enters(job[v], s)
    BY <1>1, <1>5 DEF Enters, Busy
  <2>2. \A p \in Pack : c.last[p] = PriceOf(OfPack(RowsOf(s), p))
    BY <1>5, HistoryIs DEF Enters
  <2>3. c.pc = "record"
    BY <1>5 DEF Enters
  <2> QED BY <1>3, <2>1, <2>2, <2>3 DEF KnowsPrices
<1>6. \A o \in Order : c.order = o => order[o].status # "none"
  OBVIOUS
<1>7. AloneAndRight(w, c)
  BY <1>4, <1>5, <1>6 DEF AloneAndRight
<1> QED BY <1>1, <1>2, <1>7, MoveKeeps

LEMMA StartDecideKeeps ==
    ASSUME PurchasingInvariant, NEW w \in Handler, NEW o \in Order, NEW decision \in Decisions,
           NEW s \in Supplier \cup {NoSupplier}, StartDecide(w, o, decision, s)
    PROVE  PurchasingInvariant'
<1>1. PICK t : t = IF s # NoSupplier THEN s ELSE order[o].supplier
  OBVIOUS
<1>2. PICK c : c = [pc |-> "write", op |-> "decide", order |-> o, decision |-> decision, supplier |-> t]
  OBVIOUS
<1>3. TakeUp(w, c) /\ UNCHANGED <<order, grns, prices, serial>> /\ order[o].status \in OPEN_STATUSES
  BY <1>1, <1>2 DEF StartDecide, MayDecide
<1>4. order[o] \in OrderRow
  BY DEF PurchasingInvariant, PurchasingTypes
<1>5. t \in Supplier \cup {NoSupplier}
  BY <1>1, <1>4 DEF OrderRow
<1>6. c \in DecideJob /\ c.pc = "write" /\ c.op = "decide" /\ c.order = o
  BY <1>2, <1>5 DEF DecideJob
<1>7. JobOK(c, serial) /\ c # NoJob
  BY <1>6 DEF JobOK, Job, NoJob
<1>8. order[c.order].status # "none" /\ Knows(c, order[c.order])
  BY <1>3, <1>6 DEF Knows, OPEN_STATUSES
<1> QED BY <1>3, <1>6, <1>7, <1>8, TakeUpKeeps

LEMMA StartCloseKeeps ==
    ASSUME PurchasingInvariant, NEW w \in Handler, NEW o \in Order, StartClose(w, o)
    PROVE  PurchasingInvariant'
<1>1. PICK c : c = [pc |-> "write", op |-> "close", order |-> o]
  OBVIOUS
<1>2. TakeUp(w, c) /\ UNCHANGED <<order, grns, prices, serial>> /\ order[o].status \in OPEN_STATUSES
  BY <1>1 DEF StartClose
<1>3. c \in CloseJob /\ c.pc = "write" /\ c.op = "close" /\ c.order = o
  BY <1>1 DEF CloseJob
<1>4. JobOK(c, serial) /\ c # NoJob
  BY <1>3 DEF JobOK, Job, NoJob
<1>5. order[c.order].status # "none" /\ Knows(c, order[c.order])
  BY <1>2, <1>3 DEF Knows, OPEN_STATUSES
<1> QED BY <1>2, <1>3, <1>4, <1>5, TakeUpKeeps

LEMMA StartDeliveryKeeps ==
    ASSUME PurchasingInvariant, NEW w \in Handler, NEW o \in Order \cup {NoOrder}, NEW s \in Supplier,
           NEW lines \in Delivered, StartDelivery(w, o, s, lines)
    PROVE  PurchasingInvariant'
<1>1. PICK last : last = [p \in Pack |-> LastPrice(s, p)]
  OBVIOUS
<1>2. PICK c : c = [pc |-> "record", op |-> "deliver", order |-> o, supplier |-> s, lines |-> lines,
                    last |-> last, no |-> 0, fills |-> << >>, complete |-> FALSE]
  OBVIOUS
<1>3. /\ TakeUp(w, c) /\ UNCHANGED <<order, grns, prices, serial>>
      /\ o # NoOrder => order[o].status # "none"
  BY <1>1, <1>2 DEF StartDelivery
<1>4. /\ c.pc = "record" /\ c.op = "deliver" /\ c.order = o /\ c.supplier = s /\ c.no = 0
      /\ c.last = last
  BY <1>2
<1>5. c \in DeliverJob(last)
  <2>1. << >> \in [{} -> Nat]
    OBVIOUS
  <2>2. << >> \in Received
    BY <2>1 DEF Received
  <2>3. lines \in Seq(DeliveryLine)
    BY PurchasingAssumption
  <2> QED BY <1>2, <2>2, <2>3 DEF DeliverJob
<1>6. JobOK(c, serial) /\ c # NoJob
  <2>1. serial \in Nat
    BY DEF PurchasingInvariant, PurchasingTypes
  <2>2. c # NoJob
    BY <1>4 DEF NoJob
  <2> QED BY <1>4, <1>5, <2>1, <2>2 DEF JobOK, Job
<1>7. c.order \in Order => order[c.order].status # "none" /\ Knows(c, order[c.order])
  BY <1>3, <1>4, PurchasingAssumption DEF Knows
<1>8. \A p \in Pack : c.last[p] = LastPrice(c.supplier, p)
  BY <1>1, <1>4
<1> QED BY <1>3, <1>4, <1>6, <1>7, <1>8, TakeUpKeeps

\* What a handler at work may count on.
LEMMA AtWork ==
    ASSUME PurchasingInvariant, NEW w \in Handler, NEW d, d = job[w], d # NoJob
    PROVE  /\ JobOK(d, serial) /\ w \in Busy /\ serial \in Nat
           /\ \A o \in Order : d.order = o => order[o].status # "none"
           /\ \A o \in Order \ crossed : d.order = o =>
                 /\ \A v \in Busy : job[v].order = o => v = w
                 /\ Knows(d, order[o]) /\ Later(d, GrnsFor(o))
           /\ \A s \in Supplier \ crossed : Enters(d, s) =>
                 /\ \A v \in Handler : Enters(job[v], s) => v = w
                 /\ KnowsPrices(d, GrnsOf(s), RowsOf(s))
<1>1. JobOK(d, serial) /\ w \in Busy /\ serial \in Nat
  BY DEF PurchasingInvariant, PurchasingTypes, JobOK, Busy
<1>2. \A o \in Order : d.order = o => order[o].status # "none"
  BY <1>1 DEF PurchasingInvariant, Unraised
<1>3. \A o \in Order \ crossed : d.order = o =>
                 /\ \A v \in Busy : job[v].order = o => v = w
                 /\ Knows(d, order[o]) /\ Later(d, GrnsFor(o))
  BY <1>1 DEF PurchasingInvariant, OrderKept
<1>4. \A s \in Supplier \ crossed : Enters(d, s) =>
                 /\ \A v \in Handler : Enters(job[v], s) => v = w
                 /\ KnowsPrices(d, GrnsOf(s), RowsOf(s))
  BY DEF PurchasingInvariant, SupplierKept
<1> QED BY <1>1, <1>2, <1>3, <1>4

\* A delivery goes on, with the number it has or gets.
LEMMA DeliveryGoesOn ==
    ASSUME PurchasingInvariant, NEW w \in Handler, NEW d, d = job[w], d # NoJob, NEW c, GoTo(w, c),
           d.op = "deliver", c \in DeliverJob(d.last), c.order = d.order, c.supplier = d.supplier,
           c.pc # "record", c.pc \in {"order", "lines", "fill"} => c.order \in Order,
           IF d.pc = "record" THEN c.no = serial + 1 /\ serial' = serial + 1
                              ELSE c.no = d.no /\ serial' = serial,
           \A o \in Order \ crossed : d.order = o => Knows(c, order[o])
    PROVE  PurchasingInvariant'
<1>1. /\ job' = [job EXCEPT ![w] = c] /\ UNCHANGED <<order, grns, prices>>
      /\ crossed' = crossed /\ crossed \subseteq crossed'
  BY DEF GoTo
<1>2. c.op = "deliver" /\ c.last = d.last /\ c.no \in Nat /\ c # NoJob
  BY DEF DeliverJob, NoJob
<1>3. serial \in Nat /\ JobOK(d, serial)
  BY AtWork
<1>4. serial' \in Nat /\ serial <= serial' /\ c.no <= serial'
  BY <1>2, <1>3 DEF JobOK
<1>5. JobOK(c, serial')
  BY <1>2, <1>4 DEF JobOK, Job
<1>6. /\ \A g \in grns : g.no \in Nat /\ g.no <= serial
      /\ \A row \in prices : row.grn \in Nat /\ row.grn <= serial
  BY DEF PurchasingInvariant, PurchasingTypes, Grn, PriceRow
<1>7. ASSUME NEW G \in SUBSET grns, Later(d, G) PROVE Later(c, G)
  BY <1>3, <1>6, <1>7 DEF Later
<1>8. ASSUME NEW o \in Order \ crossed', c.order = o
      PROVE  /\ \A v \in Busy : job[v].order = o => v = w
             /\ Knows(c, order[o]) /\ Later(c, GrnsFor(o))
  <2>1. /\ \A v \in Busy : job[v].order = o => v = w
        /\ Later(d, GrnsFor(o))
    <3>1. d.order = o /\ o \in Order \ crossed
      BY <1>1, <1>8
    <3> QED BY <3>1, AtWork
  <2>2. GrnsFor(o) \in SUBSET grns
    BY DEF GrnsFor
  <2> QED BY <1>1, <1>7, <1>8, <2>1, <2>2
<1>9. ASSUME NEW s \in Supplier \ crossed', Enters(c, s)
      PROVE  /\ \A v \in Handler : Enters(job[v], s) => v = w
             /\ KnowsPrices(c, GrnsOf(s), RowsOf(s))
  <2>1. Enters(d, s)
    BY <1>9 DEF Enters
  <2>2. /\ \A v \in Handler : Enters(job[v], s) => v = w
        /\ KnowsPrices(d, GrnsOf(s), RowsOf(s))
    BY <1>1, <2>1, AtWork
  <2>3. Later(c, GrnsOf(s))
    <3>1. GrnsOf(s) \in SUBSET grns
      BY DEF GrnsOf
    <3> QED BY <1>7, <2>2, <3>1 DEF KnowsPrices
  <2>4. \A row \in RowsOf(s) : row.grn < c.no
    <3>1. RowsOf(s) \subseteq prices
      BY DEF RowsOf
    <3>2. CASE d.pc = "record"
      BY <1>3, <1>6, <3>1, <3>2
    <3>3. CASE d.pc # "record"
      BY <2>2, <3>3 DEF KnowsPrices
    <3> QED BY <3>2, <3>3
  <2> QED BY <1>2, <2>2, <2>3, <2>4 DEF KnowsPrices
<1>10. ASSUME NEW o \in Order, c.order = o PROVE order[o].status # "none"
  <2>1. d.order = o
    BY <1>10
  <2> QED BY <2>1, AtWork
<1>11. AloneAndRight(w, c)
  BY <1>8, <1>9, <1>10 DEF AloneAndRight
<1> QED BY <1>1, <1>4, <1>5, <1>11, MoveKeeps

LEMMA RecordKeeps ==
    ASSUME PurchasingInvariant, NEW w \in Handler, Record(w)
    PROVE  PurchasingInvariant'
<1>1. PICK d : d = job[w]
  OBVIOUS
<1>2. PICK c : c = [d EXCEPT !.no = serial + 1, !.pc = IF d.order = NoOrder THEN "commit" ELSE "order"]
  OBVIOUS
<1>3. d.pc = "record" /\ serial' = serial + 1 /\ GoTo(w, c)
  BY <1>1, <1>2 DEF Record
<1>4. serial \in Nat /\ Job(d)
  BY <1>1 DEF PurchasingInvariant, PurchasingTypes
<1>5. d \in DeliverJob(d.last) /\ d # NoJob /\ d.op = "deliver"
  BY <1>3, <1>4, JobPieces
<1>6. /\ c.order = d.order /\ c.supplier = d.supplier /\ c.no = serial + 1
      /\ c.pc = (IF d.order = NoOrder THEN "commit" ELSE "order") /\ c.op = "deliver"
      /\ c \in DeliverJob(d.last)
  <2>1. PICK n \in Nat : n = serial + 1
    BY <1>4
  <2>2. PICK pc \in {"order", "commit"} : pc = IF d.order = NoOrder THEN "commit" ELSE "order"
    OBVIOUS
  <2>3. c = [d EXCEPT !.no = n, !.pc = pc]
    BY <1>2, <2>1, <2>2
  <2>4. /\ c.order = d.order /\ c.supplier = d.supplier /\ c.no = n /\ c.pc = pc /\ c.op = "deliver"
        /\ c \in DeliverJob(d.last)
    BY <1>5, <2>3 DEF DeliverJob
  <2> QED BY <2>1, <2>2, <2>4
<1>7. \A o \in Order \ crossed : d.order = o => Knows(c, order[o])
  BY <1>6, PurchasingAssumption DEF Knows
<1>8. c.pc # "record" /\ (c.pc \in {"order", "lines", "fill"} => c.order \in Order)
  BY <1>5, <1>6 DEF DeliverJob
<1> QED BY <1>1, <1>3, <1>5, <1>6, <1>7, <1>8, DeliveryGoesOn

LEMMA ReadOrderKeeps ==
    ASSUME PurchasingInvariant, NEW w \in Handler, ReadOrder(w)
    PROVE  PurchasingInvariant'
<1>1. PICK d : d = job[w]
  OBVIOUS
<1>2. PICK c : c = [d EXCEPT !.pc = "lines"]
  OBVIOUS
<1>3. d.pc = "order" /\ order[d.order].status \in RECEIVABLE /\ serial' = serial /\ GoTo(w, c)
  BY <1>1, <1>2 DEF ReadOrder
<1>4. Job(d)
  BY <1>1 DEF PurchasingInvariant, PurchasingTypes
<1>5. d \in DeliverJob(d.last) /\ d # NoJob /\ d.op = "deliver" /\ d.order \in Order
  BY <1>3, <1>4, JobPieces
<1>6. /\ c.order = d.order /\ c.supplier = d.supplier /\ c.no = d.no /\ c.pc = "lines" /\ c.op = "deliver"
      /\ c \in DeliverJob(d.last)
  BY <1>2, <1>5 DEF DeliverJob
<1>7. \A o \in Order \ crossed : d.order = o => Knows(c, order[o])
  BY <1>3, <1>6 DEF Knows
<1> QED BY <1>1, <1>3, <1>5, <1>6, <1>7, DeliveryGoesOn

\* The pieces of an order's row.
LEMMA OrderPieces ==
    ASSUME PurchasingTypes, NEW o \in Order
    PROVE  /\ order[o] \in OrderRow /\ Lines(order[o].lines)
           /\ order[o].received \in [DOMAIN order[o].lines -> Nat]
           /\ order[o].received \in Received
<1>1. order[o] \in OrderRow /\ DOMAIN order[o].received = DOMAIN order[o].lines
  BY DEF PurchasingTypes
<1>2. order[o].lines \in Seq(OrderLine) /\ order[o].received \in Received
  BY <1>1 DEF OrderRow
<1>3. order[o].received \in [DOMAIN order[o].received -> Nat]
  BY <1>2 DEF Received
<1> QED BY <1>1, <1>2, <1>3, OrderLines

LEMMA ReadLinesKeeps ==
    ASSUME PurchasingInvariant, NEW w \in Handler, ReadLines(w)
    PROVE  PurchasingInvariant'
<1>1. PICK d : d = job[w]
  OBVIOUS
<1>2. PICK po : po = order[d.order]
  OBVIOUS
<1>3. PICK fills : fills = Fills(po.lines, po.received, d.lines)
  OBVIOUS
<1>4. PICK c : c = [d EXCEPT !.pc = "fill", !.fills = fills]
  OBVIOUS
<1>5. d.pc = "lines" /\ serial' = serial /\ GoTo(w, c)
  BY <1>1, <1>2, <1>3, <1>4 DEF ReadLines
<1>6. Job(d) /\ PurchasingTypes
  BY <1>1 DEF PurchasingInvariant, PurchasingTypes
<1>7. d \in DeliverJob(d.last) /\ d # NoJob /\ d.op = "deliver" /\ d.order \in Order
  BY <1>5, <1>6, JobPieces
<1>8. fills \in Received
  <2>1. Lines(po.lines) /\ po.received \in [DOMAIN po.lines -> Nat]
    BY <1>2, <1>6, <1>7, OrderPieces
  <2>2. Lines(d.lines)
    BY <1>7, DeliveryLines DEF DeliverJob
  <2>3. PICK new : new = WithFills(po.received, fills)
    OBVIOUS
  <2>4. DOMAIN fills \subseteq DOMAIN po.lines /\ fills \in [DOMAIN fills -> Nat]
    BY <1>3, <2>1, <2>2, <2>3, FillsAre
  <2>5. DOMAIN po.lines \subseteq Nat
    BY <2>1, LinesFinite
  <2> QED BY <2>4, <2>5 DEF Received
<1>9. /\ c.order = d.order /\ c.supplier = d.supplier /\ c.no = d.no /\ c.pc = "fill" /\ c.op = "deliver"
      /\ c.lines = d.lines /\ c.fills = fills /\ c \in DeliverJob(d.last)
  BY <1>4, <1>7, <1>8 DEF DeliverJob
<1>10. ASSUME NEW o \in Order \ crossed, d.order = o PROVE Knows(c, order[o])
  <2>1. Knows(d, order[o])
    BY <1>1, <1>7, <1>10, AtWork
  <2> QED BY <1>2, <1>3, <1>5, <1>7, <1>9, <1>10, <2>1 DEF Knows
<1> QED BY <1>1, <1>5, <1>7, <1>9, <1>10, DeliveryGoesOn

LEMMA FillKeeps ==
    ASSUME PurchasingInvariant, NEW w \in Handler, Fill(w)
    PROVE  PurchasingInvariant'
<1>1. PICK d : d = job[w]
  OBVIOUS
<1>2. PICK po : po = order[d.order]
  OBVIOUS
<1>3. PICK complete \in BOOLEAN : complete <=> Covered(po.lines, WithFills(po.received, d.fills))
  OBVIOUS
<1>4. Covered(po.lines, WithFills(po.received, d.fills)) \in BOOLEAN
  BY DEF Covered
<1>5. PICK c : c = [d EXCEPT !.pc = "commit", !.complete = complete]
  OBVIOUS
<1>6. d.pc = "fill" /\ serial' = serial /\ GoTo(w, c)
  <2>1. complete = Covered(po.lines, WithFills(po.received, d.fills))
    BY <1>3, <1>4
  <2> QED BY <1>1, <1>2, <1>5, <2>1 DEF Fill
<1>7. Job(d)
  BY <1>1 DEF PurchasingInvariant, PurchasingTypes
<1>8. d \in DeliverJob(d.last) /\ d # NoJob /\ d.op = "deliver" /\ d.order \in Order
  BY <1>6, <1>7, JobPieces
<1>9. /\ c.order = d.order /\ c.supplier = d.supplier /\ c.no = d.no /\ c.pc = "commit" /\ c.op = "deliver"
      /\ c.lines = d.lines /\ c.fills = d.fills /\ c.complete = complete /\ c \in DeliverJob(d.last)
  BY <1>5, <1>8 DEF DeliverJob
<1>10. ASSUME NEW o \in Order \ crossed, d.order = o PROVE Knows(c, order[o])
  <2>1. Knows(d, order[o])
    BY <1>1, <1>8, <1>10, AtWork
  <2>2. order[o].status \in RECEIVABLE /\ d.fills = Fills(po.lines, po.received, d.lines)
    BY <1>2, <1>6, <1>8, <1>10, <2>1 DEF Knows
  <2>3. c.complete <=> Covered(po.lines, WithFills(po.received, c.fills))
    BY <1>3, <1>9
  <2> QED BY <1>2, <1>9, <1>10, <2>2, <2>3 DEF Knows
<1> QED BY <1>1, <1>6, <1>8, <1>9, <1>10, DeliveryGoesOn

-----------------------------------------------------------------------------
(* Steps that write: one order's row, one supplier's prices. *)

LEMMA TablesKeep ==
    ASSUME PurchasingInvariant, PurchasingTypes', crossed' = crossed, NEW o, NEW s,
           \A v \in Busy' : v \in Busy /\ job'[v] = job[v],
           \A x \in Order : x # o => order'[x] = order[x] /\ GrnsFor(x)' = GrnsFor(x),
           \A t \in Supplier : t # s => GrnsOf(t)' = GrnsOf(t) /\ RowsOf(t)' = RowsOf(t),
           o \in Order => Unraised(o)',
           o \in Order \ crossed => OrderKept(o)',
           s \in Supplier \ crossed => SupplierKept(s)'
    PROVE  PurchasingInvariant'
<1>1. DOMAIN job' = Handler /\ DOMAIN job = Handler
  BY DEF PurchasingTypes, PurchasingInvariant
<1>2. \A v \in Handler : job'[v] # NoJob => v \in Busy' /\ job'[v] = job[v]
  BY DEF Busy
<1>3. ASSUME NEW x \in Order PROVE Unraised(x)'
  <2>1. CASE x = o
    BY <2>1
  <2>2. CASE x # o
    <3>1. Unraised(x) /\ order'[x] = order[x] /\ GrnsFor(x)' = GrnsFor(x)
      BY <2>2 DEF PurchasingInvariant
    <3>2. order[x].status = "none" => \A g \in grns' : g.order # x
      BY <3>1 DEF Unraised, GrnsFor
    <3> QED BY <3>1, <3>2 DEF Unraised
  <2> QED BY <2>1, <2>2
<1>4. ASSUME NEW x \in Order \ crossed' PROVE OrderKept(x)'
  <2>1. CASE x = o
    BY <2>1
  <2>2. CASE x # o
    <3>1. OrderKept(x) /\ order'[x] = order[x] /\ GrnsFor(x)' = GrnsFor(x)
      BY <2>2 DEF PurchasingInvariant
    <3>2. /\ Filled(GrnsFor(x), order[x])
          /\ Says(order[x])
          /\ \A v, w \in Busy' : job'[v].order = x /\ job'[w].order = x => v = w
          /\ \A w \in Busy' : job'[w].order = x => Knows(job'[w], order[x]) /\ Later(job'[w], GrnsFor(x))
      BY <3>1 DEF OrderKept
    <3> QED BY <1>1, <3>1, <3>2, OrderKeptNext
  <2> QED BY <2>1, <2>2
<1>5. ASSUME NEW t \in Supplier \ crossed' PROVE SupplierKept(t)'
  <2>1. CASE t = s
    BY <2>1
  <2>2. CASE t # s
    <3>1. SupplierKept(t) /\ GrnsOf(t)' = GrnsOf(t) /\ RowsOf(t)' = RowsOf(t)
      BY <2>2 DEF PurchasingInvariant
    <3>2. \A v \in Handler : Enters(job'[v], t) => job'[v] = job[v] /\ Enters(job[v], t)
      BY <1>2 DEF Enters
    <3>3. /\ \A v, w \in Handler : Enters(job'[v], t) /\ Enters(job'[w], t) => v = w
          /\ \A w \in Handler : Enters(job'[w], t) => KnowsPrices(job'[w], GrnsOf(t), RowsOf(t))
          /\ \A p \in Pack : HistoryOf(Naming(GrnsOf(t), p), OfPack(RowsOf(t), p), p)
      BY <3>1, <3>2 DEF SupplierKept
    <3> QED BY <1>1, <3>1, <3>3, SupplierKeptNext
  <2> QED BY <2>1, <2>2
<1> QED BY <1>3, <1>4, <1>5 DEF PurchasingInvariant

\* The handlers after one of them has ended, or none.
LEMMA JobsEnd ==
    ASSUME PurchasingTypes, serial' = serial,
           job' = job \/ \E w \in Handler : job' = [job EXCEPT ![w] = NoJob]
    PROVE  /\ DOMAIN job' = Handler
           /\ \A v \in Handler : JobOK(job'[v], serial')
           /\ \A v \in Busy' : v \in Busy /\ job'[v] = job[v]
<1>1. CASE job' = job
  BY <1>1 DEF PurchasingTypes, JobOK, Busy
<1>2. CASE \E w \in Handler : job' = [job EXCEPT ![w] = NoJob]
  <2>1. PICK w \in Handler : job' = [job EXCEPT ![w] = NoJob]
    BY <1>2
  <2>2. PICK c : c = NoJob
    OBVIOUS
  <2>3. /\ DOMAIN job' = Handler
        /\ \A v \in Handler : job'[v] = IF v = w THEN c ELSE job[v]
        /\ \A v : v \in Busy' <=> v \in Handler /\ job'[v] # NoJob
        /\ \A v : v \in Busy <=> v \in Handler /\ job[v] # NoJob
    BY <2>1, <2>2, JobStep
  <2>4. \A v \in Handler : JobOK(job[v], serial)
    BY DEF PurchasingTypes, JobOK
  <2>5. JobOK(c, serial)
    BY <2>2 DEF JobOK, Job
  <2> QED BY <2>2, <2>3, <2>4, <2>5
<1> QED BY <1>1, <1>2

\* The row of an order is written by its handler, which ends, or by its raising.
LEMMA RowWritten ==
    ASSUME PurchasingInvariant, NEW o \in Order, NEW row \in OrderRow,
           order' = [order EXCEPT ![o] = row], UNCHANGED <<grns, prices, serial, crossed>>,
           job' = job \/ \E w \in Handler : job' = [job EXCEPT ![w] = NoJob],
           DOMAIN row.received = DOMAIN row.lines, row.status # "none", row.lines # << >>,
           o \notin crossed => /\ Filled(GrnsFor(o), row) /\ Says(row)
                              /\ \A v \in Busy' : job'[v].order # o
    PROVE  PurchasingInvariant'
<1>1. PurchasingTypes
  BY DEF PurchasingInvariant
<1>2. /\ DOMAIN job' = Handler
      /\ \A v \in Handler : JobOK(job'[v], serial')
      /\ \A v \in Busy' : v \in Busy /\ job'[v] = job[v]
  BY <1>1, JobsEnd
<1>3. order' \in [Order -> OrderRow] /\ \A x \in Order : order'[x] = IF x = o THEN row ELSE order[x]
  BY <1>1 DEF PurchasingTypes
<1>4. PurchasingTypes'
  <2>1. \A x \in Order : DOMAIN order'[x].received = DOMAIN order'[x].lines
    BY <1>1, <1>3 DEF PurchasingTypes
  <2> QED BY <1>1, <1>2, <1>3, <2>1 DEF PurchasingTypes, JobOK
<1>5. /\ \A x : GrnsFor(x)' = GrnsFor(x)
      /\ \A t : GrnsOf(t)' = GrnsOf(t) /\ RowsOf(t)' = RowsOf(t)
  BY DEF GrnsFor, GrnsOf, RowsOf
<1>6. Unraised(o)'
  BY <1>3 DEF Unraised
<1>7. o \in Order \ crossed => OrderKept(o)'
  BY <1>2, <1>3, <1>5, OrderKeptNext
<1>8. PICK s : s \notin Supplier
  BY NoSetContainsEverything
<1> QED BY <1>2, <1>3, <1>4, <1>5, <1>6, <1>7, <1>8, TablesKeep

LEMMA WriteDecideKeeps ==
    ASSUME PurchasingInvariant, NEW w \in Handler, WriteDecide(w)
    PROVE  PurchasingInvariant'
<1>1. PICK c : c = job[w]
  OBVIOUS
<1>2. /\ c.pc = "write" /\ c.op = "decide" /\ job' = [job EXCEPT ![w] = NoJob]
      /\ UNCHANGED <<grns, prices, serial, crossed>>
      /\ order' = [order EXCEPT ![c.order].status = c.decision,
                               ![c.order].supplier = c.supplier,
                               ![c.order].closed = c.decision \in Finished,
                               ![c.order].byHand = c.decision \in Finished]
  BY <1>1 DEF WriteDecide, Finish
<1>3. PurchasingTypes /\ Job(c)
  BY <1>1 DEF PurchasingInvariant, PurchasingTypes
<1>4. c \in DecideJob /\ c # NoJob
  <2>1. c # NoJob
    BY <1>2, <1>3, JobPieces
  <2> QED BY <1>2, <1>3, <2>1, JobPieces
<1>5. PICK o \in Order : o = c.order
  BY <1>4 DEF DecideJob
<1>6. PICK closed \in BOOLEAN : closed = (c.decision \in Finished)
  <2>1. (c.decision \in Finished) \in BOOLEAN
    OBVIOUS
  <2> QED BY <2>1, Zenon
<1>7. PICK po : po = order[o]
  OBVIOUS
<1>8. PICK row : row = [po EXCEPT !.status = c.decision, !.supplier = c.supplier, !.closed = closed, !.byHand = closed]
  OBVIOUS
<1>9. po \in OrderRow /\ DOMAIN po.received = DOMAIN po.lines /\ order \in [Order -> OrderRow]
  BY <1>3, <1>7 DEF PurchasingTypes
<1>10. order' = [order EXCEPT ![o] = row]
  BY <1>2, <1>5, <1>6, <1>7, <1>8, <1>9
<1>11. c.decision \in Decisions /\ c.supplier \in Supplier \cup {NoSupplier}
  BY <1>4 DEF DecideJob
<1>12. /\ row \in OrderRow /\ row.status = c.decision /\ row.lines = po.lines /\ row.received = po.received
       /\ row.closed = closed /\ row.byHand = closed
  BY <1>8, <1>9, <1>11, Constants DEF OrderRow
<1>13. DOMAIN row.received = DOMAIN row.lines /\ row.status # "none" /\ row.lines # << >>
  <2>1. po.status # "none"
    BY <1>1, <1>4, <1>5, <1>7, AtWork
  <2>2. po.lines # << >>
    BY <1>7, <2>1 DEF PurchasingInvariant, Unraised
  <2> QED BY <1>9, <1>11, <1>12, <2>2 DEF Decisions
<1>14. ASSUME o \notin crossed
       PROVE  Filled(GrnsFor(o), row) /\ Says(row) /\ \A v \in Busy' : job'[v].order # o
  <2>1. OrderKept(o)
    BY <1>14 DEF PurchasingInvariant
  <2>2. Filled(GrnsFor(o), row)
    BY <1>7, <1>12, <2>1 DEF OrderKept, Filled
  <2>3. po.status \in OPEN_STATUSES
    BY <1>1, <1>2, <1>4, <1>5, <1>7, <1>14, AtWork DEF Knows
  <2>4. Says(po)
    BY <1>7, <2>1 DEF OrderKept
  <2>5. ~po.byHand /\ ~Covered(po.lines, po.received)
    BY <2>3, <2>4 DEF Says, OPEN_STATUSES, Finished
  <2>6. Says(row)
    BY <1>6, <1>11, <1>12, <2>4, <2>5 DEF Says, Decisions, Finished
  <2>7. \A v \in Busy' : job'[v].order # o
    <3>1. \A v \in Busy' : v \in Busy /\ v # w /\ job'[v] = job[v]
      BY <1>2, <1>3, JobStep
    <3>2. \A v \in Busy : job[v].order = o => v = w
      BY <1>1, <1>4, <1>5, <1>14, AtWork
    <3> QED BY <3>1, <3>2
  <2> QED BY <2>2, <2>6, <2>7
<1> QED BY <1>2, <1>10, <1>12, <1>13, <1>14, RowWritten

LEMMA WriteCloseKeeps ==
    ASSUME PurchasingInvariant, NEW w \in Handler, WriteClose(w)
    PROVE  PurchasingInvariant'
<1>1. PICK c : c = job[w]
  OBVIOUS
<1>2. /\ c.pc = "write" /\ c.op = "close" /\ job' = [job EXCEPT ![w] = NoJob]
      /\ UNCHANGED <<grns, prices, serial, crossed>>
      /\ order' = [order EXCEPT ![c.order].status = "done",
                               ![c.order].closed = TRUE,
                               ![c.order].byHand = TRUE]
  BY <1>1 DEF WriteClose, Finish
<1>3. PurchasingTypes /\ Job(c)
  BY <1>1 DEF PurchasingInvariant, PurchasingTypes
<1>4. c \in CloseJob /\ c # NoJob
  <2>1. c # NoJob
    BY <1>2, <1>3, JobPieces
  <2> QED BY <1>2, <1>3, <2>1, JobPieces
<1>5. PICK o \in Order : o = c.order
  BY <1>4 DEF CloseJob
<1>6. PICK po : po = order[o]
  OBVIOUS
<1>7. PICK row : row = [po EXCEPT !.status = "done", !.closed = TRUE, !.byHand = TRUE]
  OBVIOUS
<1>8. po \in OrderRow /\ DOMAIN po.received = DOMAIN po.lines /\ order \in [Order -> OrderRow]
  BY <1>3, <1>6 DEF PurchasingTypes
<1>9. order' = [order EXCEPT ![o] = row]
  BY <1>2, <1>5, <1>6, <1>7, <1>8
<1>10. /\ row \in OrderRow /\ row.status = "done" /\ row.lines = po.lines /\ row.received = po.received
       /\ row.closed = TRUE /\ row.byHand = TRUE
  BY <1>7, <1>8 DEF OrderRow, Finished
<1>11. DOMAIN row.received = DOMAIN row.lines /\ row.status # "none" /\ row.lines # << >>
  <2>1. po.status # "none"
    BY <1>1, <1>4, <1>5, <1>6, AtWork
  <2>2. po.lines # << >>
    BY <1>6, <2>1 DEF PurchasingInvariant, Unraised
  <2> QED BY <1>8, <1>10, <2>2
<1>12. ASSUME o \notin crossed
       PROVE  Filled(GrnsFor(o), row) /\ Says(row) /\ \A v \in Busy' : job'[v].order # o
  <2>1. OrderKept(o)
    BY <1>12 DEF PurchasingInvariant
  <2>2. Filled(GrnsFor(o), row)
    BY <1>6, <1>10, <2>1 DEF OrderKept, Filled
  <2>3. Says(row)
    BY <1>6, <1>10, <2>1 DEF OrderKept, Says, Finished
  <2>4. \A v \in Busy' : job'[v].order # o
    <3>1. \A v \in Busy' : v \in Busy /\ v # w /\ job'[v] = job[v]
      BY <1>2, <1>3, JobStep
    <3>2. \A v \in Busy : job[v].order = o => v = w
      BY <1>1, <1>4, <1>5, <1>12, AtWork
    <3> QED BY <3>1, <3>2
  <2> QED BY <2>2, <2>3, <2>4
<1> QED BY <1>2, <1>9, <1>10, <1>11, <1>12, RowWritten

LEMMA RaiseKeeps ==
    ASSUME PurchasingInvariant, NEW o \in Order, NEW s \in Supplier \cup {NoSupplier},
           NEW lines \in Asked, Raise(o, s, lines)
    PROVE  PurchasingInvariant'
<1>1. PICK row : row = [NoSuchOrder EXCEPT !.status = "requested", !.supplier = s, !.lines = lines,
                                           !.received = [n \in DOMAIN lines |-> 0]]
  OBVIOUS
<1>2. /\ order[o].status = "none" /\ order' = [order EXCEPT ![o] = row]
      /\ UNCHANGED <<grns, prices, serial, crossed>> /\ job' = job
  BY <1>1 DEF Raise
<1>3. lines \in Seq(OrderLine) /\ lines # << >> /\ Lines(lines)
  BY PurchasingAssumption, OrderLines
<1>4. PICK zero : zero = [n \in DOMAIN lines |-> 0]
  OBVIOUS
<1>5. zero \in [DOMAIN lines -> Nat] /\ DOMAIN lines \subseteq Nat
  BY <1>3, <1>4, LinesFinite
<1>6. zero \in Received
  BY <1>5 DEF Received
<1>7. row = [status |-> "requested", supplier |-> s, lines |-> lines, received |-> zero,
             closed |-> FALSE, byHand |-> FALSE]
  BY <1>1, <1>4 DEF NoSuchOrder
<1>8. row \in OrderRow
  BY <1>3, <1>6, <1>7 DEF OrderRow, OPEN_STATUSES
<1>9. DOMAIN row.received = DOMAIN row.lines /\ row.status # "none" /\ row.lines # << >>
  BY <1>3, <1>5, <1>7
<1>10. /\ \A g \in grns : g.order # o
       /\ \A v \in Busy : job[v].order # o
  BY <1>2 DEF PurchasingInvariant, Unraised
<1>11. Filled(GrnsFor(o), row)
  <2> SUFFICES ASSUME NEW i \in ItemsOf(lines) PROVE Brought({}, i) = ReceivedOf(i, lines, zero)
    <3>1. GrnsFor(o) = {}
      BY <1>10 DEF GrnsFor
    <3> QED BY <1>7, <3>1 DEF Filled
  <2>1. PICK f : f = [g \in {} |-> TotalOf(i, g.lines)]
    OBVIOUS
  <2>2. f \in [{} -> Int]
    BY <2>1
  <2>3. Brought({}, i) = 0
    BY <2>1, <2>2, SumEmpty DEF Brought
  <2>4. PICK S : S = LinesOf(i, lines)
    OBVIOUS
  <2>5. IsFiniteSet(S) /\ S \subseteq DOMAIN lines
    BY <1>3, <2>4, LinesFinite
  <2>6. [n \in S |-> zero[n]] = [n \in S |-> 0]
    BY <1>4, <2>5
  <2>7. SumFunction([n \in S |-> 0]) = 0
    BY <2>5, SumZero
  <2>8. ReceivedOf(i, lines, zero) = 0
    BY <2>4, <2>6, <2>7 DEF ReceivedOf
  <2> QED BY <2>3, <2>8
<1>12. Says(row)
  <2>1. \A n \in DOMAIN lines : zero[n] = 0 /\ Base(lines[n]) \in Nat \ {0}
    BY <1>3, <1>4, BaseNat
  <2>2. PICK n : n \in DOMAIN lines
    <3>1. PICK k \in Nat : DOMAIN lines = 1 .. k /\ k = Len(lines)
      BY <1>3
    <3>2. k # 0
      BY <1>3, <3>1
    <3>3. 1 \in DOMAIN lines
      BY <3>1, <3>2
    <3> QED BY <3>3
  <2>3. ~Covered(lines, zero)
    BY <2>1, <2>2 DEF Covered
  <2>4. SurplusLast(lines, zero)
    <3>1. \A m \in DOMAIN lines : ~(zero[m] > Base(lines[m]))
      BY <2>1
    <3> QED BY <3>1 DEF SurplusLast
  <2> QED BY <1>7, <2>3, <2>4 DEF Says, Finished
<1>13. \A v \in Busy' : job'[v].order # o
  BY <1>2, <1>10 DEF Busy
<1> QED BY <1>2, <1>8, <1>9, <1>11, <1>12, <1>13, RowWritten

-----------------------------------------------------------------------------
(* A delivery is booked. *)

LEMMA LatestIs ==
    ASSUME NEW C, NEW g, g.no \in Nat, \A h \in C : h.no \in Nat /\ h.no < g.no
    PROVE  LatestOf(C \cup {g}) = g
<1>1. \A x \in C \cup {g} : (\A h \in C \cup {g} : h.no <= x.no) <=> x = g
  OBVIOUS
<1> QED BY <1>1 DEF LatestOf

LEMMA NewestIs ==
    ASSUME NEW R, NEW new, new.grn \in Nat, new.line \in Nat, \A r \in R : r.grn \in Nat /\ r.grn < new.grn
    PROVE  NewestOf(R \cup {new}) = new
<1> DEFINE Newest(x) ==
             \A other \in R \cup {new} :
                 \/ other.grn < x.grn
                 \/ other.grn = x.grn /\ other.line <= x.line
<1>1. Newest(new)
  OBVIOUS
<1>2. ASSUME NEW x \in R PROVE ~Newest(x)
  BY <1>2
<1>3. \A x \in R \cup {new} : Newest(x) <=> x = new
  <2> HIDE DEF Newest
  <2> QED BY <1>1, <1>2
<1> QED BY <1>3 DEF NewestOf

\* The rows a delivery writes, of its parts.
Written(no, s, lines, last) ==
    {[grn |-> no, line |-> n, supplier |-> s, pack |-> lines[n].pack, price |-> lines[n].price] :
       n \in {m \in DOMAIN lines : lines[m].price # last[lines[m].pack]}}

\* The delivery's own prices come last in the history.
LEMMA HistoryGoesOn ==
    ASSUME NEW lines \in Seq(DeliveryLine), NEW s, NEW no \in Nat, NEW last, NEW p \in Pack,
           NEW g, g.no = no, g.lines = lines,
           NEW G, \A h \in G : h.no \in Nat /\ h.no < no,
           NEW R, \A r \in R : r.grn \in Nat /\ r.grn < no,
           last[p] = PriceOf(OfPack(R, p)),
           NEW New, New = Written(no, s, lines, last),
           HistoryOf(Naming(G, p), OfPack(R, p), p)
    PROVE  HistoryOf(Naming(G \cup {g}, p), OfPack(R \cup New, p), p)
<1> DEFINE RowOf(n) == [grn |-> no, line |-> n, supplier |-> s, pack |-> lines[n].pack, price |-> lines[n].price]
           N == Named(lines, p)
           C == Naming(G, p)
           Q == OfPack(R, p)
<1>1. /\ DOMAIN lines = 1 .. Len(lines) /\ Len(lines) \in Nat
      /\ \A n \in DOMAIN lines : n \in Nat /\ lines[n].price \in Nat
  <2>1. DOMAIN lines = 1 .. Len(lines) /\ Len(lines) \in Nat
    OBVIOUS
  <2>2. \A n \in DOMAIN lines : lines[n] \in DeliveryLine
    OBVIOUS
  <2> QED BY <2>1, <2>2 DEF DeliveryLine
<1>2. \A n : RowOf(n).grn = no /\ RowOf(n).line = n /\ RowOf(n).pack = lines[n].pack /\ RowOf(n).price = lines[n].price
  OBVIOUS
<1>3. New = {RowOf(n) : n \in {m \in DOMAIN lines : lines[m].price # last[lines[m].pack]}}
  BY DEF Written
<1> HIDE DEF RowOf
<1>4. OfPack(New, p) = {RowOf(n) : n \in {m \in N : lines[m].price # last[p]}}
  <2>1. \A n \in DOMAIN lines : n \in N <=> lines[n].pack = p
    BY DEF Named
  <2>2. N \subseteq DOMAIN lines
    BY DEF Named
  <2>3. \A row \in New : row.pack = p <=> \E n \in {m \in N : lines[m].price # last[p]} : row = RowOf(n)
    BY <1>2, <1>3, <2>1, <2>2
  <2>4. \A n \in {m \in N : lines[m].price # last[p]} : RowOf(n) \in New
    BY <1>2, <1>3, <2>1, <2>2
  <2> QED BY <2>3, <2>4 DEF OfPack
<1>5. OfPack(R \cup New, p) = Q \cup OfPack(New, p)
  BY DEF OfPack
<1>6. CASE N = {}
  <2>1. OfPack(New, p) = {}
    BY <1>4, <1>6
  <2>2. Naming(G \cup {g}, p) = C
    BY <1>6 DEF Naming, Named
  <2> QED BY <1>5, <2>1, <2>2
<1>7. CASE N # {}
  <2>1. Naming(G \cup {g}, p) = C \cup {g}
    BY <1>7 DEF Naming, Named
  <2>2. \A h \in C : h.no \in Nat /\ h.no < g.no
    BY DEF Naming
  <2>3. LatestOf(C \cup {g}) = g
    <3> HIDE DEF C
    <3> QED BY <2>2, LatestIs
  <2>4. ASSUME Cardinality(N) = 1
        PROVE  Q \cup OfPack(New, p) # {} /\ \A n \in N : NewestOf(Q \cup OfPack(New, p)).price = lines[n].price
    <3>1. IsFiniteSet(N)
      <4>1. N \subseteq 1 .. Len(lines)
        BY <1>1 DEF Named
      <4>2. IsFiniteSet(1 .. Len(lines))
        BY <1>1, FS_Interval
      <4> HIDE DEF N
      <4> QED BY <4>1, <4>2, FS_Subset
    <3>2. PICK n : N = {n}
      <4> HIDE DEF N
      <4> QED BY <2>4, <3>1, FS_Singleton
    <3>3. n \in DOMAIN lines /\ n \in Nat /\ lines[n].price \in Nat
      BY <1>1, <3>2 DEF Named
    <3>4. \A r \in Q : r.grn \in Nat /\ r.grn < no
      BY DEF OfPack
    <3>5. CASE lines[n].price # last[p]
      <4>1. OfPack(New, p) = {RowOf(n)}
        BY <1>4, <3>2, <3>5
      <4>2. NewestOf(Q \cup {RowOf(n)}) = RowOf(n)
        <5>1. PICK new : new = RowOf(n)
          OBVIOUS
        <5>2. new.grn \in Nat /\ new.line \in Nat /\ \A r \in Q : r.grn \in Nat /\ r.grn < new.grn
          BY <1>2, <3>3, <3>4, <5>1
        <5> HIDE DEF Q
        <5>3. NewestOf(Q \cup {new}) = new
          BY <5>2, NewestIs
        <5> QED BY <5>1, <5>3
      <4> QED BY <1>2, <3>2, <4>1, <4>2
    <3>6. CASE lines[n].price = last[p]
      <4>1. OfPack(New, p) = {}
        BY <1>4, <3>2, <3>6
      <4>2. Q # {} /\ NewestOf(Q).price = lines[n].price
        BY <3>3, <3>6 DEF PriceOf
      <4>3. Q \cup OfPack(New, p) = Q
        BY <4>1
      <4> QED BY <3>2, <4>2, <4>3
    <3> QED BY <3>5, <3>6
  <2> QED BY <1>5, <2>1, <2>3, <2>4 DEF HistoryOf
<1> QED BY <1>6, <1>7

\* A delivery adds to what was brought.
LEMMA BroughtMore ==
    ASSUME NEW G, IsFiniteSet(G), NEW g, g \notin G, NEW i,
           \A h \in G \cup {g} : Lines(h.lines)
    PROVE  Brought(G \cup {g}, i) = Brought(G, i) + TotalOf(i, g.lines)
<1> DEFINE H == G \cup {g}
           f == [h \in H |-> TotalOf(i, h.lines)]
           e == [h \in G |-> TotalOf(i, h.lines)]
<1>1. f \in [H -> Int] /\ e \in [G -> Int] /\ g \in H /\ f[g] = TotalOf(i, g.lines)
  BY TotalNat
<1>2. IsFiniteSet(H)
  BY FS_AddElement
<1>3. [h \in H \ {g} |-> f[h]] = e
  OBVIOUS
<1>4. Brought(G \cup {g}, i) = SumFunction(f) /\ Brought(G, i) = SumFunction(e)
  BY DEF Brought
<1>5. TotalOf(i, g.lines) \in Nat
  BY TotalNat
<1> HIDE DEF f, e, H
<1>6. SumFunction(f) = f[g] + SumFunction([h \in H \ {g} |-> f[h]])
  BY <1>1, <1>2, SumTake
<1>7. SumFunction(e) \in Int
  BY <1>1, SumType
<1> QED BY <1>1, <1>3, <1>4, <1>5, <1>6, <1>7

\* What the delivery finds and leaves on an order that is its own.
LEMMA CommitFills ==
    ASSUME NEW po \in OrderRow, Lines(po.lines), po.received \in [DOMAIN po.lines -> Nat],
           NEW d, d \in DeliverJob(d.last), d.pc = "commit", Knows(d, po), Says(po),
           NEW G, IsFiniteSet(G), NEW g, g \notin G, g.lines = d.lines, \A h \in G : Lines(h.lines),
           Filled(G, po),
           NEW row, row.lines = po.lines, row.received = WithFills(po.received, d.fills),
           row.status = IF d.complete THEN "done" ELSE "ordered",
           row.closed <=> po.closed \/ d.complete, row.byHand <=> po.byHand /\ ~d.complete
    PROVE  Filled(G \cup {g}, row) /\ Says(row)
<1>1. /\ d.op = "deliver" /\ Lines(d.lines)
  BY DeliveryLines DEF DeliverJob
<1>2. /\ po.status \in RECEIVABLE /\ d.fills = Fills(po.lines, po.received, d.lines)
      /\ d.complete <=> Covered(po.lines, WithFills(po.received, d.fills))
  BY <1>1 DEF Knows
<1>3. PICK new : new = WithFills(po.received, Fills(po.lines, po.received, d.lines))
  OBVIOUS
<1>4. row.received = new /\ (d.complete <=> Covered(po.lines, new))
  BY <1>2, <1>3
<1>5. Says(row)
  <2>1. SurplusLast(po.lines, new)
    BY <1>1, <1>3, SurplusStaysLast DEF Says
  <2>2. ~po.closed /\ ~po.byHand
    BY <1>2 DEF Says, RECEIVABLE, Finished
  <2>3. row.status = "done" <=> d.complete
    OBVIOUS
  <2>4. row.status \in Finished <=> d.complete
    BY DEF Finished
  <2> QED BY <1>4, <2>1, <2>2, <2>3, <2>4 DEF Says
<1>6. ASSUME NEW i \in ItemsOf(po.lines)
      PROVE  Brought(G \cup {g}, i) = ReceivedOf(i, po.lines, new)
  <2>1. ReceivedOf(i, po.lines, new) = ReceivedOf(i, po.lines, po.received) + TotalOf(i, d.lines)
    BY <1>1, <1>3, FilledByDelivery
  <2>2. Brought(G \cup {g}, i) = Brought(G, i) + TotalOf(i, g.lines)
    <3>1. \A h \in G \cup {g} : Lines(h.lines)
      BY <1>1
    <3> QED BY <3>1, BroughtMore
  <2>3. Brought(G, i) = ReceivedOf(i, po.lines, po.received)
    BY DEF Filled
  <2> QED BY <2>1, <2>2, <2>3
<1>7. Filled(G \cup {g}, row)
  BY <1>4, <1>6 DEF Filled
<1> QED BY <1>5, <1>7

LEMMA CommitKeeps ==
    ASSUME PurchasingInvariant, NEW w \in Handler, Commit(w)
    PROVE  PurchasingInvariant'
<1>1. PICK d : d = job[w]
  OBVIOUS
<1>2. PICK g : g = [no |-> d.no, order |-> d.order, supplier |-> d.supplier, lines |-> d.lines]
  OBVIOUS
<1>3. PICK New : New = NewPrices(d)
  OBVIOUS
<1>4. /\ d.pc = "commit" /\ grns' = grns \cup {g} /\ prices' = prices \cup New /\ serial' = serial
      /\ job' = [job EXCEPT ![w] = NoJob] /\ crossed' = crossed
      /\ order' = IF d.order = NoOrder THEN order
                  ELSE [order EXCEPT
                        ![d.order].received = WithFills(@, d.fills),
                        ![d.order].status = IF d.complete THEN "done" ELSE "ordered",
                        ![d.order].closed = @ \/ d.complete,
                        ![d.order].byHand = @ /\ ~d.complete]
  BY <1>1, <1>2, <1>3 DEF Commit, Finish
<1>5. PurchasingTypes /\ Job(d)
  BY <1>1 DEF PurchasingInvariant, PurchasingTypes
<1>6. d \in DeliverJob(d.last) /\ d # NoJob /\ d.op = "deliver"
  BY <1>4, <1>5, JobPieces
<1>7. /\ d.no \in Nat /\ d.no <= serial /\ serial \in Nat /\ d.lines \in Seq(DeliveryLine) /\ d.supplier \in Supplier
      /\ d.order \in Order \cup {NoOrder} /\ d.complete \in BOOLEAN /\ d.fills \in Received
  BY <1>1, <1>5, <1>6 DEF DeliverJob, PurchasingTypes
<1>8. /\ DOMAIN job' = Handler
      /\ \A v \in Handler : JobOK(job'[v], serial')
      /\ \A v \in Busy' : v \in Busy /\ job'[v] = job[v]
  BY <1>4, <1>5, JobsEnd
<1>9. \A v \in Busy' : v \in Busy /\ v # w
  BY <1>4, <1>5, JobStep
<1>10. /\ g.no = d.no /\ g.order = d.order /\ g.supplier = d.supplier /\ g.lines = d.lines /\ g \in Grn
  BY <1>2, <1>7 DEF Grn
<1>11. /\ \A x \in Order : GrnsFor(x)' = IF x = d.order THEN GrnsFor(x) \cup {g} ELSE GrnsFor(x)
       /\ \A t : GrnsOf(t)' = IF t = d.supplier THEN GrnsOf(t) \cup {g} ELSE GrnsOf(t)
  BY <1>4, <1>10 DEF GrnsFor, GrnsOf
<1>12. \A row \in New : row \in PriceRow /\ row.grn = d.no /\ row.supplier = d.supplier
  <2>1. \A n \in DOMAIN d.lines : n \in Nat /\ d.lines[n] \in DeliveryLine
    BY <1>7
  <2>2. \A n \in DOMAIN d.lines : n \in Nat /\ d.lines[n].pack \in Pack /\ d.lines[n].price \in Nat
    BY <2>1 DEF DeliveryLine
  <2> QED BY <1>3, <1>7, <2>2 DEF NewPrices, PriceRow
<1>13. \A t : RowsOf(t)' = IF t = d.supplier THEN RowsOf(t) \cup New ELSE RowsOf(t)
  BY <1>4, <1>12 DEF RowsOf
<1>14. /\ \A h \in grns : h.no \in Nat /\ h.no <= serial /\ Lines(h.lines)
       /\ \A row \in prices : row.grn \in Nat /\ row.grn <= serial
       /\ IsFiniteSet(grns)
  <2>1. \A h \in grns : h.lines \in Seq(DeliveryLine) /\ h.no \in Nat /\ h.no <= serial
    BY <1>5 DEF PurchasingTypes, Grn
  <2> QED BY <1>5, <2>1, DeliveryLines DEF PurchasingTypes, PriceRow
<1>15. ASSUME NEW o \in Order, o = d.order
       PROVE  \E row \in OrderRow :
                /\ order' = [order EXCEPT ![o] = row]
                /\ row.lines = order[o].lines /\ row.received = WithFills(order[o].received, d.fills)
                /\ row.status = (IF d.complete THEN "done" ELSE "ordered")
                /\ row.closed <=> order[o].closed \/ d.complete
                /\ row.byHand <=> order[o].byHand /\ ~d.complete
  <2>1. PICK po : po = order[o]
    OBVIOUS
  <2>2. /\ po \in OrderRow /\ order \in [Order -> OrderRow] /\ Lines(po.lines) /\ po.received \in Received
        /\ po.received \in [DOMAIN po.lines -> Nat] /\ d.order # NoOrder
    BY <1>5, <1>15, <2>1, OrderPieces, PurchasingAssumption DEF PurchasingTypes
  <2>3. PICK closed \in BOOLEAN, byHand \in BOOLEAN :
          closed = (po.closed \/ d.complete) /\ byHand = (po.byHand /\ ~d.complete)
    <3>1. po.closed \in BOOLEAN /\ po.byHand \in BOOLEAN
      BY <2>2 DEF OrderRow
    <3>2. (po.closed \/ d.complete) \in BOOLEAN /\ (po.byHand /\ ~d.complete) \in BOOLEAN
      BY <1>7, <3>1
    <3> QED BY <3>2, Zenon
  <2>4. PICK received : received = WithFills(po.received, d.fills)
    OBVIOUS
  <2>5. received \in Received
    <3>1. \A n \in DOMAIN po.received : received[n] \in Nat
      BY <1>7, <2>2, <2>4 DEF WithFills, Received
    <3>2. received \in [DOMAIN po.received -> Nat]
      BY <2>4, <3>1 DEF WithFills
    <3>3. DOMAIN po.received \in SUBSET Nat
      BY <2>2 DEF Received
    <3> QED BY <3>2, <3>3 DEF Received
  <2>6. PICK status \in {"done", "ordered"} : status = IF d.complete THEN "done" ELSE "ordered"
    OBVIOUS
  <2>7. PICK row : row = [po EXCEPT !.received = received, !.status = status, !.closed = closed, !.byHand = byHand]
    OBVIOUS
  <2>8. order' = [order EXCEPT ![o] = row]
    <3>1. order' = [order EXCEPT
                        ![o].received = WithFills(@, d.fills),
                        ![o].status = IF d.complete THEN "done" ELSE "ordered",
                        ![o].closed = @ \/ d.complete,
                        ![o].byHand = @ /\ ~d.complete]
      BY <1>4, <1>15, <2>2
    <3> QED BY <2>1, <2>2, <2>3, <2>4, <2>6, <2>7, <3>1
  <2>9. /\ row \in OrderRow /\ row.lines = po.lines /\ row.received = received /\ row.status = status
        /\ row.closed = closed /\ row.byHand = byHand
    BY <2>2, <2>5, <2>7 DEF OrderRow, Finished, OPEN_STATUSES
  <2> QED BY <2>1, <2>3, <2>4, <2>6, <2>8, <2>9
<1>16. PurchasingTypes'
  <2>1. /\ order' \in [Order -> OrderRow]
        /\ \A x \in Order : DOMAIN order'[x].received = DOMAIN order'[x].lines
    <3>1. CASE d.order = NoOrder
      BY <1>4, <1>5, <3>1 DEF PurchasingTypes
    <3>2. CASE d.order # NoOrder
      <4>1. PICK o \in Order : o = d.order
        BY <1>7, <3>2
      <4>2. PICK row \in OrderRow :
                /\ order' = [order EXCEPT ![o] = row]
                /\ row.lines = order[o].lines /\ row.received = WithFills(order[o].received, d.fills)
        BY <1>15, <4>1
      <4>3. DOMAIN row.received = DOMAIN row.lines
        BY <1>5, <4>2 DEF WithFills, PurchasingTypes
      <4> QED BY <1>5, <4>2, <4>3 DEF PurchasingTypes
    <3> QED BY <3>1, <3>2
  <2>2. grns' \subseteq Grn /\ IsFiniteSet(grns') /\ \A h \in grns' : h.no <= serial'
    <3>1. IsFiniteSet(grns \cup {g})
      BY <1>14, FS_AddElement
    <3>2. grns \subseteq Grn
      BY <1>5 DEF PurchasingTypes
    <3>3. \A h \in grns \cup {g} : h.no <= serial
      BY <1>7, <1>10, <1>14
    <3> QED BY <1>4, <1>10, <3>1, <3>2, <3>3
  <2>3. prices' \subseteq PriceRow /\ \A row \in prices' : row.grn <= serial'
    BY <1>4, <1>5, <1>7, <1>12, <1>14 DEF PurchasingTypes
  <2> QED BY <1>4, <1>7, <1>8, <2>1, <2>2, <2>3 DEF PurchasingTypes, JobOK
<1>17. \A x \in Order : x # d.order => order'[x] = order[x] /\ GrnsFor(x)' = GrnsFor(x)
  <2> SUFFICES ASSUME NEW x \in Order, x # d.order PROVE order'[x] = order[x]
    BY <1>11
  <2>1. CASE d.order = NoOrder
    BY <1>4, <2>1
  <2>2. CASE d.order # NoOrder
    <3>1. PICK o \in Order : o = d.order
      BY <1>7, <2>2
    <3>2. PICK row : order' = [order EXCEPT ![o] = row]
      BY <1>15, <3>1
    <3> QED BY <3>1, <3>2
  <2> QED BY <2>1, <2>2
<1>18. ASSUME NEW o \in Order, o = d.order
       PROVE  Unraised(o)' /\ (o \notin crossed => OrderKept(o)')
  <2>1. PICK row \in OrderRow :
                /\ order' = [order EXCEPT ![o] = row]
                /\ row.lines = order[o].lines /\ row.received = WithFills(order[o].received, d.fills)
                /\ row.status = (IF d.complete THEN "done" ELSE "ordered")
                /\ row.closed <=> order[o].closed \/ d.complete
                /\ row.byHand <=> order[o].byHand /\ ~d.complete
    BY <1>15, <1>18
  <2>2. order'[o] = row
    BY <1>5, <2>1 DEF PurchasingTypes
  <2>3. Unraised(o)'
    <3>1. order[o].status # "none"
      BY <1>1, <1>6, <1>18, AtWork
    <3>2. order[o].lines # << >>
      BY <3>1 DEF PurchasingInvariant, Unraised
    <3>3. row.status # "none" /\ row.lines # << >>
      BY <2>1, <3>2
    <3> QED BY <2>2, <3>3 DEF Unraised
  <2>4. ASSUME o \notin crossed PROVE OrderKept(o)'
    <3>1. /\ \A v \in Busy : job[v].order = o => v = w
          /\ Knows(d, order[o]) /\ Later(d, GrnsFor(o))
      BY <1>1, <1>6, <1>18, <2>4, AtWork
    <3>2. OrderKept(o)
      BY <2>4 DEF PurchasingInvariant
    <3>3. Filled(GrnsFor(o), order[o]) /\ Says(order[o])
      BY <3>2 DEF OrderKept
    <3>4. PICK G : G = GrnsFor(o)
      OBVIOUS
    <3>5. /\ IsFiniteSet(G) /\ \A h \in G : Lines(h.lines) /\ h.no \in Nat /\ h.no < d.no
          /\ g \notin G
      <4>1. G \subseteq grns
        BY <3>4 DEF GrnsFor
      <4>2. \A h \in G : h.no < d.no
        BY <1>4, <1>6, <3>1, <3>4 DEF Later
      <4> QED BY <1>7, <1>10, <1>14, <4>1, <4>2, FS_Subset
    <3>6. /\ order[o] \in OrderRow /\ Lines(order[o].lines)
          /\ order[o].received \in [DOMAIN order[o].lines -> Nat]
      BY <1>5, OrderPieces
    <3>7. Filled(G \cup {g}, row) /\ Says(row)
      <4>1. PICK po : po = order[o]
        OBVIOUS
      <4>2. /\ po \in OrderRow /\ Lines(po.lines) /\ po.received \in [DOMAIN po.lines -> Nat]
            /\ Knows(d, po) /\ Says(po) /\ Filled(G, po)
        BY <3>1, <3>3, <3>4, <3>6, <4>1
      <4>3. /\ row.lines = po.lines /\ row.received = WithFills(po.received, d.fills)
            /\ row.status = IF d.complete THEN "done" ELSE "ordered"
        BY <2>1, <4>1
      <4>4. /\ row.closed <=> po.closed \/ d.complete
            /\ row.byHand <=> po.byHand /\ ~d.complete
        BY <2>1, <4>1
      <4>5. g.lines = d.lines /\ \A h \in G : Lines(h.lines)
        BY <1>10, <3>5
      <4> QED BY <1>4, <1>6, <3>5, <4>2, <4>3, <4>4, <4>5, CommitFills
    <3>8. \A v \in Busy' : job'[v].order # o
      BY <1>8, <1>9, <3>1
    <3>9. GrnsFor(o)' = G \cup {g}
      BY <1>11, <1>18, <3>4
    <3> QED BY <1>8, <2>2, <3>7, <3>8, <3>9, OrderKeptNext
  <2> QED BY <2>3, <2>4
<1>19. PICK s \in Supplier : s = d.supplier
  BY <1>7
<1>20. ASSUME s \notin crossed PROVE SupplierKept(s)'
  <2>1. Enters(d, s)
    BY <1>6, <1>19 DEF Enters
  <2>2. /\ \A v \in Handler : Enters(job[v], s) => v = w
        /\ KnowsPrices(d, GrnsOf(s), RowsOf(s))
    BY <1>1, <1>6, <1>20, <2>1, AtWork
  <2>3. \A v \in Handler : ~Enters(job'[v], s)
    BY <1>8, <1>9, <2>2 DEF Enters, Busy
  <2>4. SupplierKept(s)
    BY <1>20 DEF PurchasingInvariant
  <2>5. PICK G, R : G = GrnsOf(s) /\ R = RowsOf(s)
    OBVIOUS
  <2>6. /\ \A h \in G : h.no \in Nat /\ h.no < d.no
        /\ \A r \in R : r.grn \in Nat /\ r.grn < d.no
    <3>1. G \subseteq grns /\ R \subseteq prices
      BY <2>5 DEF GrnsOf, RowsOf
    <3> QED BY <1>4, <1>6, <1>14, <2>2, <2>5, <3>1 DEF KnowsPrices, Later
  <2>7. New = Written(d.no, s, d.lines, d.last)
    BY <1>3, <1>19 DEF NewPrices, Written
  <2>8. ASSUME NEW p \in Pack
        PROVE  HistoryOf(Naming(G \cup {g}, p), OfPack(R \cup New, p), p)
    <3>1. d.last[p] = PriceOf(OfPack(R, p))
      BY <2>2, <2>5 DEF KnowsPrices
    <3>2. HistoryOf(Naming(G, p), OfPack(R, p), p)
      BY <2>4, <2>5 DEF SupplierKept
    <3>3. PICK lines \in Seq(DeliveryLine), no \in Nat, last \in {d.last} : lines = d.lines /\ no = d.no /\ last = d.last
      BY <1>7
    <3>4. g.no = no /\ g.lines = lines
      BY <1>10, <3>3
    <3>5. /\ \A h \in G : h.no \in Nat /\ h.no < no
          /\ \A r \in R : r.grn \in Nat /\ r.grn < no
          /\ last[p] = PriceOf(OfPack(R, p))
      BY <2>6, <3>1, <3>3
    <3>6. New = Written(no, s, lines, last)
      BY <2>7, <3>3
    <3> QED BY <3>2, <3>4, <3>5, <3>6, HistoryGoesOn
  <2>9. GrnsOf(s)' = G \cup {g} /\ RowsOf(s)' = R \cup New
    BY <1>11, <1>13, <1>19, <2>5
  <2>10. /\ \A v, x \in Handler : Enters(job'[v], s) /\ Enters(job'[x], s) => v = x
         /\ \A v \in Handler : Enters(job'[v], s) => KnowsPrices(job'[v], GrnsOf(s)', RowsOf(s)')
         /\ \A p \in Pack : HistoryOf(Naming(GrnsOf(s)', p), OfPack(RowsOf(s)', p), p)
    BY <2>3, <2>8, <2>9
  <2> QED BY <1>8, <2>10, SupplierKeptNext
<1>21. \A t \in Supplier : t # s => GrnsOf(t)' = GrnsOf(t) /\ RowsOf(t)' = RowsOf(t)
  BY <1>11, <1>13, <1>19
<1>22. PICK o : o = d.order
  OBVIOUS
<1>23. /\ \A x \in Order : x # o => order'[x] = order[x] /\ GrnsFor(x)' = GrnsFor(x)
       /\ o \in Order => Unraised(o)'
       /\ o \in Order \ crossed => OrderKept(o)'
  BY <1>17, <1>18, <1>22
<1>24. s \in Supplier \ crossed => SupplierKept(s)'
  BY <1>20
<1>25. crossed' = crossed /\ \A v \in Busy' : v \in Busy /\ job'[v] = job[v]
  BY <1>4, <1>8
<1> QED BY <1>16, <1>21, <1>23, <1>24, <1>25, TablesKeep

-----------------------------------------------------------------------------
LEMMA PurchasingBegins ==
    ASSUME PurchasingInit
    PROVE  PurchasingInvariant
<1>1. /\ \A o \in Order : order[o] = NoSuchOrder
      /\ grns = {} /\ prices = {} /\ serial = 0 /\ \A w \in Handler : job[w] = NoJob
      /\ DOMAIN job = Handler
  BY DEF PurchasingInit
<1>2. Busy = {}
  BY <1>1 DEF Busy
<1>3. PICK none : none = << >>
  OBVIOUS
<1>4. DOMAIN none = {} /\ none \in [{} -> Nat] /\ none \in Seq(OrderLine)
  BY <1>3
<1>5. NoSuchOrder = [status |-> "none", supplier |-> NoSupplier, lines |-> none,
                     received |-> none, closed |-> FALSE, byHand |-> FALSE]
  BY <1>3 DEF NoSuchOrder
<1>6. NoSuchOrder \in OrderRow
  <2>1. none \in Received
    BY <1>4 DEF Received
  <2> QED BY <1>4, <1>5, <2>1 DEF OrderRow
<1>7. PurchasingTypes
  <2>1. order \in [Order -> OrderRow]
    BY <1>1, <1>6 DEF PurchasingInit
  <2>2. \A o \in Order : DOMAIN order[o].received = DOMAIN order[o].lines
    BY <1>1, <1>5
  <2>3. IsFiniteSet(grns)
    BY <1>1, FS_EmptySet
  <2>4. \A w \in Handler : Job(job[w])
    BY <1>1 DEF Job
  <2> QED BY <1>1, <2>1, <2>2, <2>3, <2>4 DEF PurchasingTypes
<1>8. ASSUME NEW o \in Order PROVE Unraised(o) /\ OrderKept(o)
  <2>1. Unraised(o)
    <3>1. order[o] = NoSuchOrder
      BY <1>1
    <3>2. NoSuchOrder.status = "none"
      BY DEF NoSuchOrder
    <3> QED BY <1>1, <1>2, <3>1, <3>2 DEF Unraised
  <2>2. Says(order[o])
    BY <1>1, <1>4, <1>5 DEF Says, SurplusLast, Finished
  <2>3. Filled(GrnsFor(o), order[o])
    BY <1>1, <1>4, <1>5 DEF Filled, ItemsOf
  <2> QED BY <1>2, <2>1, <2>2, <2>3 DEF OrderKept
<1>9. ASSUME NEW s \in Supplier PROVE SupplierKept(s)
  <2>1. \A p \in Pack : HistoryOf(Naming(GrnsOf(s), p), OfPack(RowsOf(s), p), p)
    BY <1>1 DEF HistoryOf, Naming, GrnsOf
  <2> QED BY <1>1, <2>1 DEF SupplierKept, Enters
<1> QED BY <1>7, <1>8, <1>9 DEF PurchasingInvariant

LEMMA PurchasingGoesOn ==
    ASSUME PurchasingInvariant, [PurchasingNext]_purchasingVars
    PROVE  PurchasingInvariant'
<1>1. CASE \E o \in Order, s \in Supplier \cup {NoSupplier} : \E lines \in Asked : Raise(o, s, lines)
  BY <1>1, RaiseKeeps
<1>2. ASSUME NEW w \in Handler, NEW o \in Order, NEW decision \in Decisions,
             NEW s \in Supplier \cup {NoSupplier}, StartDecide(w, o, decision, s)
      PROVE  PurchasingInvariant'
  BY <1>2, StartDecideKeeps
<1>3. ASSUME NEW w \in Handler, NEW o \in Order, StartClose(w, o) PROVE PurchasingInvariant'
  BY <1>3, StartCloseKeeps
<1>4. ASSUME NEW w \in Handler, NEW o \in Order \cup {NoOrder}, NEW s \in Supplier,
             NEW lines \in Delivered, StartDelivery(w, o, s, lines)
      PROVE  PurchasingInvariant'
  BY <1>4, StartDeliveryKeeps
<1>5. ASSUME NEW w \in Handler,
             \/ WriteDecide(w) \/ WriteClose(w) \/ Record(w) \/ ReadOrder(w) \/ ReadLines(w)
             \/ Fill(w) \/ Commit(w) \/ Lose(w)
      PROVE  PurchasingInvariant'
  BY <1>5, WriteDecideKeeps, WriteCloseKeeps, RecordKeeps, ReadOrderKeeps, ReadLinesKeeps, FillKeeps,
     CommitKeeps, LoseKeeps
<1>6. CASE UNCHANGED purchasingVars
  BY <1>6 DEF purchasingVars, PurchasingInvariant, PurchasingTypes, Unraised, OrderKept, SupplierKept,
              Busy, GrnsFor, GrnsOf, RowsOf
<1> QED BY <1>1, <1>2, <1>3, <1>4, <1>5, <1>6 DEF PurchasingNext

\* The last row of a supplier's prices for a pack is what the last delivery charged.
THEOREM PriceHistoryIsKept == PurchasingSpec => []PriceHistoryKeepsUp
<1>1. PurchasingInvariant => PriceHistoryKeepsUp
  BY HistoryIs DEF PurchasingInvariant
<1> QED BY <1>1, PurchasingBegins, PurchasingGoesOn, PTL DEF PurchasingSpec

\* What the list says line by line is what the whole says.
LEMMA LinesSpeakForAll ==
    ASSUME PurchasingInvariant, NEW o \in Order \ crossed
    PROVE  ReceivedAsDelivered(o) /\ PartSaidAsItIs(o) /\ DoneWhenDelivered(o)
<1>1. PICK po : po = order[o]
  OBVIOUS
<1>2. PICK lines, received : lines = po.lines /\ received = po.received
  OBVIOUS
<1>3. Lines(lines) /\ received \in [DOMAIN lines -> Nat]
  BY <1>1, <1>2, OrderPieces DEF PurchasingInvariant
<1>4. /\ Filled(GrnsFor(o), po) /\ SurplusLast(lines, received)
      /\ po.status # "none" /\ ~po.byHand => (Covered(lines, received) <=> po.status = "done")
  BY <1>1, <1>2 DEF PurchasingInvariant, OrderKept, Says
<1>5. \A i \in ItemsOf(lines) : BroughtFor(o, i) = ReceivedOf(i, lines, received)
  BY <1>2, <1>4 DEF Filled, Brought, BroughtFor, GrnsFor
<1>6. /\ \A n \in DOMAIN lines : ItemOf[lines[n].pack] \in ItemsOf(lines) /\ n \in LinesOf(ItemOf[lines[n].pack], lines)
      /\ \A i : \A n \in LinesOf(i, lines) : n \in DOMAIN lines
  BY DEF ItemsOf, LinesOf
<1>7. \A i \in ItemsOf(lines) :
        /\ BroughtFor(o, i) \in Nat /\ TotalOf(i, lines) \in Nat
        /\ BroughtFor(o, i) < TotalOf(i, lines) <=> \E n \in LinesOf(i, lines) : received[n] < Base(lines[n])
        /\ BroughtFor(o, i) > 0 <=> \E n \in LinesOf(i, lines) : received[n] > 0
  <2> SUFFICES ASSUME NEW i \in ItemsOf(lines)
               PROVE  /\ BroughtFor(o, i) \in Nat /\ TotalOf(i, lines) \in Nat
                      /\ BroughtFor(o, i) < TotalOf(i, lines)
                           <=> \E n \in LinesOf(i, lines) : received[n] < Base(lines[n])
                      /\ BroughtFor(o, i) > 0 <=> \E n \in LinesOf(i, lines) : received[n] > 0
    OBVIOUS
  <2>1. ReceivedOf(i, lines, received) \in Nat /\ TotalOf(i, lines) \in Nat
    BY <1>3, ReceivedNat, TotalNat
  <2>2. ReceivedOf(i, lines, received) < TotalOf(i, lines)
          <=> \E n \in LinesOf(i, lines) : received[n] < Base(lines[n])
    BY <1>3, <1>4, ShortByLine
  <2>3. ReceivedOf(i, lines, received) > 0 <=> \E n \in LinesOf(i, lines) : received[n] > 0
    BY <1>3, SomethingByLine
  <2> QED BY <1>5, <2>1, <2>2, <2>3
<1>8. \A n \in DOMAIN lines : /\ received[n] \in Nat /\ Base(lines[n]) \in Nat
                              /\ Outstanding(lines, received, n) > 0 <=> received[n] < Base(lines[n])
  BY <1>3, BaseNat, OutstandingIs
<1>9. ReceivedAsDelivered(o)
  BY <1>1, <1>4, FilledIs
<1>10. PartSaidAsItIs(o)
  <2>1. (\E n \in DOMAIN lines : received[n] > 0) <=> \E i \in ItemsOf(lines) : BroughtFor(o, i) > 0
    BY <1>6, <1>7
  <2>2. (\E n \in DOMAIN lines : Outstanding(lines, received, n) > 0)
          <=> \E i \in ItemsOf(lines) : BroughtFor(o, i) < TotalOf(i, lines)
    BY <1>6, <1>7, <1>8
  <2> QED BY <1>1, <1>2, <2>1, <2>2 DEF PartSaidAsItIs, PartReceived
<1>11. DoneWhenDelivered(o)
  <2>1. Covered(lines, received) <=>
          \A n \in DOMAIN lines : BroughtFor(o, ItemOf[lines[n].pack]) >= TotalOf(ItemOf[lines[n].pack], lines)
    <3>1. \A i \in ItemsOf(lines) :
            BroughtFor(o, i) >= TotalOf(i, lines) <=> ~(BroughtFor(o, i) < TotalOf(i, lines))
      BY <1>7
    <3>2. \A n \in DOMAIN lines : received[n] >= Base(lines[n]) <=> ~(received[n] < Base(lines[n]))
      BY <1>8
    <3>3. ASSUME Covered(lines, received), NEW n \in DOMAIN lines
          PROVE  ~(BroughtFor(o, ItemOf[lines[n].pack]) < TotalOf(ItemOf[lines[n].pack], lines))
      BY <1>6, <1>7, <3>2, <3>3 DEF Covered
    <3>4. ASSUME NEW n \in DOMAIN lines, received[n] < Base(lines[n])
          PROVE  BroughtFor(o, ItemOf[lines[n].pack]) < TotalOf(ItemOf[lines[n].pack], lines)
      BY <1>6, <1>7, <3>4
    <3> QED BY <1>6, <3>1, <3>2, <3>3, <3>4 DEF Covered
  <2> QED BY <1>1, <1>2, <1>4, <2>1 DEF DoneWhenDelivered
<1> QED BY <1>9, <1>10, <1>11

\* Only orders that are open are written, when one handler at a time is at work.
LEMMA OnlyOpenMove ==
    ASSUME PurchasingInvariant, PurchasingNext, NEW o \in Order \ crossed'
    PROVE  order'[o] = order[o] \/ order[o].status \notin Finished
<1>1. order \in [Order -> OrderRow] /\ \A w \in Handler : Job(job[w])
  BY DEF PurchasingInvariant, PurchasingTypes
<1>2. CASE \E x \in Order, s \in Supplier \cup {NoSupplier} : \E lines \in Asked : Raise(x, s, lines)
  BY <1>1, <1>2 DEF Raise, Finished
<1>3. ASSUME NEW w \in Handler, order' = order PROVE order'[o] = order[o]
  BY <1>3
<1>4. ASSUME NEW w \in Handler, WriteDecide(w) \/ WriteClose(w) \/ Commit(w)
      PROVE  order'[o] = order[o] \/ order[o].status \notin Finished
  <2>1. PICK c : c = job[w]
    OBVIOUS
  <2>2. c.pc \in {"write", "commit"} /\ crossed' = crossed
    BY <1>4, <2>1 DEF WriteDecide, WriteClose, Commit, Finish
  <2>3. c # NoJob /\ (c.pc = "write" => c.op \in {"decide", "close"}) /\ (c.pc = "commit" => c.op = "deliver")
    BY <1>1, <2>1, <2>2, JobPieces DEF DecideJob, CloseJob
  <2>4. CASE c.order = o
    <3>1. Knows(c, order[o])
      BY <2>1, <2>2, <2>3, <2>4, AtWork
    <3>2. order[o].status \in OPEN_STATUSES
      BY <2>2, <2>3, <3>1, Constants DEF Knows
    <3> QED BY <3>2 DEF OPEN_STATUSES, Finished
  <2>5. CASE c.order # o
    BY <1>1, <1>4, <2>1, <2>5 DEF WriteDecide, WriteClose, Commit
  <2> QED BY <2>4, <2>5
<1>5. ASSUME NEW w \in Handler,
             \/ \E x \in Order : \E decision \in Decisions, s \in Supplier \cup {NoSupplier} : StartDecide(w, x, decision, s)
             \/ \E x \in Order : StartClose(w, x)
             \/ \E x \in Order \cup {NoOrder}, s \in Supplier : \E lines \in Delivered : StartDelivery(w, x, s, lines)
             \/ Record(w) \/ ReadOrder(w) \/ ReadLines(w) \/ Fill(w) \/ Lose(w)
      PROVE  order' = order
  BY <1>5 DEF StartDecide, StartClose, StartDelivery, Record, ReadOrder, ReadLines, Fill, Lose, GoTo
<1> QED BY <1>2, <1>4, <1>5 DEF PurchasingNext

\* An order says what was delivered, and is finished for good.
THEOREM OrdersRunTheirCourse == PurchasingSpec => OrderRunsItsCourse
<1>1. PurchasingInvariant => \A o \in Order \ crossed :
                               ReceivedAsDelivered(o) /\ PartSaidAsItIs(o) /\ DoneWhenDelivered(o)
  BY LinesSpeakForAll
<1>2. PurchasingInvariant /\ PurchasingInvariant' /\ [PurchasingNext]_purchasingVars
        => [\A o \in Order \ crossed' : FinishedForGood(o)]_purchasingVars
  <2> SUFFICES ASSUME PurchasingInvariant, PurchasingInvariant', PurchasingNext, NEW o \in Order \ crossed'
               PROVE  FinishedForGood(o)
    BY DEF purchasingVars
  <2>1. order'[o] = order[o] \/ order[o].status \notin Finished
    BY OnlyOpenMove
  <2>2. Says(order'[o])
    BY DEF PurchasingInvariant, OrderKept
  <2> QED BY <2>1, <2>2 DEF FinishedForGood, Says
<1> QED BY <1>1, <1>2, PurchasingBegins, PurchasingGoesOn, PTL DEF PurchasingSpec, OrderRunsItsCourse
=============================================================================
