-------------------------------- MODULE Pool --------------------------------
(***************************************************************************)
(* The connection pool every handler of the API shares                      *)
(* (api/src/db/index.ts): a fixed number of connections, handed out in the  *)
(* order they were asked for, to whoever waits for as long as it takes.  A  *)
(* statement outside a transaction takes a connection and gives it back; a  *)
(* transaction keeps its own until it ends.  openCount is the one handler   *)
(* that asks for a second connection while it keeps its first: it reads the *)
(* items through db, not through trx, inside its transaction                *)
(* (api/src/services/counts.ts).                                            *)
(***************************************************************************)
EXTENDS Integers, Sequences

CONSTANTS
    Connection,  \* the pool
    Handler,     \* requests the API works on at once
    NestedReads, \* per handler: how many reads through db its transactions make
    None         \* no connection

ASSUME PoolAssumption ==
    /\ NestedReads \in [Handler -> SUBSET Nat]
    /\ None \notin Connection

VARIABLES
    pc,     \* "idle", "queued", "tx", "nested" (queued for a second), "both"
    first,  \* the connection of the statement or transaction
    second, \* the connection of a read nested in it
    left,   \* reads through db still to make
    queue   \* handlers waiting for a connection, first come first

poolVars == <<pc, first, second, left, queue>>

\* Handlers that ask for a second connection.
Openers == {h \in Handler : \E n \in NestedReads[h] : n > 0}

FreeConnections == {c \in Connection : \A h \in Handler : first[h] # c /\ second[h] # c}

PoolInit ==
    /\ pc = [h \in Handler |-> "idle"]
    /\ first = [h \in Handler |-> None]
    /\ second = [h \in Handler |-> None]
    /\ left = [h \in Handler |-> 0]
    /\ queue = << >>

\* Mutant: the latest to ask is served first.
AskInFront(h, n) ==
    /\ pc[h] = "idle" /\ n \in NestedReads[h]
    /\ pc' = [pc EXCEPT ![h] = "queued"]
    /\ left' = [left EXCEPT ![h] = n]
    /\ queue' = <<h>> \o queue
    /\ UNCHANGED <<first, second>>

\* A statement or a transaction asks the pool for its connection.
Ask(h, n) ==
    /\ pc[h] = "idle" /\ n \in NestedReads[h]
    /\ pc' = [pc EXCEPT ![h] = "queued"]
    /\ left' = [left EXCEPT ![h] = n]
    /\ queue' = Append(queue, h)
    /\ UNCHANGED <<first, second>>

\* A read through db inside the transaction asks for another one.
AskAgain(h) ==
    /\ pc[h] = "tx" /\ left[h] > 0
    /\ pc' = [pc EXCEPT ![h] = "nested"]
    /\ queue' = Append(queue, h)
    /\ UNCHANGED <<first, second, left>>

\* The pool serves the handler that has waited longest.
GrantFirst(c) ==
    /\ queue # << >> /\ c \in FreeConnections
    /\ pc[Head(queue)] = "queued"
    /\ pc' = [pc EXCEPT ![Head(queue)] = "tx"]
    /\ first' = [first EXCEPT ![Head(queue)] = c]
    /\ queue' = Tail(queue)
    /\ UNCHANGED <<second, left>>

GrantSecond(c) ==
    /\ queue # << >> /\ c \in FreeConnections
    /\ pc[Head(queue)] = "nested"
    /\ pc' = [pc EXCEPT ![Head(queue)] = "both"]
    /\ second' = [second EXCEPT ![Head(queue)] = c]
    /\ queue' = Tail(queue)
    /\ UNCHANGED <<first, left>>

\* Mutant: the connection of the nested read is not given back.
ReadDoneKeepsIt(h) ==
    /\ pc[h] = "both"
    /\ pc' = [pc EXCEPT ![h] = "tx"]
    /\ left' = [left EXCEPT ![h] = @ - 1]
    /\ UNCHANGED <<first, second, queue>>

\* The nested read is answered and gives its connection back.
ReadDone(h) ==
    /\ pc[h] = "both"
    /\ pc' = [pc EXCEPT ![h] = "tx"]
    /\ second' = [second EXCEPT ![h] = None]
    /\ left' = [left EXCEPT ![h] = @ - 1]
    /\ UNCHANGED <<first, queue>>

GiveBack(h) ==
    /\ pc' = [pc EXCEPT ![h] = "idle"]
    /\ first' = [first EXCEPT ![h] = None]
    /\ second' = [second EXCEPT ![h] = None]
    /\ left' = [left EXCEPT ![h] = 0]
    /\ UNCHANGED queue

\* The statement is answered, or the transaction commits.
Done(h) == pc[h] = "tx" /\ left[h] = 0 /\ GiveBack(h)

\* A statement fails: the transaction rolls back and everything is given back.
StatementFails(h) == pc[h] \in {"tx", "both"} /\ GiveBack(h)

Grant == \E c \in Connection : GrantFirst(c) \/ GrantSecond(c)

Proceed(h) == AskAgain(h) \/ ReadDone(h) \/ Done(h)

PoolNext ==
    \/ Grant
    \/ \E h \in Handler :
        \/ \E n \in NestedReads[h] : Ask(h, n)
        \/ Proceed(h)
        \/ StatementFails(h)

PoolSpec == PoolInit /\ [][PoolNext]_poolVars

\* The pool serves its queue whenever it can and the database answers every
\* statement, so a handler that has its connections goes on.
PoolFairSpec == PoolSpec /\ WF_poolVars(Grant) /\ \A h \in Handler : WF_poolVars(Proceed(h))

-----------------------------------------------------------------------------
PoolTypeOK ==
    /\ pc \in [Handler -> {"idle", "queued", "tx", "nested", "both"}]
    /\ first \in [Handler -> Connection \cup {None}]
    /\ second \in [Handler -> Connection \cup {None}]
    /\ left \in [Handler -> Nat]
    /\ queue \in Seq(Handler)

\* A handler has exactly the connections its place in the code needs: none while
\* it waits for the first, and one, no longer two, while it waits for the second.
HoldsWhatItNeeds ==
    \A h \in Handler :
        /\ first[h] # None <=> pc[h] \in {"tx", "nested", "both"}
        /\ second[h] # None <=> pc[h] = "both"
        /\ pc[h] \in {"nested", "both"} => left[h] > 0
        /\ left[h] > 0 => h \in Openers

\* No connection serves two statements at once.
Exclusive ==
    \A g, h \in Handler :
        /\ g # h /\ first[g] # None => first[g] # first[h]
        /\ g # h /\ second[g] # None => second[g] # second[h]
        /\ first[g] # None => first[g] # second[h]

Holdings == HoldsWhatItNeeds /\ Exclusive

\* The type invariant: every variable has its shape, and what handlers hold agrees
\* with where they are in the code and with each other.
PoolInvariant == PoolTypeOK /\ Holdings

\* Nobody can go on: no connection is free and nobody who has one can use it.
Stuck == FreeConnections = {} /\ \A h \in Handler : pc[h] \notin {"tx", "both"}

\* Each connection is kept by a transaction that waits for another one.
FullOfOpens == \A c \in Connection : \E h \in Handler : pc[h] = "nested" /\ first[h] = c

\* The API stops only in one way: as many openCounts as the pool has connections,
\* each of them waiting for one more.  No other mix of requests can stop it.
StuckOnlyByOpens == Stuck => FullOfOpens

\* Short of that, everything that waits is served and ends.
EndsUnlessFullOfOpens ==
    ([]~FullOfOpens) => \A h \in Handler : pc[h] # "idle" ~> pc[h] = "idle"

\* Every request is answered, however many there are (the pool waits without a
\* limit for a connection, system-architecture.md: "Concurrent users ~100").
EveryRequestEnds == \A h \in Handler : pc[h] # "idle" ~> pc[h] = "idle"
=============================================================================
