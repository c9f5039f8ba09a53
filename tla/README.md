# The Grand Inventory, specified

TLA+ modules for this repository: the API's ledger, request flow, counts, purchasing,
deliveries, returns, rooms, logins and master data, the connection pool under them, the
reports computed from them, and the parts of the Angular console in which an answer that
is late, lost or out of order can put a wrong figure on the server.  TLC checks every
module on small instances; TLAPS proves their safety properties for every instance.

Every definition is translated from the code under `src/api`,
`src/grand-inventory-web` and the SQL under `src/db/migrations`; the documents under
`src/docs` and the comments supply the promises a property quotes.  `PROJECT.json` maps
each definition to its lines.

## 1. The system

A Fastify API over PostgreSQL (READ COMMITTED, a pool of ten connections), used by an
Angular console on shared tablets.  The API keeps no state of its own: everything is in
tables, and handlers of many requests run interleaved on one Node process, each between
its `await`s.  `current_stock` is a view that sums `stock_ledger`; nothing is ever
edited, a correction is a reversal.  The console keeps state per screen and per drawer,
cancels no call, and shows whatever answer arrives last.

| Component | State | Operations | Modelled in |
|---|---|---|---|
| Stock ledger (`services/ledger.ts`) | `stock_ledger`, `item_cost_state` | `postDocument`, `reverseDocument` | `Ledger` |
| Request flow (`services/requests.ts`, `routes/requests.ts`) | `issues`, `issue_lines` | ask, release, confirm, cancel, the queues | `Requests`, `RequestLifecycle`, `Worklists` |
| Idempotency (`services/idempotency.ts`) | `idempotency_keys` | `findReplay`, `claimKey`, `storeResponse` | `Requests`, `DeliveryForm` |
| Stock counts (`services/counts.ts`) | `stock_counts`, `stock_count_lines` | open, save, close, verify | `Counts`, `CountSheet` |
| Purchase orders (`services/purchasing.ts`) | `purchase_orders`, lines | raise, decide, close, receive against | `Purchasing`, `Shortfall` |
| Goods received (`services/grn.ts`) | `grn`, `grn_lines`, `supplier_prices` | post a delivery | `Purchasing`, `DeliveryForm` |
| Returns (`services/returns.ts`) | `section_returns`, `supplier_returns`, lines | hand back, ask, answer, bin, send, settle | `Returns` |
| Wastage, transfers (`services/wastage.ts`) | `wastage`, `transfers` | log, transfer, receive | `Rooms` |
| Opening stock (`services/opening.ts`) | `opening_stock`, lines | open a section | `Rooms` |
| Sections (`routes/setup.ts`, `plugins/auth.ts`) | `sections.is_active` | close, reopen; who may enter | `Rooms`, `Branches` |
| Connection pool (`db/index.ts`) | connections, waiting queue | ask, grant, give back | `Pool` |
| Sessions, PIN lockout (`routes/auth.ts`, `plugins/auth.ts`) | `login_attempts`, tokens | login, refresh, expire | `Access` |
| Logins (`routes/admin.ts`) | `users` | add, change, switch off, unlock | `Access` |
| Console session (`core/auth.store.ts`, `core/auth.interceptor.ts`) | the session, `refreshInFlight` | sign in and out, calls, the shared refresh | `Tablet` |
| Master data (`routes/setup.ts`, `services/setup.ts`) | categories, items, packs, suppliers, branches, sections | add, change, retire | `Catalogue`, `Branches` |
| Reports (`services/reports.ts`, `services/reports-ops.ts`) | none: computed from the tables | A to L, the stock list, the suggestion | `StockReports`, `TradeReports` |
| Console lists and worklists (`pages/*`) | filter, page, rows; badges | tap, type, turn, answer | `Lists`, `Worklists` |
| Console forms and drawers (`pages/*`) | the boxes, a key, what was opened | fill in, save, retry, close | `CountSheet`, `DeliveryForm`, `Drawers`, `AskForm`, `Shortfall` |
| Settings, uploads, legacy `issues.ts`, migrations | -- | see section 6 | not modelled |

How they interact.  Every document -- delivery, issue, wastage, transfer, count, return,
opening -- calls `postDocument` inside its own transaction, and that is the only way to
the stock.  Handlers never call each other; they meet in the tables.  `closeCount`
writes a ledger document from the difference between what was counted and what the
ledger showed when the count was opened; `applyReceiptToPo` runs inside the transaction
of `createGrn`; a release and a hand-back meet in `issues.status`; `binDecidedLines`
posts a wastage document per line; a section that is switched off is refused by every
route that takes a section id, except the ones that finish older work.  The console
decides who is offered what from a role and from flags on the rows; the server decides
again.

What is hard.  Almost every handler has the same shape: it reads and checks outside a
transaction (or inside, under READ COMMITTED, without locks), then writes without
looking again.  So two handlers that overlap can each pass a check only one of them
should.  Other hazards are a retry after a lost answer, a process that dies between two
statements, row locks taken in two orders, quantities rounded or below zero, legal
sequences of calls nobody tried, reports that join the same rows by other keys, and
answers that reach a screen after it has moved on.  `PROJECT.json` lists 40 hazards,
each at its line, with the properties that would see it go wrong, or why none does.

## 2. How the modules correspond to the code

Common conventions:

* **A `Worker` (`Agent`, `Handler`) is a handler under way.**  `StartX` is the handler's
  checks outside its transaction, `LookX`/`ReadX` a read inside it, `WriteX`/`CommitX`
  its transaction.  What lies between two of them is where other handlers come in.  A
  step that writes several tables in one transaction is one step where nothing in the
  transaction is read in between; where something is (`createGrn`, `binDecidedLines`,
  `openingEligibility`, `postDocument`) the reads are steps of their own and uncommitted
  rows are kept by the worker, seen by it and by nobody else.
* **`Drop`/`Lose`/`Abandon`/`Fail`/`Refuse`** end a handler at any point: an exception,
  a lost connection, a dead process.  What was not committed never happened.
* **Row locks.**  `Ledger` models them fully, with waiting, deadlock and PostgreSQL's
  choice of a victim.  Elsewhere a lock is taken at the last step that could come after
  it in the code; this loses no interleaving of the tables, only waiting.
* **A call of the console** is a record with its place on the way: sent, served,
  answered, lost before or after the server did it.  Answers come in any order unless
  the page keeps the button dead until one is there.
* **Data** is as small as the properties allow: items, users, sections are model values,
  quantities small integers in stock units (`Ledger`: the smallest unit of the column,
  so that `round()` matters).
* **History variables** (`overlaps`, `raced`, `astray`, `crossed`, `together`,
  `releases`, `left`, `told`, ...) record what happened and guard nothing.

| Module | Notes on the abstraction |
|---|---|
| `Ledger` | `postDocument` statement by statement: read the average, insert the row, upsert `item_cost_state` under its row lock.  `Received` is the CASE of the upsert, `RoundedDiv` the rounding of the column.  `book` is the sum of committed rows, kept as they commit; `ReversalCancels` says of the rows themselves that a document and its reversal add up to nothing. |
| `Requests` | The release in its four round trips with its key; the key's primary key makes a second transaction wait (`Claimable`).  Clients keep their key for a retry.  `RequestLifecycle` is what one request promises, and `FollowsLifecycle` that `Requests` implements it. |
| `Counts` | `shelf` and `lost` are the real world: what a count is supposed to find.  Figures are taken when they are saved. |
| `Purchasing` | `createGrn` in five steps with `applyReceiptToPo` inside; `Fills` is its distribution of a delivery over the lines of an item; what a line, an item or a delivery amounts to is a sum over its parts (`SumFunction`). |
| `Returns` | The asks, the answers, quarantine.  `Suggested`, `QtyFree`, `PacksReturned` and `CanHandBack` are the figures the forms and lists show, with whole packs.  The seven-day window only refuses, so a refusal (`Drop`) stands for it. |
| `Rooms` | The ledger's rows in the order of their commits, and which handler checked what.  Costs and locks are in `Ledger`, keys in `Requests`. |
| `Pool` | `pg.Pool`: a queue served in order with no timeout.  `openCount` is the one handler that reads through `db` inside `db.transaction()`. |
| `Access` | Login, the count of wrong PINs, the lock and its reset as the separate statements they are; `PATCH /admin/users` writes the whole row as it read it (`Patched`).  A token carries the role it was minted with; a refresh reads the login again. |
| `Tablet` | Extends `Access` with one tablet: the PIN pad, the calls, the one refresh they share.  `crossed` is what was under way when the tablet changed hands. |
| `Catalogue`, `Branches` | One setup and two admins; deliveries and orders (`StartUse`) use what they change.  A screen may offer what has been retired since it was loaded (`astray`).  `Branches` extends `Catalogue`, since the same handlers do both. |
| `StockReports` | One item's ledger, slips and counts; every report an operator over them.  A tick is half a day, so that what is posted before `day_start` carries the business date of the day before and the calendar date of its own.  `stolen`, `fresh` and `late` are the real world: what was taken, and what was spoiled but not yet logged. |
| `TradeReports` | Prices, orders, asks and returns, one kind of paper per behaviour. |
| `Lists` | One paged list; what a screen does differently is a record (`RequestsScreen`, ...), translated from its page.  The reports use the same machinery but are not paged. |
| `Worklists` | Papers in every state, what each role's screens list, the buttons of a row, and what the server says to whoever presses one.  The flags a list sends (`isMine`, `canReturn`, ...) are the server's expressions; the buttons the templates'. |
| `CountSheet`, `DeliveryForm`, `AskForm`, `Shortfall` | A form and the handler behind it, with calls that are lost before or after.  The lines `AskForm` sends are a set: their order tells the server nothing. |
| `Drawers` | The drawers an answer fills in; what differs is a record (`ReturnDrawer`, ...). |

`MC*.tla` give the constants their values, and put together the modules that share a
screen or a table but not a behaviour (`MCConsole`, `MCReports`, `MCRequests`, `MCRooms`,
`MCLedger`, and `MCSetup` for the catalogue and the branches): each behaviour is about
one `part` or `half`, chosen in the initial state, and the
other parts stand still.  Since the parts share no tables (catalogue and branches: only
the workers), checking them one by one or interleaved shows the same; one run for all of
them is simply shorter, and `OfficeProofs` is about the two interleaved.  Modules that
do share state extend each other instead (`Tablet` extends `Access`, `Branches` extends
`Catalogue`).

## 3. What the properties say

Many promises of the documents hold for handlers that follow one another and fail for
handlers that overlap.  Dropping such a property would say nothing, so it is stated
with its exact exception, from a history variable: *"... unless two handlers of this
order were under way together"*.  The run then shows that no other cause exists, in any
order, with any errors.  The promises these exceptions break:

* two releases of one request, or a release and a cancellation, under way together
  (`FollowsLifecycle`, `OverdrawnOnlyTogether`): both commit, and when the second release
  ends between the reads of a confirmation and its write, whoever made it signs for their
  own goods (FR-ROL-07; it takes two storekeepers).  One request that names an
  item on two lines overdraws the store with nobody else about (srs.md:508 "Stock never
  goes negative"), and who asked is compared with nobody, so a storekeeper may release
  their own request (FR-ROL-06);
* two reversals of one document (`StaleOnlyTogether`; FR-DOC-03), and a movement valued
  at an average that a delivery has just replaced;
* two closes of one count, or a close and a save (`CountFindsTheLoss`; FR-CNT-08 says a
  count cannot be closed twice); two opens (`OneOpenPerKind`).  FR-ROL-08, nobody
  verifies a count they performed, can only be stated for the person who opened it: the
  code records nobody else;
* two deliveries against one order (`OrderRunsItsCourse`): the update of a line is
  absolute, so one receipt is lost, or a covered order stays open; a decision during a
  delivery; two deliveries of one supplier (`PriceHistoryKeepsUp`);
* two hand-backs, two sends, two presses of "bin them", two answers
  (`NothingOverdrawn`, `EveryLineLeavesOnce`).  Without a race: an ask that names one
  item on two lines drives quarantine below zero when it is sent, and the lines of an
  ask that wait for the bin after the rest was sent are suggested again
  (`SuggestsOnlyFreeStock`);
* two receipts of a transfer, and a transfer reversed while in the van and received
  afterwards, since `receiveTransfer` looks at `received_at` only (`WhatLeftArrives`);
  two openings or an opening and any other document, the closing of a section during a
  document (`BeginsFreshEndsEmpty`);
* wrong PINs compared side by side (`FewGuesses`); two admin calls at once
  (`SomeAdmin`, `OneLoginEach`), and a login switched on again, which looks at no name;
* a call or a refresh under way when the tablet changes hands (`InOwnName`): it is sent
  again in the name of whoever is there by then, or puts the last person's tokens under
  the next one's name;
* a first use that comes between the look and the change of a unit or a size
  (`PastStandsAsRead`), a handler lost while it hands the default pack on
  (`OfferedCanBeUsed`).

The reports and the console have exceptions of their own, each named in the property's
comment.  Those a reader should know:

* a movement between opening and closing a count, or a slip logged after it, bends what
  the shrinkage report says; a reversed issue stays consumed and a reversed slip stays
  in the wastage report (`LossesAreTold`, `StockReportsAgree`); the low-stock list
  compares with `<`, the suggestion with `<=`;
* an agreed price entered with an earlier date hides the jump a delivery was warned of
  (`JumpsAreReported`); what is unfinished drops off the chase lists once it is older
  than their window, and "Credit due" counts lines that were binned (`TradeAddsUp`);
* the stock, wastage and supplier-return lists keep their page when they list something
  else, and the purchases screen gives up any filter that its first answer finds empty
  (`ListSaysWhatItShows`);
* four buttons are offered and refused, two papers can be left with nobody to press the
  next button, and the Returns badge counts rows already on a supplier return
  (`OfferedIsAccepted`, `WorkFindsItsHands`);
* a second sheet on screen before the first one saved puts old figures over new ones
  (`SheetIsPosted`); Back is possible while a delivery is being saved
  (`DeliveryFiledOnce`); naming a second thing before the first has answered mixes the
  two in a drawer (`SubmittedAsShown`); removing a line of an ask keeps its shortages on
  screen (`AskedAsShown`); a prefill that arrives after its drawer was closed and opened
  again ties the next order to the wrong request, and a shortfall can be ordered twice
  (`ShortfallBought`).

## 4. Runs

| Run | Instance and bounds | Shows |
|---|---|---|
| `ledger_race` | ledger: 2 connections, 2 items, 5 documents of 1 or 2 lines, 3 transactions; pool: 2 connections, 4 handlers of which 2 may open counts; the modules' fairness | the cost row agrees with the ledger, averages come from receipts only, a reversal cancels, what is stale or reversed twice is so by two at once, every transaction ends, and the one way to stop the API |
| `pool_stuck` (violation) | the same pool | it does stop that way |
| `requests_race` | requests: 2 storekeepers and a chef, 2 requests, 2 keys, 2 handlers, 2 items, 3 calls; purchasing: 1 order of three lines in two packs of one item and a second item, 2 suppliers, 4 calls | keys, the store's stock, the refinement of `RequestLifecycle`; receipts, completion, finality, prices |
| `rooms_race` | rooms: 3 sections of 2 branches, 2 handlers, 4 calls, 1 other document; counts: 2 counts, 2 kinds, 2 items, 2 days, 1 movement, 1 loss, 4 calls | transfers, openings, closed sections; what a closed count says of the shelf |
| `returns_race` | 1 release, 2 asks, 3 delivery lines, 2 handlers, 6 calls, 1 other document | quarantine and shelves, every line leaves once and as decided, the screens' figures |
| `tablet_race` | 2 logins and one to be added, 2 handlers, 2 calls of one tablet, 2 PINs, a lock after 2 tries, 4 calls started | lockout, last admin, names and PINs, whose name an action carries, and that every press is answered |
| `setup_race` | 2 items, 3 packs, 2 suppliers, 2 categories, 2 branches, 1 order, 2 handlers, 3 calls | units and sizes of the past, defaults, what is retired, a place for everyone |
| `reports` | stock: 2 rooms, opening 0 or 2, 4 documents, 3 ticks; trade: 3 rows of each paper, 2 suppliers, prices 100, 104, 112 around both percentages, 2 days, a window of 1 | every report after every step |
| `reports_reversed` (violation) | the same | the store draws from itself |
| `console` | lists: the 11 screens that differ in more than their name, 2 rows, 3 loads; worklists: 5 logins, 2 papers; sheet: 2 screens, 1 line, 5 presses; form: 2 orders, 2 lorries, 2 submits; drawers: 2 things, 4 answers; ask: 2 items, 2 lines, 2 asks; shortfall: 1 request, 1 item, 2 orders | the properties of section 3 |
| `count_cleared`, `short_not_offered` (violations) | 2 lines on one screen; 1 request, 1 order | a cleared box is posted; the offer is not made |

The four violations are disagreements of the code with its own words; `PROJECT.json`
quotes both under "findings".

*Why the bounds are enough.*  Each hazard on the server is between two handlers on one
document or one shelf, so two workers show it and a third adds no new kind of conflict;
the call bounds cover the longest story told by a property: raise, decide and two
deliveries (4); raise, decide, bin, send, settle and one more (6); open, save, close and
another handler (4); open, reverse, open again and one more (4); a price, a delivery and
another price (3).  On the console a hazard is between two answers, or an answer and a
press, on one screen, so two of each show it, and the page needs two rows on a page of
one.  Each property has a mutant of the code that breaks it under exactly these bounds,
listed in `PROJECT.json` and kept beside the definition it would replace, so no property
holds because the interesting case is out of reach.  Every counter has a named bound
(`MaxCalls`, `MaxTx`, `MaxMoves`, `MaxDay`, `MaxLost`, `MaxDocs`, `MaxPresses`, ...), so
every instance stops; deadlock checking is off for that reason.  Deadlock of the system
itself is a property (`StuckOnlyByOpens`, `EveryTransactionEnds`).  Symmetry is used for
sets no definition names an element of, and never in a run with a liveness property.

*Fairness.*  `Ledger`, `Pool` and `Tablet` assume some, and nothing else does.  A
transaction's next statement is weakly fair, because the service awaits each statement
and nothing in a transaction waits for a person; the deadlock detector's abort is part
of it.  The pool hands a free connection to the head of its queue and the database
answers each statement.  On the tablet a call, and the refresh calls wait for, is
answered or fails in the end, since the browser gives up on a connection; that every
*waiting* call is then ended is what the interceptor has to do and is not assumed.
Starting a request, failing, being refused a connection for ever are not fair: nobody
has to call, and nothing promises errors.

## 5. Proofs

Checked by TLAPS for any sets of items, locations, users, handlers and documents, with
only the named assumptions of the modules on their constants.  Every safety property that a
passing run checks is a theorem.  Where a run composes several
parts (`MCLedger`, `MCRooms`, `MCConsole`, ...) the theorem is about the part's own
`Init` and next-state relation, which is all of the composed behaviour that touches it.

The proofs share two ideas.  A handler checks first and writes later, so an invariant has
to say what a handler under way still *knows*: that what it read stands, or that somebody
who overlapped it is on record.  And a row that nobody can change any more is worth
naming: locked, posted, settled, closed.

* `SumsProofs`: the library has no facts about sums, so they are here once, for the
  community module's `SumFunction`: `SumSplit`, `SumUpdate`, and from them that sums are
  monotone, additive, natural, strict.  The induction is on strict subsets of the finite
  set (`WFMin`), with the property as a set of sets, since the library's induction
  theorems cannot be instantiated by an operator.
* `LedgerProofs`: `TypeCorrect` (the type invariant), `CostAgreesWithLedger`
  (`CostMatchesBook`) and `AveragesComeFromReceipts` (`AverageNeverAbovePaid`,
  `OnlyReceiptsMoveAverage`).  `CostMatchesBook` is not inductive alone: a commit copies
  the uncommitted version of every row its worker has locked, so one has to know that
  this version differs from the committed one by what that worker alone has posted, and
  that nobody else works on it.  That is `RowLocks`.  The averages need
  `PendingAverages`, the same idea for the uncommitted average, and `FreshRows`, that
  rows of a running transaction are not among those of any other.  `RoundedDivBound` is
  the arithmetic under it: rounding to the column's scale keeps every bound the exact
  quotient has.  `StaleReadingsOverlap` (`StaleOnlyTogether`): by `ReadingsHold` what a
  transaction read of an average stands until a receipt that overlaps it commits.
  `ReversalUndoesDocument` (`ReversalCancels`): by `Corrections` the rows of a reversal
  are the negated rows of the document it names, in the same places, all or none of them.
  About the pool, `StopsOnlyOneWay` and `FewOpenersNeverStop`: the invariant is
  `PoolInvariant`, what a handler holds at each place of the code; from it a stuck pool
  has every connection with somebody who waits for a second one, and by the pigeonhole
  (`FS_Injection`) that needs as many openers as connections.
* `RequestsProofs`: `KeysKeepTheirPromise` -- a key posts at most one handover, is used
  up exactly when it has, and all its clients hear of that one.  `KeyPostsOnce`,
  `KeyUsedIffPosted`, `OneAnswerPerKey` and the shape of the tables are inductive
  together: a second handover is impossible because the key is claimed, and a claimed
  key is known to be posted because claim, document and answer are one commit.
  `RequestsFollowTheirLifecycle` (`FollowsLifecycle`): the flow implements
  `RequestLifecycle`.  A handler's start is a stutter or marks the request as contended,
  and its write is one step of the lifecycle.  That needs `LifeInvariant`: `Alone`, two
  handlers of one request only where the overlap is on record; `HandlersKnow`, what a
  handler read of its request still stands when it writes; and `Posted`, a
  released request has moved its stock and one still asked for has not.
  `StoreOverdrawnOnlyTogether` (`OverdrawnOnlyTogether`): a release that took more than
  there was had another beside it or names an item twice.
  About purchasing, `TakesAll` (what the lines of an item take of a delivery is all it
  brings, however it is packed and whatever was outstanding), `OrdersRunTheirCourse`
  (`OrderRunsItsCourse`) and `PriceHistoryIsKept` (`PriceHistoryKeepsUp`).
  `PurchasingInvariant` relates each line to the deliveries posted against it, except
  where two receipts of one order overlapped; "no order" is assumed not to be an order
  (`NoOrder`).
* `ReturnsProofs`: `EachLineLeavesOnce`, `NothingIsOverdrawn` and
  `OnlyFreeStockIsSuggested`, the three properties of the returns.  `LinesInvariant`
  follows a line from the answer of the vendor to the one way it leaves by, and each
  handler's view of it; `ShelvesInvariant` adds what the shelves hold, as sums over the
  rows that came and went, so that what is left is what the lines not yet gone stand for.
* `RoomsProofs`: `TransfersArrive` (`WhatLeftArrives`) and
  `RoomsBeginFreshAndEndEmpty` (`BeginsFreshEndsEmpty`), from `RoomsInvariant`: what a
  row commits is a copy of what its handler checked, and whatever came between is in
  `together`.  About counts, `SecondPairOfEyes` (`VerifiedByAnother`) and
  `OneOpenUnlessTogether` (`OneOpenPerKind`): a count only moves on from none to open to
  closed and its counter never changes, so a verifier's count stays closed and somebody
  else's; an opener's view does not last, and `OpensKnow` says of whom it can miss: only
  of opens it overlapped.  `CountsFindTheLoss` (`CountFindsTheLoss`, an action property):
  by `LossInvariant` the gap between ledger and shelf changes only by a loss or by the
  adjustment of a closed count, a line's figures answer for the losses up to the moment
  it was saved, and a handler that is alone with a count still has its lines.
* `TabletProofs`: `NobodyElsesName` (`InOwnName`), `AnAdminIsLeft` (`SomeAdmin`),
  `TileAndPinAreOnes` (`OneLoginEach`) and `GuessesStayFew` (`FewGuesses`).
  `PATCH /admin/users` writes a whole row as it read it, so the properties of the logins
  need `Knowledge`: an admin call that has had the roster to itself still knows what it
  read, whoever it takes out is not the last admin, the name it is to add is free.  On
  the tablet the name on the screen and the tokens under it are replaced together, but a
  refresh in flight belongs to whoever was signed in when it was asked for; `SessionOwn`
  and `CallsOwn` say whose it is until the tablet changes hands.  For the guesses,
  `GuessesCounted`: a wrong PIN that was compared is counted already or its handler is on
  the way to count it, and there are finitely many handlers.  Assumed: the first logins
  have an active admin and no name twice (`FirstUsersAssumption`, what
  `scripts/wipe-and-admins.mjs` leaves), and the tablet stands at a location there is
  (`DoorAssumption`).
* `OfficeProofs`: `EveryPlaceIsFound` (`EveryoneHasAPlace`).  `StoresStand` is the
  stronger fact underneath: the *first* section of a branch is its store, open, and the
  only one there will be -- first, since a branch is written together with it; only,
  since `assertOneStore` finds it; open, since no handler switches it off.  Then the
  storekeeper, whose sections include the quarantine, starts at the store.  `ClosersKnow`
  gives the last open branch: whoever is about to close one is alone in it, or the
  overlap is on record.  The catalogue's handlers run beside, and `HarmlessStep` is all
  the proof needs of them.  About the catalogue, `PastIsReadAsItWas`
  (`PastStandsAsRead`) and `WhatIsOfferedIsUsable` (`OfferedCanBeUsed`), from
  `CatalogueInvariant`: a change of a unit or a size knows that nothing used it, a pack
  that becomes the default takes the place of one, and what is retired under somebody's
  hands is in `astray`.  Assumed: the rows the setup starts with are usable
  (`FirstRowsAssumption`).  About `TradeReports`, `JumpsReachTheReport`
  (`JumpsAreReported`) and `TradeIsAccountedFor` (`TradeAddsUp`), from `TradeInvariant`,
  which has a part for each table.  `PricesHold` says of the delivery that was warned of
  what row it stood against and which row it became, and that later rows are not dated
  before it: so the report, which looks for both by date, finds these two.  For the
  money, a return has one supplier and one reason, and by `SumPartition` a sum is the
  sum over its groups.  Assumed (`TradeReportsAssumption`): the mark of the report (its
  default, 5 %) is not above that of the warning (`PRICE_WARN_PCT`, 10 %).
  About `StockReports`, `StockReportsTellAlike` (`StockReportsAgree`) and
  `LossesReachTheReport` (`LossesAreTold`), from `StockIsKept`: `StockInvariant` is kept by
  every step.  Neither property says enough to be inductive: a reversal takes a document
  back by its number, so one has to know what a number can name.  `DocumentsStand` says
  that: numbers run 1..k, a document that nobody reversed is one line or two in a row, and
  a count is one.  `LinesHold` says what a line tells of its document: a positive issue
  of the kitchen has a line of the store on its day, a count's adjustment has a count that
  was off.  For the losses, `ShelvesHold` (in a room whose books are straight, the ledger
  is above the shelf by what was stolen or is not yet logged), `CountsHold` (the figures
  of a count answer for these up to the moment it was saved) and `LossesHold` (what the
  adjustments of a day take off is what the standing counts of that day found).  A balance is a
  sum over a set of lines (`Weight`), and what one line or two add to it is worked out
  once (`OneMoves`, `TwoMove`); what a reversal gives back is again such a sum
  (`GivenBack`, `Undone`).  Assumed (`StockReportsAssumption`): figures are natural
  numbers, and there is a first tick.
* `ConsoleProofs`: one theorem for each part of the console.  `EachLorryIsFiledOnce`
  (`DeliveryFiledOnce`, from `FormInvariant`: a key belongs to one form and its body, and
  a form whose answer was lost is remembered), `SheetsArePosted` (`SheetIsPosted`, from
  `SheetInvariant`: work is in the boxes, in a call or saved until another sheet
  overtakes it), `NeedsAreAskedOnce` (`AskedAsShown`, from `AskInvariant`: a check that
  is under way was of these lines or says so), `DrawersSubmitWhatTheyShow`
  (`SubmittedAsShown`, from `DrawersInvariant`: every answer on its way is addressed),
  `ButtonsAreTaken` (`OfferedIsAccepted`) and `NoPaperIsForgotten`
  (`WorkFindsItsHands`), both from `WorklistsInvariant`, what a paper of each kind and
  state can look like; `ShortfallsAreBoughtOnce` (`ShortfallBought`, from
  `ShortfallInvariant`), and `ListsSayWhatTheyShow` (`ListSaysWhatItShows`).  Of
  `NoPaperIsForgotten` the hypothesis is `Staffed`: the branch has somebody of every role
  and a second storekeeper, because what is released into quarantine is confirmed by
  another storekeeper than released it.  `ListsInvariant` says of the newest call that it
  names what the controls name, and that a page that was turned to was on the list its
  pager was drawn for unless rows have left that list; that such a page has a row is
  `EveryPlaceHasItsRow` (an induction over the rows) and `FirstPlaceOfAPage` (the pager's
  arithmetic).

*What proving found.*  The invariants turned up one mistake of the model: `Lists` had
given the reports a pager, which they do not have, and with more loads than the run's
bound an empty report would have been possible.  It is corrected (`pageSize`).  They
also turned up two corners of the reports outside the run's constants.  An item with
reorder point 0 is low once its balance is negative, but nothing is suggested for it,
since `suggestedOrder` asks for a reorder point above 0; and with both floors at 0 a day on
which counts found nothing missing would have to be listed, which the report's
`sum < 0` rightly does not do.  `StockReportsAgree` and `LossesAreTold` now say so
(`Reorder > 0`, `Found > 0`).

*Only model-checked:* the liveness properties (`EveryTransactionEnds`,
`EndsUnlessFullOfOpens`, `EveryPressEnds`), which are out of the prover's reach, and the
violations, which are counterexamples.

## 6. Not modelled, and why

Uploads are file I/O, `services/issues.ts` has no route, settings are a pure function
that only warns, and the migrations are a script; their columns, checks and views are
where the modules take their state from.  Photos, notes, invoice numbers and audit rows
are written and never read back by the logic.  Of the reports, the spreadsheet download
and the order of the rows are left out; of the console, layout and wording, and the
setup, opening and login forms, which send what is in their boxes and keep nothing.
The ledger drill-down and the item search only read.

Known disagreements of code and documents that are not runs of their own, because a
property above states them as an exception or because nothing says what should happen:
reversing a delivery does not give its order back what had been received (a hazard
without a property); returns, asks, orders and wastage carry no idempotency key, so a
retry after a lost answer is a second document; two lines of one item in a request or an
ask are each compared with the whole shelf; the ask form's offer to buy the rest cannot
be reached by anyone the form is shown to; counts are read, saved and closed without
looking at the section.

## 7. Plan

1. *Compose.*  `Returns` and `Requests` share `issues` and `current_stock`: a module
   with both.  An abstract shelf (what moves, each document once) that `Rooms` and
   `Returns` implement through a refinement mapping, as `Requests` does
   `RequestLifecycle`.
2. *Prove.*  The refinements of point 1, once they are stated.
3. *Extend.*  What a reversed delivery means for its order, once the documents say it.
