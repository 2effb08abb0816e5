# StoreLink: models, checks and proofs

This directory holds TLA+ models of StoreLink, the shop whose backend is in
`src/webapp/backend` and whose load test worker is in `src/benchmarker/worker`,
the TLC configurations that check them on small instances, and theorems about
them that TLAPS checks for every value of the constants.

    tlc -workers 2 -config OneRobot.cfg MCOrderDelivery.tla
    tlapm OrderDeliveryProofs.tla

`PROJECT.json` lists the runs, for each definition the lines of code it
translates, and for each property a faulty form of the code that breaks it.

## 1. Inventory

### The system

```
 user, robot (k6, browser, e2e)                   run.sh, get_test_status.sh
        | HTTP                                           | HTTP
      nginx                                        request server (external)
        |                                                | message, row
   handler -> service -> repository -> MySQL       Azure queue / table / DLQ
              (WithTimeout, ExecTx)                      |
                                                   load test worker -> k6 -> nginx
```

| Component | State it keeps | Operations | What makes it correct |
|---|---|---|---|
| Order placement (`service/product.go`, `repository/order.go`) | rows of `orders`, AUTO_INCREMENT | `CreateOrders`: one INSERT per unit in one transaction | all units of a request or none; nobody plans with an uncommitted unit |
| Robot delivery (`service/robot.go`, `handler/robot.go`) | `orders.shipped_status` | `GenerateDeliveryPlan`, `UpdateOrderStatus` | an order is handed to one robot, once; nothing goes back; of finitely many orders each that fits and is worth something is delivered in the end |
| `WithTimeout`, `ExecTx` (`service/utils/timeout.go`, `repository/store.go`) | a goroutine, a channel of capacity one, a context, a transaction | answer or give up; commit or roll back | what is answered is committed; what is given up holds no lock |
| Plan selection (`service/robot.go:63`) | the table, the trace back, the sorted orders | dynamic programming; greedy above 1000 orders or capacity 10000 | fits; as valuable as possible; the announced value is that of the listed orders |
| Paged lists (`handler/product.go`, `handler/order.go` and their repositories) | none of their own | COUNT, then SELECT with LIMIT and OFFSET | each row on one page, pages full |
| Sessions (`service/auth.go`, `middleware/auth.go`) | rows of `user_sessions` | login, lookup by cookie | a session belongs to the user who logged in and ends after 24 hours |
| Connection pool (`db/db.go`) | 50 connections, MySQL's `max_connections` is 50 too | take, return | nobody waits for ever |
| Robot scenario (`scenarios/robot.js`) | the plan in hand | ask for a plan, report each order completed, loop | each order of the plan is reported |
| User scenario (`scenarios/userJourney.js`) | the cookie of its login, the counters | log in, list, search, order, history | only journeys that came to their end are counted |
| Frontend (`frontend/src/app`) | page, sort, search, quantities, cookie | list, select, order, log in, log out | what is shown and sent is what was asked for |
| Load test worker (`worker/*.go`) | messages, request rows, dead letters, scores (all external) | take a message, mark, check, lock, test, post, release, delete; report failure | one test of a team at a time; every request gets an outcome |
| Scripts (`run.sh`, `get_test_status.sh`, `restore_and_migration.sh`) | the VM's containers and database | restore, migrate, end-to-end test, request, poll | a load test finds the data restored for it, and nobody restores under it |

### Behaviours that are hard

* **Interleaving.** Two plan requests read the same `shipping` rows: the SELECT
  is outside any lock. UPDATE does not look at the status it replaces.
* **Timeout.** `WithTimeout` answers while its goroutine runs on. The COMMIT of
  a plan may land after the robot was told of an error and has asked again.
* **Partial failure.** A connection that breaks under COMMIT; one failed status
  request that ends a robot's round; a score registered whose row is not updated.
* **Locks.** Plans and status updates wait for the rows of each other's
  transactions.
* **Pool.** 50 connections; a transaction keeps one while its UPDATE waits for
  rows that another transaction has.
* **Answers out of order.** The pages of the frontend ask again before the last
  answer is there, and show whichever answer comes last.
* **Unreliable delivery.** The queue brings a message back when the test takes
  longer than its visibility timeout, or the worker died, or a delete failed.
* **Check long before use.** `run.sh` asks whether a test is under way, then
  restores and tests for minutes before it sends its own request.
* **Two clocks' ends.** A session ends in a DATETIME column, which rounds, and in
  a cookie, which is cut to the second.
* **Boundaries.** Table columns and rows, orders of weight 0, the two limits of
  the greedy choice, page offsets.

`PROJECT.json` lists each of these under `hazards` with its line.

## 2. The modules

| Module | Models | Composed with |
|---|---|---|
| `OrderLifecycle` | what the service promises about an order, without requests or faults | implemented by `OrderDelivery` |
| `OrderDelivery` | `CreateOrders`, `GenerateDeliveryPlan`, `UpdateOrderStatus` with `ExecTx`, `WithTimeout`, row locks, and the robot scenario as its client | `INSTANCE OrderLifecycle WITH status <- shippedStatus` |
| `Knapsack` | `selectOrdersForDeliveryOptimized` and `selectOrdersGreedy`, step by step | its result is `Selections` of `OrderDelivery` |
| `Listing` | both paged lists and a reader who leafs through them while orders are committed | - |
| `RequestPool` | every route of the backend as its sequence of database calls, over one connection pool and the rows plans and status updates write | what the calls do is in `OrderDelivery` and `Listing` |
| `ShopPages` | the product list and the order history in the browser: queries, overlapping requests, the order form | the backend's side is in `Listing` and `OrderDelivery` |
| `Sessions` | login in its goroutine, `user_sessions`, cookies, the middleware's look-up, log out, restarts, and `userJourneyScenario` as a client | the order's inside is in `OrderDelivery` |
| `LoadTestWorker` | `pollQueue` and `processMessage` over queue, table, dead letter queue and score server | - |
| `Evaluation` | `run.sh`, `restore_and_migration.sh` and `get_test_status.sh` on one machine | `W == INSTANCE LoadTestWorker`: scripts and workers share the request table and the database |
| `MC...` | constants for TLC | |
| `...Proofs` | theorems and their proofs | |

An operator whose name is that of another one with a suffix after an
underscore, such as `InsertUnit_Autocommit`, is a *variant*: the faulty form
the code might have had. No specification uses it. Put in the place of the
definition it is named after, it makes one property fail, which shows that the
property depends on that line of the code.

### OrderDelivery

| Variable | In the code |
|---|---|
| `shippedStatus`, `nextId` | `orders.shipped_status` as committed, AUTO_INCREMENT |
| `unitsLeft`, `inserted` | the loop of `CreateOrders` and the rows of its open transaction |
| `planPc`, `chosen` | the goroutine of `WithTimeout` inside `GenerateDeliveryPlan`, and `orderIDs` |
| `waiter` | the handler that still waits for that goroutine; `NoRobot` once it has answered |
| `robot`, `carrying`, `patching` | the loop of `robot.js`: the plan and the status request under way |
| `statements` | status UPDATEs sent to MySQL and not yet run |
| `lost`, `handed` | history variables |

Steps are cut where another request can get in between: at each statement, at
COMMIT, and at the answer. A plan goes `begun` (BEGIN), `planned`
(`GetShippingOrders`, selection), `updated` (`UpdateStatuses`, rows locked),
`committing` (COMMIT sent), `committed`; `RollbackPlan` is the deferred
`Rollback`, or database/sql's own when the context ends. `ExpirePlan` is the
`ctx.Done()` branch of `WithTimeout`: when a result is ready too, Go's select
may take either branch.

What the model takes from outside the repository:

* InnoDB at REPEATABLE READ: a plain SELECT reads committed rows without
  locking; an UPDATE takes all its rows in one step, waits if another
  transaction has one of them, and holds them until its transaction ends.
  InnoDB takes rows one by one, so that two plans could deadlock; it then
  aborts one, which the model has as `PlanFails`.
* A status UPDATE sent before its request timed out may still run afterwards.
* `database/sql` looks at the context before COMMIT and not during it.
* The handler's context ends when its client gives up. nginx and k6 do so after
  60 seconds and then close the connection, which ends `r.Context()`; the 120
  seconds of `timeout.go:9` come later. Between the two the robot may already have
  asked again while its first goroutine still runs on with a live context.
  `ExpirePlan` makes them one step: the moment in between is left out. A goroutine
  whose context has ended sends nothing more, only a COMMIT already sent may
  land. If the next request can come sooner, that is two handlers at once for one
  robot, as with two robots: what is proved for any number of robots without a
  condition still holds, what is proved under `OneAsking` needs that they do not
  overlap.

Quantities are a number of units; a request without units inserts nothing and
is left out. `Selections` is what the trace back may list: a load of greatest value
without orders that are worth nothing (the `>` of `robot.go:105` never takes one),
and, when it fills the robot to its capacity, possibly less some orders that weigh
nothing, since the trace stops at `w = 0` (`robot.go:117`). `Knapsack` shows, for at
most 1000 orders and a capacity of at most 10000, that the table's value is the
greatest and that only weightless orders can be missing from what it announces.

### Knapsack

One step per row of the table, per step back, per comparison of the exchange sort
and per order taken. A *rival* is any other choice of orders, fixed at the start and
totalled as the algorithm passes its orders; "the table is optimal" becomes "no
rival that fits is worth more", which needs no sum over sets in the invariant and
makes the proof possible. Value per weight is compared by cross multiplication. That
is what the code's floats do, infinity and NaN (weight 0) included, as long as a
value times a weight stays below 2^52: two different ratios are then different
floats. Beyond that the code may take two ratios for equal, which the theorems about
the greedy choice do not cover. `Cancel` is the look at the context every 100 rows.
The capacity is a natural number, as all clients of the repository send it; a
negative one would panic at `make` (robot.go:83) and is listed as a hazard.

### Listing

COUNT and SELECT are two steps, with `CommitOrders` and `UpdateStatus` of other
requests in between. ORDER BY is any sequence the clause allows: products of
equal key by `product_id`, orders of equal key in any order. `Offset` is 0 for
orders because `OrderHandler.List` never sets `req.Offset`. Searches only make
the tables smaller and are left out. `NextPage` and `LeaveList` stand for the
grids of the frontend, one request at a time.

### RequestPool

| Variable | In the code |
|---|---|
| `at` | how far the handler, or the goroutine of `WithTimeout`, is in its calls |
| `busy`, `open` | connections of `sql.DB` in use: by one call, or by a transaction of `ExecTx` |
| `rows` | the transaction that holds the row locks of its UPDATE |
| `answer` | what the handler has answered |

Each route is a constant sequence of calls (`LoginCalls`, `PlanCalls`, ...); one
call stands for the INSERTs of an order. `TakeConnection` is the wait for the
pool, `Refuse` is a 401, `EmptyPlan` the plan without orders, which skips its
UPDATE. `Expire` is the end of the context (120 seconds, or the client has
gone) and `Abandon` the goroutine that then still has to give up what it
has. `Fail` is any error of a call: a broken connection, a lock wait that
took too long, a statement refused; `LetGo` is the deferred `Rollback`. All plans
and status updates want the same rows, the worst case. The look-up of a
session happens outside `WithTimeout`, and so do the product list and an order:
their context only ends with the connection of the client.

### ShopPages

| Variable | In the code |
|---|---|
| `view` | `product/page.tsx` or `orders/page.tsx` |
| `query`, `pending` | `searchQuery` (with `searchType`), `page`, `pageSize`, `sortModel`; the search being typed |
| `rows`, `total`, `isLoading` | what the grid shows |
| `inflight` | requests for a list on their way |
| `quantities`, `posts` | the order form; orders on their way |
| `overlapped`, `strayed`, `repeated`, `entered`, `ordered` | history variables |

Setting the state and the effect that fetches for it are one step. Search,
reset and the form are disabled while `isLoading`; paging and sorting are not,
so requests overlap, and an answer is shown whichever request it belongs to. That
is why `SettledIsAsked` and `PageExists` say nothing of overlapped requests:
there the grid may well settle on the rows of an earlier query. `strayed` stays true
from the first request that failed or overlapped another until the page is left, so
`SettledIsAsked` allows an empty grid from then on. Sort fields are
reduced to the two orders. From outside the repository: MUI's grid offers only
the pages that `rowCount` and `pageSize` make (`GridPages`). An order whose
answer gets lost may still be taken afterwards (`OrderUnanswered`). The rows do
not change while they are looked at; leaving the page is not modelled, as all of
this state is gone then. An answer is made by rank, row `n` being the one that
`n` others come before: ORDER BY, LIMIT and OFFSET without a sort, which is what
lets the theorems be about any table.

### Sessions

| Variable | In the code |
|---|---|
| `now`, `stamp` | the clocks, in half seconds; `time.Now()` of `Create` |
| `task`, `waiting` | the goroutine of a login; the handlers whose `WithTimeout` has not returned |
| `from`, `name`, `right` | a login request: client, `user_name`, and whether the password is right |
| `owner` | `user_sessions.user_id`; session `l` is the one login `l` creates |
| `jar` | `session_id` of a browser, or of one iteration of `userJourneyScenario` |
| `request`, `carried`, `actor` | a request under a session, the cookie it was sent with, the user in its context |
| `step`, `orders`, `counted` | a journey's next request; orders placed; `bench_uj_success_count` |
| `told`, `wiped`, `restarts` | history variables |

`ExpireLogin` is `ctx.Done()`, after which the goroutine may still run an INSERT
already sent but sends nothing more (`Leave`). `Create` may fail after the row was
written. Browsers drop a cookie at its end, k6 sends its own for as long as the
iteration lasts. `CheckSession` may refuse for any error of the look-up. `Restart`
is `restart_container.sh`: goroutines and requests end, and with them the iterations
that wait for a request, while the others go on with their cookie, k6 being another
process; with the restore script the sessions go too. The day is scaled to a second
in the run; the theorems hold for any. A user id stays what it is for the rest of a
request: no later look-up is made, in the code as in the model.

### Evaluation

`LoadTestWorker`'s variables and actions, one machine (`OneMachine`: all requests
are of one team), and for each request the run of `run.sh` that sends it.

| Variable | In the code |
|---|---|
| `script`, `again` | the line `run.sh` has reached; whether it restores for the second time, after the tests |
| `database`, `migrated` | what the last restore, test or half-finished load has left in the tables |
| `intruded`, `unmigrated`, `tested` | history variables |

`CheckExistence` looks at the request rows: while one is active it ends the run. It
does not see a run that has not sent its request yet, nor a message that is still in
the queue after its row was closed (`Unseen`), and its answer may be lost, which
the script takes for a no. Only runs let pass in one of these ways are in
`intruded`, with those they were let in beside (`LetPass`): what keeps all others
apart is the answer, and with the check left out (`CheckExistence_Unasked`, which
keeps the same record) `UndisturbedTest` fails.
`StartTest` composes the worker's lock with the machine: from there on the test
orders and delivers (`used`). `Load` knows that of the three files for the
end-to-end tests only the last one's exit status is looked at, `Migrate` that the
status after its loop is that of `break`, so that a failed migration goes unnoticed
(`unmigrated`). `StartE2E` ends a run whose `docker run --name e2e` finds the name
taken. Modelled from outside the repository: the server refuses a request while the
team has one waiting or running.

### LoadTestWorker

One step per call to queue, table, dead letter queue or score server, each of which
may fail (`Fault`, bounded by `MaxFaults`): `Dequeue`, `MarkRunning`
(parseQueueMessage), `Check` (isDuplicateOrSkip), `AcquireLock`, `RunLoadTest`,
`PostScore`, `ReleaseLock`, or `Report` and `MarkFailed` (markFailedAndDrop), and
`Delete`, with the pop receipt of the worker that took the message. `Crash` may come
at any point; the process starts polling again. `Reappear` is the visibility timeout
of a message nobody works on, `Overrun` that of one whose test is still running: 240
seconds of stages, up to 60 of gracefulStop, start and summary, against 300 by
default (`QUEUE_VISIBILITY_TIMEOUT`). `Age` makes a row older than the hour that
isDuplicateOrSkip looks back; it assumes that a request being worked on is never
that old.

Modelled from outside the repository: the server that accepts requests refuses
one while the team has another waiting or running (`Submit`), as run.sh's
check-existence has it. The worker's `dequeueBatchSize` is not used by the
code, which takes one message at a time.

## 3. The runs

| Run | Instance | Shows |
|---|---|---|
| `one_robot` | 1 user, 1 robot, 2 goroutines, 3 orders, 2 faults | all of delivery with the timeouts of one robot: requests appear whole, nothing is handed out twice, nothing goes back, the detailed model implements `OrderLifecycle`, each of finitely many orders that fits and is worth something is delivered or lost by a fault |
| `two_robots_completed` | 1 order, 2 robots, no fault | **violation**: a completed order goes back to `delivering` |
| `plans` | up to 3 orders of weight 0..3 and value 0..2, capacity 0..4, limits scaled to 3 | both algorithms on all small inputs: plans fit, list nothing twice and announce their value; the table is optimal, greedy leaves no room unused and misses less than one order |
| `greedy_plans` | 3 orders, capacity 10001, the code's own limits | **violation**: the greedy plan is not the most valuable one |
| `lists` | 3 products, 3 orders, pages of 1, 2 and the default | paging with orders committed meanwhile |
| `history_pages` | 2 orders, pages of 1 | **violation**: later pages of the history are never shown |
| `pool` | 2 plans, an order and a status update, 2 connections, 2 faults | nobody holds a connection or rows while it waits for the pool; somebody can always go on; all is given back; every request is answered and its goroutine ends |
| `pages` | 2 rows, 2 searches, pages of 1 and 2, 3 lists asked for, 2 orders | settled pages show what was asked for and exist; loading ends; an entry is ordered once |
| `sessions` | a browser, a journey of 2 requests, 2 users, 2 logins, 4 half seconds, a day of 2, 1 restart | whom a request acts for, how long it is let in, which journeys count |
| `workers` | 2 workers, 2 requests of one team, 1 malformed message, 1 fault | one test of a team at a time; no request disappears; each is settled or meets another active one of its team |
| `workers_overrun` | 2 workers, 2 requests, 1 fault | **violation**: an overrun test is started a second time |
| `evaluation` | 2 runs of the script, 2 workers, 1 fault | what a load test finds in the database, that only runs the check could not keep away disturb it, and whether whoever polls sees the end |

Why the bounds are enough:

* *Orders.* The second order fills the robot alone and is worth as much as the
  other two together, of which the last weighs nothing: selections of equal value
  differ and leave something over, and a full load may lack the weightless order,
  which a later plan has to bring. One request has up to two units, so a request
  can be half inserted. There are finitely many orders: whether endless new ones of
  more value keep another back is not examined. The code would let them, as plans
  look at nothing but value (`02_Regulation.md:47` asks for no more), and an order
  worth nothing is never planned.
* *Goroutines.* A second one lets a robot ask again while its abandoned
  goroutine is still running. What two robots at once keep is proved, for any
  number of them: `UncommittedUnseen`, `UnitsAppearTogether`,
  `HandedLeftShipping` and `DeliveringIsAccounted`.
* *Faults.* Two let a request time out and its retry fail as well. With none
  at all `two_robots_completed` already fails, so no fault is needed for it.
* *Weights 0..3, capacity 0..4* contain the empty order list, orders of weight
  0, exactly full robots, orders that never fit and equal values.
* *Connections.* Three transactions compete for two connections, so that two of
  them can use up the pool while each waits for something; the safety theorems
  hold for any number. Requests are sent once: that a request could starve
  behind ever new ones is not examined.
* *Lists asked for.* Two requests overlap and a third one settles afterwards; or
  a later page is opened and then a search started. Two orders are one and its
  repetition.
* *Sessions.* A session lasts one second and time reaches two, so that it ends at
  a full and at a half second, with requests before, across and after its end. Two
  logins are two users of one client, one user of two, or a timed out login and its
  repetition.
* *Workers and scripts.* Interference is between pairs; the theorems hold for any
  number.

`CHECK_DEADLOCK FALSE` is given to `plans` and `greedy_plans` (an algorithm ends),
to `workers` and `evaluation` (all requests settled, nothing left to do), and to
`pool`, `pages` and `sessions`, whose requests, logins and clock are bounded.
`OrderDelivery` and `Listing` never stop: a robot always asks again and a reader
always opens another list, so deadlock is checked there.

A load test runs one robot (`robotAPIScenario` has one virtual user in
`scenarios/main.js`), the end-to-end test another. The rules of the scoring
(`03_Scoring.md:53`) have several users run the scenarios at once, the robot's
among them, and the backend keeps nothing that would hold a second robot off.
What remains true then is proved for any number of robots.

### Fairness

Safety runs use none that matters. `FairSpec` of `OrderDelivery` has weak
fairness of every goroutine's steps (the Go scheduler and the database run on),
of the robot's loop (k6 iterates it) and of each status UPDATE once its row is
free. Users and faults have none: nobody has to order and nothing has to fail.
Weak fairness of a goroutine's steps is enough because no action of another
disables it for ever. `FairSpec` of `LoadTestWorker` has weak fairness of each
worker's steps (the process is restarted, k6 is bounded by its stages) and of
`Reappear`, the visibility timeout. Faults are bounded, so liveness says: after
the last fault, everything that was started is finished.

`FairSpec` of `RequestPool` has weak fairness of each request's next call (`Serve`):
the database answers and goroutines run. Timeouts have none, so `RequestEnds` does
not rest on them: without any fault every request gets its connection and its rows.
`NobodyStuck` says the same without fairness: while a request has not ended, the
next call of some request can be made (`CanServe`). `Spec` of `ShopPages` has weak
fairness of each request on its way: it is answered or fails, at the latest when the
proxy or the browser gives up. Nobody has to click.

`Sessions` states safety only and needs none. `FairSpec` of `Evaluation` has that of
the workers and of `Reappear`, and of `GetStatus`, which `get_test_status.sh` repeats. No script
has to be started or to go on.

## 4. Disagreements between code and documents

1. **A completed order goes back** (`two_robots_completed`). Both plans read
   order 1 as `shipping`. The first commits, its robot reports completed, the
   second plan's UPDATE, which was waiting, then writes `delivering`. The
   order is delivered twice, and the end-to-end test's expectation that it
   reads as completed after the update fails.
2. **Greedy plans** (`greedy_plans`). The manual promises the greatest total
   value without a limit; above 1000 orders or a capacity of 10000 it is not.
3. **Order history pages** (`history_pages`). `OrderHandler.List` never sets
   `req.Offset`, so every page is the first.
4. **A second test beside the first** (`workers_overrun`). The visibility
   timeout is 300 seconds, is never renewed, and isDuplicateOrSkip lets the
   same `load_test_id` pass.
Not runs, but met on the way:

* The API description has the status `complete` where code and clients use
  `completed`.
* A failed migration goes unnoticed. After the loop `restore_and_migration.sh:65`
  looks at the status of its `break`, so the message and the `exit 1` of line 66
  are never reached, and the run goes on to its tests on an unmigrated database.
  `Migrate` has the case, and `TestedAsRestored` says that it is the only one.

## 5. Theorems

All proofs are checked to the last leaf. The assumptions are those named in the
modules: bounds are naturals (`BoundsAssumption`), `NoRobot` is no robot
(`RobotsAssumption`), weights, values and capacities are naturals
(`ProductsAssumption`, `InputsAssumption`), the limits are naturals and `CheckEvery`
is positive (`ThresholdsAssumption`), names that stand for nobody are nobody's
(`RequestsAssumption`, `PoolAssumption`, `NamesAssumption`, `ClientsAssumption`), a
session's day, the clock and the number of logins are naturals and a journey has a
step (`TimeAssumption`), page sizes are naturals, positive where the browser sends
them (`ListingAssumption`, `PageAssumption`), what a search finds is a finite set
(`PageAssumption`), malformed messages are requests (`RequestsAssumption`,
`NamesAssumption`), and all requests of a machine are of one team (`OneMachine`).

**OrderDeliveryProofs.** `TypeCorrect`, `UncommittedUnseenAlways` and
`HandedLeftShippingAlways` hold for any number of users, robots and goroutines.
The inductive invariant is `TableInv`: allocated ids belong to one transaction
(`IdsInv`), a plan holds existing rows and, once committed, none that is
`shipping` (`ChosenInv`), and only handed orders are reported (`ReportedInv`).
`HandedLeftShipping` alone is not inductive: a stale UPDATE could write a row
that does not exist, and an answer could hand out a row that is `shipping`.

`HandedOnceOneByOne` and `CompletedIsFinalOneByOne` hold for any number of robots
as long as no two of them wait for a plan at the same time (`OneAsking`);
`two_robots_completed` shows that the second is false without it. So it is enough
to ask for plans one after the other, and it does not matter how many goroutines
of earlier, timed out requests are still running. `HandedOnceAlways` and
`CompletedIsFinalAlways` are the case of at most one robot (`OneRobot`), which
implies `OneAsking`. `DeliveryInv` is inductive under `OneAsking`: a robot waits
for at most one goroutine (`WaiterInv`), holds orders only while it delivers
(`RobotInv`), two transactions never both have written a row (`LockInv`), and — the
key part — a plan that can still reach the table or the robot has no order that
was handed out (`LandInv`). An abandoned goroutine can only finish a COMMIT already
sent; whatever it holds was read and locked before the next plan could have it.
`OneAsking` is a condition on the behaviour, not on the constants: the backend does
nothing to bring it about.

`UnitsAppearTogetherAlways` and `DeliveringIsAccountedAlways` hold for any number of
robots. The second follows an order under delivery from hand to hand
(`AccountInv`): a robot still reports it, or its report is sent, or a committed
plan has it, or a fault lost it (`HeldInv`); and without a fault nothing is lost
and every goroutine has somebody waiting (`BlameInv`).

`LifecycleOneByOne` is the refinement under `OneAsking`, `LifecycleImplemented` its
case of one robot: `CommitOrder` is `Place`, `CommitLands` and `CommitBreaks` are
`Assign`, `AnswerPlan` is `HandOut`, `RunStatus` is `Complete` or a stutter, all
else stutters. It rests on `DeliveryInv`: that `Assign` only takes orders in
`shipping` is `LandInv` at COMMIT.

**KnapsackProofs.** `PlanFitsAlways`, `TotalsAgreeAlways` and
`TableIsOptimalAlways`, for any number of orders and any limits. `KInv` follows
the table beside a rival: row `i - 1` is worth at least what the rival has
collected in every column with room for it (`RivalInv`), rows differ only where
the order was taken (`RowsInv`), and what was taken plus what the table still
promises at the current cell is the total (`TraceInv`). Where the trace stops at
weight 0 the table may still promise something. `EdgeInv` says from whom: if every
weightless order still ahead is worth nothing (`NothingForNothing`), column 0 is 0
up to there, and nothing is missing. So `TotalsAgree` allows a difference only when
an order that weighs nothing and is worth something is missing from the list.

`GreedyFillsUpAlways` and `GreedyMissesLessAlways` are about the greedy choice, for
any orders and limits. `SortInv` is the exchange sort: `sorted` stays a permutation,
the orders at places before `i` have no better one behind them, and the one at `i`
none before `j`. An exchange keeps this by `Through`: what was no better than the
order that left place `i` is no better than the one that came, weights of 0
included. `TakenInv`: an order passed is in the plan or does not fit. `GapInv` is
the argument of the fractional knapsack without fractions. Until something is left
out the plan is ahead of the rival at the rate of every order to come (`Ahead`,
multiplied out). After that the first order left out is remembered, with the load it
did not fit on: that load stays ahead of the rival at this order's rate, and a rival
that fits weighs less than the two together, so it misses less than that order.
`ListedOnceAlways` holds for both algorithms: the trace back lists orders behind
row `i` only, the greedy choice orders at places before `i` of a permutation.
`PlansRunOut` is termination without fairness: every step lowers, lexicographically,
what is left of stages, places and comparisons, three natural numbers.

**RequestPoolProofs.** `TypeCorrect`, `NoHoldAndWaitAlways` and
`ConnectionsReturnAlways`, for any requests and any pool (`PoolAssumption`).
`HoldInv` ties what a request has to where it is: its transaction is open
exactly at the calls of the transaction, it has a connection of its own only at
a call that goes to the pool, and the rows belong to an open transaction.
`CallShape` states of the seven sequences what this rests on: BEGIN and the
statements of a transaction are followed by a call of it, COMMIT comes last.

`NobodyStuckAlways`: if the rows are held, their holder is past its UPDATE and at a
call of its own transaction, which needs nothing else; if not, whoever has a
connection can use it; if nobody has one, the pool has room (`SomebodyCanServe`).
`CanServe` is written out because the prover has no ENABLED; on the instance of
`pool` the two agree. `RequestsRunOut` is the other half: every step lowers what one
request has left to do (`Left`, a natural number) and changes nobody else's, so
finitely many requests take finitely many steps. Together: requests come to a stop,
and can stop without a fault only when every one sent has ended. `RequestEnds`
states that under fairness and is left to TLC.

**LoadTestWorkerProofs.** `TypeCorrect`, `OneTestPerTeamAlways`,
`FinishedIsScoredAlways`, `DeletedHasOutcomeAlways`, `DeletedByHolderAlways`,
for any number of workers, teams and requests. `WInv` is the argument of
marking before looking: a worker past `MarkRunning` has an active row unless
the mark failed (`MarkInv`), so of two workers past `Check` at one team the
later one saw the other's row (`PassedInv`). A request that never overran has
one worker, the holder of its receipt (`HolderInv`).

**ListingProofs.** `TypeCorrect`, `PageIsFilledAlways`, `ProductsOnceAlways`,
`NewestFirstAlways`, for any products, page sizes and number of orders. `CountInv`:
rows are only added after they were counted. `LeafInv`: the pages so far are the
first rows of one sorting; that two SELECTs sort products alike is a lemma
(`OneSorting`), as `product_id` breaks every tie.

**ShopPagesProofs.** `TypeCorrect`, `SettledIsAskedAlways`, `PageExistsAlways`,
`OrderedOnceAlways`, for any table, searches and page sizes. `FetchInv`: without an
overlap one request is on its way, for the query. `ReachInv`: unless a request
failed or was overlapped the page exists and the total is the query's. `OrderInv`:
until an order is repeated there is one on its way, and what is in the form was
not ordered by another. `RowAfterIsFound` shows by counting that each rank below
the number of hits is some row's.

**SessionsProofs.** `TypeCorrect`, `ActsAsLoginAlways`, `CountedIsOrderedAlways`,
`CookieIsAliveAlways`, `SessionEndsAlways`, for any number of clients, users and
logins and any length of the day. `LoginInv`: a row is there once a login reports
success, unless a restore removed it. `CookieInv`: clients have and send only
cookies their own logins brought. `JourneyInv`: a journey does not log in
within an iteration.

**EvaluationProofs.** `TypeCorrect`, `UndisturbedTestAlways`,
`TestedAsRestoredAlways`, for any number of runs, workers and faults. `WorkInv`: a
worker has the only, hidden message of a request unless it overran. `SentInv`: a
run at its work has sent nothing. `ApartInv`: two busy runs are intruded ones. It is
kept by the answer of check-existence: a run at work is unseen and put on record, one
with a message and an active row makes `IsExists` true and ends the newcomer, and
one whose row was closed early is unseen again. Without the guard the step fails.
`DataInv`: what an undisturbed run has left in the database, up to the start of its test.

`WorkersKeepTheirPromises`, `WorkersDeleteTheirOwn` and `OneTestOnTheMachine` carry
the theorems of `LoadTestWorker` over to the composition: `WP == INSTANCE
LoadTestWorkerProofs` has its invariant, and `StepOrBeside` shows that every step of
`Evaluation` is a step of the workers and the queue or leaves their variables alone,
but for the count of faults, which the two share. The assumptions of the instance
follow from `NamesAssumption`.

**Proved and not run.** The type invariants of `Listing`, `LoadTestWorker` and
`ShopPages` are part of their inductive invariants and are left out of the runs; so
are those of `RequestPool` and `Evaluation`.

**Only model-checked.** Liveness (`ShippingIsResolved`, `RequestIsSettled`,
`RequestEnds`, `LoadingEnds`, `PollEnds`), which is out of the
prover's reach. Every other property of a passing run is a theorem.

## 6. Not modelled

* Score computation: a sum of two counters read from a file. `LoadTestWorker`
  has only that an unreadable file counts as 0.
  The local runner (`cmd/runner`) runs k6 once and prints that sum.
* Tracing and image files: wiring and pure input/output.
* `userJourneyScenario2`, which orders nothing and is counted after its last list.
* The robot's API key: a constant that is compared.
* `init.sh` and `entry.sh`, and the branch of `run.sh` for a developer's machine, which
  sends no request and goes on whatever the end-to-end test says.
* Leaving a page of the frontend while it loads: all of its state is gone then.
* Back-off times, logging, the counters of k6.
* The end-to-end tests, read for what they expect.

## 7. Plan

All eight parts are done.

1. `OrderDelivery` and `OrderLifecycle`, their runs and proofs.
2. `Knapsack`, its runs and proofs.
3. `LoadTestWorker` with its proofs, and `Listing`.
4. `RequestPool` with its proofs, and `ShopPages`.
5. `Sessions` with its proofs.
6. `Evaluation`, composed with `LoadTestWorker`, with its proofs.
7. Proofs of `Spec => LifecycleSpec` under `OneRobot`, of `DeliveringIsAccounted` and
   `UnitsAppearTogether`, and of the invariants of `Listing` and `ShopPages`.
8. Proofs about the greedy choice, whose sort is modelled step by step for this; of
   `NobodyStuck`; of termination without fairness (`PlansRunOut`, `RequestsRunOut`);
   of what several robots keep that ask one after the other; and of what the workers
   keep inside `Evaluation`.

What could follow: the hazards of `PROJECT.json` that no property covers, each with
the reason; and `userJourneyScenario2` beside the first scenario.
