# Chonh Choun backend: specifications, checks and proofs

TLA+ models of the delivery backend in `src/` (NestJS, MongoDB through Mongoose,
Redis, MQTT).  The modules are about what the tests of the repository do not
reach: HTTP handlers that suspend at every database call and resume on documents
other handlers have changed, sequences of writes that stop halfway, and
compensations that arrive late.

- [The system](#the-system)
- [What makes it hard](#what-makes-it-hard)
- [Modules](#modules)
- [Runs](#runs)
- [Proofs](#proofs)
- [Disagreements found](#disagreements-found)
- [Limits, and what is not modelled](#limits-and-what-is-not-modelled)
- [Plan](#plan)

## The system

All paths are below `src/src/modules/`.

| Component | State | Operations | What makes it correct |
|---|---|---|---|
| Express delivery (`packages/`) | `packages` documents: status, driver, broadcast window, simulation phase, timestamps, payment | create, update, cancel, remove, broadcast again, accept, poll the simulation, QR pick-up and drop-off, status updates, payout | one driver for each booking, one booking for each driver, no hand-over without its scans, no pay without a delivery, no driver reserved for nothing |
| Driver availability (`users/`) | `availabilityStatus` and `driverProfile` of a user: online, balance | go online or offline, report a location, set the availability | no change of it undoes a payout in the wrong direction or drops a delivery in progress |
| Dispatch receipts (`dispatch-receipt/dispatch-receipt.service.ts`) | receipts with one stop per destination branch; status and receipt of each shipment; availability of truck drivers | create, depart, start and poll the simulation, report an arrival, confirm a stop, cancel | stops in order, confirmed by their own branch, complete only when all are; reports of missing goods are final |
| Receipt planner (`dispatch-receipt-planner.service.ts`) | the same collections | find shipments and trucks, one receipt per route of the solver, claim its shipments, drop it if one is gone | a shipment travels on one planned receipt |
| Branch logistics (`branch-logistics/`) | tickets between branches, with their price and revenue shares | create, assign, receive, collect, dispatch, arrive, ready, complete, cancel | the stages in order, revenue recorded once |
| Wallets (`branch-wallet/`) | wallets of branches and of the company; transactions PENDING, POSTED, VOIDED | pending on creation, posted on completion, voided or reversed on cancellation | balances equal the transactions, nothing is posted twice |
| Revenue sharing and pricing (`admin/revenue-sharing.service.ts`) | versions of the configuration | publish a version | one is active; shares add up |
| Driver applications and vehicles (`driver-applications/`) | applications, vehicles, assignments, users | apply, approve, reject, assign, deactivate | the four collections agree; a vehicle has one driver |
| Accounts and sessions (`auth/`, `redis/`) | accounts; PINs, counters, tokens and cached profiles in Redis | register, verify, complete, log in, refresh, log out, reset | a PIN and a token are used once; guesses are bounded; a reset ends the sessions of the old password |
| Warehouse dispatch (`dispatch/`, `deliveries/`, `packages/warehouse-packages.service.ts`) | packages, deliveries with their routes, drivers online | create, edit, delete, report, dispatch, complete a route, cancel | a package is on one route of one delivery, within the capacity of its vehicle |
| Route solver (`src/solver/main.py`) | none | solve | its hard constraints |
| Branches and agencies (`branches/`, `agencies/`) | branches with numbers and owners | create, suspend, transfer | numbers and owners are unique |
| OSRM client, chat and MQTT, tracking, earnings queries, mail and images | none that another component decides on | calls and queries | external, or queries only |

How they interact: every component is a set of singleton services in one Node
process.  They call each other directly and share MongoDB documents: express
delivery, dispatch receipts and warehouse dispatch all write the
`availabilityStatus` of the same users; dispatch receipts, their planner and
branch logistics write the same shipments; branch logistics drives the wallets.
The progress of a trip is computed when somebody polls it, by up to three
clients at once; nothing runs on a timer.

## What makes it hard

Three facts about the database shape all modules.

1. There are no transactions.  A handler is a sequence of separate reads and
   writes, and other handlers run between any two of them.
2. `findOneAndUpdate`, `findByIdAndUpdate`, `updateOne` test their filter and
   write in one atomic step, so a guard is worth something when it is in the
   filter and nothing when it is an `if` on a document loaded before.
   `updateMany` is atomic for each document only.
3. `document.save()` sends the paths that were modified since the document was
   loaded (`Written` in all modules) and tests nothing, with two exceptions: it
   fails when the document is gone, and a change inside an array makes it test
   `__v`, which some array changes also increment.  Which saves are protected by
   the version therefore depends on what they write.

The hazards that follow are listed line by line in `PROJECT.json`.  The code has
one process, no queue and no retry, so there is nothing to say about duplicated
or reordered messages between components (a Redis call may fail, and is then
logged and answered with a default: `Accounts` has that fault); requests themselves may come in any
order and any number of times, and they do in every run.

## Modules

### `ExpressDelivery` (packages.service.ts, users.service.ts)

A request occupies a slot of `req` from its first read to its last write.  A
`Begin...` action is the part of a handler up to its first write after its last
check; the actions named after a write (`...Save`, `...Write`, `AcceptReserve`,
`AcceptClaim`, `Release`, `PaySave`) are one database round trip each.  What a
handler read and uses after an await stays in the slot: `seen` (the booking),
`me` (the driver), `at` (the date it took).

| State | In the code |
|---|---|
| `pkg[p]` | document of `packages`; ids without one are `ABSENT` or `REMOVED`; the timestamps are the set `stamps`; `v` is `__v` |
| `drv[d]` | `availabilityStatus`, `driverProfile.isOnline`, `driverProfile.balance`; the balance counts prices, the constant factor of 95 % is left out; `OFFLINE` stands for `ON_BREAK` and `UNAVAILABLE` too |
| `req[r]` | the locals of a suspended handler |
| `clock` | `new Date()`, in ticks; only compared with `broadcastExpiresAt` |
| `payouts` | history variable: what the committed deliveries were worth |

`acceptPackage` is five actions: `BeginAccept` (the driver is online and
available), `AcceptFind` (the booking can be claimed), `AcceptReserve` (updateOne
to `ON_TRIP`, after the two route requests), `AcceptClaim` or `AcceptLose` (the
findOneAndUpdate finds its filter true, or another got there first, or the call
threw), and `Release`, the compensation.  A database failure is possible where
the code has a branch for it.

`Crash` empties all slots: the process dies and whatever was between two writes
stays there.  The code has no start-up recovery.

### `DeliveryClaim`

The abstract specification of matching: a booking is open until it is closed or
claimed by one driver, and both are final until it is hard-deleted.  No
requests, no clock, no availability.  `ExpressDelivery` maps its documents to it
with `claimMap` (`Claims == INSTANCE DeliveryClaim WITH claim <- claimMap`).

### `DispatchReceipt` (dispatch-receipt.service.ts and the planner)

| State | In the code |
|---|---|
| `receipt[c]` | a receipt; its array of stops is a function of the destination branch, the position is `stopOrder` (0: not on the route); `started` and `segment` are `simulationStartedAt` and `simulationSegmentStartedAt` |
| `shipment[s]` | status, `dispatchReceiptId`, `assignedDriverId` of a branch-logistics shipment |
| `driver[d]` | `availabilityStatus` of a truck driver |
| `req[r]` | suspended handlers, with `seen` (the receipt loaded) and `todo` (the documents an updateMany has still to visit) |

`Sweep` is updateMany: one document per step, in any order, then the handler
goes on.  `SameVersion` is the version test of saves that change a stop.  The
answer of the route solver is nondeterministic: any driver found available and
not used yet, any branches with all their shipments, any order.  Receipts are
created only for destinations that receive something, with distinct stop orders;
the code computes both.

### `BranchPricing`, `BranchLedger` (branch-logistics, branch-wallet and revenue-sharing services)

`BranchPricing` has the fees of a ticket and its split into three shares.  The extra
fee and the discount may be any numbers and the total is not rounded, so a price is in
parts of a cent, of which a cent has `Cent`; shares and wallets are in cents.
`Splits` is the set of the splits that `toFixed(2)` may give: the two branches'
percentages and what they leave for the company are rounded, each by itself, and the
binary fraction decides a tie (`Rounding!Nearest`, which `WarehouseDispatch` uses
too).  `BranchLedger` is the ticket with its money.

| State | In the code |
|---|---|
| `shipment[s]` | stage of a ticket, whether a driver and vehicle are set, and the timestamps that say how far it once was |
| `swept[s]` | history of what the ticket's dispatch receipt wrote to it: `link`, `depart`, `arrive`, `unlink`, each once |
| `config[v]` | the revenue-sharing configuration of version `v` |
| `wallet[a]` | wallets of the branches and of the company: available, pending, credited and debited amounts |
| `tx[s][role]` | the transactions of a ticket for sender, receiver and company |
| `req[r]` | suspended handlers; `jobs` are the wallet updates a `Promise.all` runs at once |

A wallet update is load (or open), save, and then the insert or save of the
transaction that explains it: `LoadWallet`, `OpenWallet`, `SaveWallet`,
`EnterTransaction`.  `Turn` says which updates of a handler may overlap: all of
them, or, where the code settles found transactions in a loop, one after the other.  `ReceiptSweep`
is what `DispatchReceipt` does to a ticket, seen from here: a stage written by id
alone, at any time.  A cancelled receipt sets it to `CREATED` without driver and vehicle.
The bound is one receipt for each ticket.

### `DriverFleet` (driver-applications.service.ts)

| State | In the code |
|---|---|
| `user[p]` | role, `isActive`, `assignedVehicleCode` |
| `vehicle[v]` | a company truck, or the vehicle of a driver's own, whose code holds the driver's id and which is named by the driver |
| `assignment` | the driver-vehicle assignments in the order they were made |
| `application[a]` | driver applications |

Every handler of the service that writes one of these, for owners and
administrators; the two reviews differ in who may call them and are one action
sequence.  Administrators enter a truck with any status, `IN_USE` as well, and for the
branch or for none; one edit may name a branch and a status.  `seen` is what the handler
loaded of the vehicles it saves.  `entered` is a history variable: the trucks that are `IN_USE` because they
were entered so.  The unique indexes
(code of a vehicle, e-mail and phone) are the only guards that hold at the
write: `InsertTruck`, `AccountInsert`, `OwnInsert`.

### `Accounts` (auth, registration, password and Redis services)

Each key of Redis is state of its own: `otp`, `attempts`, `pending`, `token`,
`refresh` (with `live` for the key of a token and `indexed` for its place in the
user's set), `session`.  A handler is suspended at every call.  `Write` is a
call that succeeds and `MissWrite` one that fails, after which the handler
goes on as the code does; reads that fail have a disjunct of their own (a counter of
wrong guesses that cannot be read counts as zero).  `pin` is the list of
what each PIN was asked for, a stored PIN carries the wrong ones it was compared with
(both history), `mishap` counts overlaps,
crashes and failed calls.  `Verify` submits the PIN that was mailed, or a wrong
one.

### `RouteSolver`, `WarehouseDispatch` (solver, dispatch, deliveries and warehouse-packages services)

`RouteSolver!Plans` is the set of answers that meet the hard constraints of
`_solve`: the capacity of each vehicle, the least number of stops, stops that
are dropped.  A dispatch takes any of them, or none.  `WarehouseDispatch` has
the packages of one source branch, the deliveries in the order of their
creation, with routes and the packages of each stop, and the drivers who are online.  A
dispatch is `Dispatch` (drivers are online), `LoadPackages`, `Solve`
(`CreateDelivery` or `NoPlan`), `MarkAssigned` and `DriversOffline`, which are updateMany and take one
document at a step.  A weight is in units of which a tenth of a kilogram has `Tenth`.
Which drivers may go at all is decided with the exact weights; the solver counts in
tenths, and each stop's sum is rounded to them (`StopNodes`).

### `MCExpressDelivery`, `MCDispatchReceipt`, `MCBranchLedger`, `MCDriverFleet`, `MCAccounts`, `MCWarehouseDispatch`

Which ids, prices and capacities each instance has, which operations
(`Operations` guards the first action of each operation, where a module has it), and the
symmetry.  Ids are interchangeable and no property of a run with a SYMMETRY is a
liveness property.

### `ExpressDeliveryProofs`, `DispatchReceiptProofs`, `BranchLedgerProofs`, `LedgerBooksProofs`, `DriverFleetProofs`, `AccountsProofs`, `WarehouseDispatchProofs`, `SumProofs`

The theorems about each module; `LedgerBooksProofs` extends `BranchLedgerProofs`
with the books, and `SumProofs` has the lemmas on sums and on rounding that four of the
others cite.  See [Proofs](#proofs).

## Runs

`tlc -config X.cfg M`.  Deadlock is not checked in any of them: a service whose
clients send nothing, or whose bounds are reached, rightly stands still.

| Run | Instance | What it shows |
|---|---|---|
| `express_matching` | 2 bookings, 2 drivers, 3 requests; create, accept, broadcast again, cancel; clock 0..1 | `ClaimSpec`, `NoDoubleBooking`, `ReservationAccounted` |
| `express_resolution` | 1 booking, 2 drivers, 3 requests, fair | `ReservationResolved` |
| `express_trip` | 1 booking, 1 driver, 2 requests, 1 crash; all operations of the trip; prices 1 and 2 | `TypeOK`, `HandoverChain`, `NoUnearnedBalance` |
| `receipt_trip` | 1 receipt, 1 truck, 2 shipments for 2 branches, 2 requests, 1 crash; all operations | `TypeOK`, `StopsArriveInOrder`, `CompletedConfirmed`, `MissingReportKept` |
| `receipt_planning` | 2 receipts, 2 trucks, 2 shipments, 2 requests; planners, departures, arrivals by hand, confirmations | `PlannedOnce`, `ConfirmedBeforeNext` |
| `ledger_books` | 1 ticket, 2 branches and the company, 2 requests, 2 versions, 1 reversal, 1 disturbance; a price of 4.104; all operations, with linking, arrival and unlinking written by receipts | `TypeOK`, `BooksBalance`, `SettledWithCause`, `SharesAddUp`, `OneActiveVersion`, `ConfigInForce`, `CompletedIsPaid` |
| `fleet` | a customer and a person without an account, 2 applications, 1 truck, 2 assignments, 2 requests, 1 disturbance; all operations | `TypeOK`, `TrucksAccounted`, `AssignedOnce`, `OwnVehicleOnce`, `ApprovedIsComplete`, `ApprovedOnce` |
| `accounts` | 1 e-mail address, 2 phone numbers, 2 requests, 2 PINs, 2 tokens, 2 sessions, 2 passwords, 2 attempts, 1 mishap; all operations | `TypeOK`, `PhoneAsAsked`, `GuessesBounded`, `TokenPerPin`, `SessionsOfThisPassword`, `ExchangedOnce` |
| `warehouse` | 2 packages of 0.1 or 0.24 kg, 2 branches and a destination that is none, drivers who carry 0.1 and 0.3 kg, 2 requests, 2 deliveries, 2 reports of packages, routes or cancellations, any of who is online, 1 mishap; all operations | `TypeOK`, `DispatchedOnce`, `WithinCapacity`, `CompletedWhenDone`, `ListedIsTaken` |
| `express_cancel_race` | 1 booking, 1 driver, 2 requests | `CancelOnlyUnassigned` is violated |
| `express_offline` | 1 booking, 1 driver, 1 request | `OfflineOnlyBetweenDeliveries` is violated |
| `receipt_truck` | 1 receipt, 1 truck, 1 request, with the simulation | `ConfirmedBeforeNext` is violated |

What the properties say:

- `ClaimSpec`: `ExpressDelivery` implements `DeliveryClaim`.  Between the checks
  of `acceptPackage` and its write lie seconds of route requests; only the filter
  of the last update stands between two drivers.
- `NoDoubleBooking`: up to the drop-off a driver has at most one of a booking and
  a reservation in flight, so no compensation frees a driver who has a booking.
- `ReservationAccounted`: `ON_TRIP` if and only if there is a booking or a
  reservation in flight.  A lost race leaves nothing behind.
- `ReservationResolved`: a reserved driver ends up with a booking or available.
- `HandoverChain`: no booking in transit, delivered or paid without the driver
  and the scans that lead to it, although polls, scans and status updates save
  statuses computed from documents that have changed since.
- `NoUnearnedBalance`: the balance never exceeds the committed deliveries,
  although payouts and location reports write back a balance they read earlier.
  Less is possible: the later of two writes wins.
- `StopsArriveInOrder`, `CompletedConfirmed`: stops are reached in order, and a
  receipt completes only with every stop confirmed.
- `MissingReportKept`: a report of missing shipments is never replaced by a late
  confirmation or arrival.  It rests on the version its list increments: a stop
  confirmed without a list is not protected in this way.
- `PlannedOnce`: concurrent planners never put a shipment on two receipts that
  are kept.
- `ConfirmedBeforeNext`: no truck passes a stop that is not confirmed, with
  arrivals by hand.

- `BooksBalance`: between handlers that ran in turn, each wallet has moved by
  exactly what its transactions add up to, although the updates of one handler
  overlap, amounts are clamped at zero and each transaction is written after its
  wallet.  The wallets start as earlier tickets may have left them, so a clamp
  that hides a mistake shows.
- `SettledWithCause`: always, whatever overlaps, crashes or comes late from a
  receipt: money is posted only for a ticket that has arrived and was completed,
  and made void only for one that was cancelled.
- `SharesAddUp`: the shares of a ticket, which are rounded one by one, add up to its price
  rounded once to a nearest cent: to the price itself when it is whole cents.
- `OneActiveVersion`, `ConfigInForce`: however publishers interleave, the unique
  version number leaves at most one configuration active; in turn, there is one.
- `CompletedIsPaid`: a completed ticket's money reaches all three wallets, for
  handlers that run in turn; the status is saved long before.
- `TrucksAccounted`, `AssignedOnce`: with handlers in turn, a truck is in use
  exactly when one active assignment ties it to a driver, except one that was entered as
  in use and stays so, and no driver has two
  primary vehicles: six handlers keep three collections in step.
- `OwnVehicleOnce`, `ApprovedIsComplete`, `ApprovedOnce`: however reviews race
  and wherever the process dies, a driver gets a vehicle of his own once, an
  approved application has its account, vehicle and assignment, and one
  overlap does not get a person approved twice.
- `PhoneAsAsked`, `TokenPerPin`, `GuessesBounded`, `ExchangedOnce`: a PIN leads
  to the phone number it was asked with, to one token, and is compared with a
  bounded number of wrong ones; a refresh token is exchanged once.  Each says which
  mishaps it withstands: all four withstand a crash, `GuessesBounded` pays one
  guess for each overlap or crash.
- `SessionsOfThisPassword`: after handlers that ran in turn, no refresh token or
  cached profile survives a reset, although the revocation goes through an index.
- `DispatchedOnce`, `WithinCapacity`, `ListedIsTaken`: a package is on one route of
  one delivery, what its packages weigh now exceeds the capacity of a vehicle by no more than
  the solver's rounding hides, half a tenth of a kilogram for each stop, and no
  package of a delivery can be planned again.
- `CompletedWhenDone`: a delivery is `COMPLETED` only when all its routes are,
  always, and then unless cancelled, if drivers do not complete routes at once.

Several of these hold only for handlers in turn, and this is a fact about the
code: `Calm` and `Without(kinds)` name what each property excludes, the
instance has the excluded interleavings as well, and there the other
properties are checked.

Why the bounds are enough.  The races of these handlers are between two of them:
each holds one stale document, and a third request only adds another stale
document of the same kind.  Matching has three requests because a loser's
release, a winner and a newcomer can meet there, and two bookings because a
driver could be booked twice.  One tick of the clock separates "window open" from
"closed"; rebroadcasting reopens it.  `MaxPayout` lets a driver start
drop-offs until he has been paid for two units, so a booking that a stale poll
rolled back is delivered and paid a second time, and two payouts can overlap.
Two prices let a booking change its price between two saves.  One disturbance lets two handlers overlap, or one die, at any point of any
history of others; the properties that survive any number of them
(`SettledWithCause`, `OneActiveVersion`, `OwnVehicleOnce`, `ApprovedIsComplete`)
need only two handlers to break.  The instances with two tickets or two
disturbances exceed five minutes.  With one truck a driver is never moved from one truck to
another in `fleet`.  Theorem `TrucksMatchAssignments` covers that, and TLC finds no
error with two trucks, `Own` {NONE} and {MOTORCYCLE} and `Statuses` {AVAILABLE}, which
take 15.6 million states and 14 minutes.  In `accounts` two refresh tokens are
issued, so none can be exchanged twice: that takes a third, with which TLC finds no error
either (`MaxIssues = 3`, 3.7 million states, 4 minutes), and theorem
`TokensExchangedOnce` has no such bound.  No share of a price of 4.104 is
whole cents.  Two attempts
stand for five: the counter is compared with the bound only.  Two packages and
two drivers of which one carries a light package only are the fewest with which a plan
can drop a stop, overload a vehicle or leave a driver without a route; a package
of 0.24 kg counts as 0.2, so one of each fits a vehicle for 0.3 kg.  Two stops are the
fewest with an order; each branch receives one shipment, and with one crash the
process can die between any two writes.  Every bound is a constant of its module
and appears in a guard.

Fairness.  `FairSpec` of `ExpressDelivery` is weak fairness of `Resume(r)` for each
slot, and `Spec` of `BranchLedger` has that of `\E r \in Requests : Continue(r)`, which is
less: when the
database has answered, the Node event loop resumes the handler.  Nothing is
assumed of clients: no request ever has to be sent.  `express_resolution` has no
crash, which nothing recovers from, and `CompletedIsPaid` excludes one by `Calm`.
The other modules have no liveness property: every loop of theirs runs over a
finite set, and what should happen after a failure nobody makes happen.

Every property of a passing run has a mutant in `PROJECT.json`: a definition of
the code with a plausible mistake (the filter that is the id alone, the missing
release, the version that is not incremented), under which TLC finds the
property violated.  The operators of these mistakes stand before the definition
they replace, marked "Mutation test", and are used nowhere else.

## Proofs

`tlapm` checks eight modules.  Every invariant and every action property of a
passing run, and the refinement, is also the conclusion of a theorem; the two
liveness properties stay with TLC.  TLC looks at the instances of the table above;
the theorems hold for every value of the constants that the assumption of the
module admits:

- `ExpressAssumption`: no driver is called `NoDriver` or has the name of a state of a
  claim, prices are naturals, statuses that administrators force are among those of
  the DTO, request slots are finitely many.
- `ReceiptAssumption`: null is no id, each shipment has a destination, branches are
  finitely many.
- `LedgerAssumption`: null is no ticket and the company is no branch, the branches of a
  ticket differ, percentages add up to 100, a parcel can be priced, opened wallets are
  consistent, tickets are finitely many.
- `FleetAssumption`, `AccountsAssumption`, `WarehouseAssumption`: ids of different kinds
  differ, null is none, what handlers count over is finite.

That a set of slots is finite says that the process never has infinitely many requests
at once; it is assumed only where a proof counts or adds up over it.  TLC evaluates
each assumption in every run of its module.

Each proof has the same outline.  The property is seldom inductive, since a suspended
handler holds something that was true when it read it; an inductive invariant says
what of that is still true when it writes.  TLC checked them on the instance of
their run first, where it can evaluate them.  There is one lemma for each kind of step, and the theorem
combines them.  `TypeOK` is not inductive either: a save would write the document
"none" if a slot could wait for it without one, so every `TypeInv` adds what a slot
holds at each step (`SlotOK`, `SlotFit`).

### Express delivery

- `TypeCorrect`: `Spec => []TypeOK`.
- `ClaimRefinement`: `Spec => ClaimSpec`.  One lemma per kind of step says how it moves
  the claim of a booking: most do not, the claim of `AcceptClaim` is a `Claim`, a
  cancellation or failure of a pending booking is a `Close`.  The step lemmas use
  `TypeInv` only: the refinement rests on the filter of one update and on no history of
  the handler.
- `HandoverCorrect`: `HandoverChain`, for administrators who force no status but
  `FAILED`.  `HandoverInv` says of every booking that it is `Chained`, and of every
  suspended save that the document it loaded was `Chained` and that its stamps are among
  the current ones.  Stamps are only added; that is the reason why saving a status
  derived from an old document is harmless to the chain.
- `BookedOnce`: `NoDoubleBooking`, crashes included, under `MatchingOnly`: no drop-off,
  forced status, or driver who sets his own availability, which are the operations that
  do free a driver with a booking.  `MatchInv` adds that whoever has a booking or a
  reservation is `ON_TRIP`; then the filter of the reservation finds only drivers who
  have neither, and a handler that releases a driver is the one that reserved him.
- `ReservationsAccounted`: `ReservationAccounted`, under `MatchingOnly` without crashes
  and hard deletes, both of which leave drivers `ON_TRIP`.  It needs in addition that
  an id without a document has no driver (`AccountInv`).
- `BalancesEarned`: `NoUnearnedBalance`, without any hypothesis.  A payout and a change of
  availability write back a balance they read earlier.  `PayInv` adds up what all handlers are still to
  pay a driver (`Due`): his balance and `Due`, and any balance that a suspended handler
  has read and `Due`, do not exceed the committed deliveries.

### Dispatch receipts

- `ReceiptTypeCorrect`: `Spec => []TypeOK`.
- `StopOrder`, `CompletionConfirmed`: `StopsArriveInOrder` and `CompletedConfirmed`, for
  routes of any length.  `StopInv` adds that every receipt, and every receipt a suspended
  handler loaded, is `Sound`, and that the current stops are a `Progress` of the loaded
  ones: the same route, no stop pending again, no confirmation taken back.  The proof
  does not use the version test: both properties hold without it.
- `MissingReportFinal`: `MissingReportKept`, an action property.  This one needs the version
  test.  `VersionInv` relates versions to reports: a receipt in the version that a
  handler loaded has no report of missing shipments which that handler did not see,
  because a report increments `__v`.
- `NextStopAfterConfirmation`: `ConfirmedBeforeNext` while nobody polls the simulation
  (`ByHand`).  Of a late arrival report it needs that the earlier stops were confirmed
  in what it loaded, and, from `StopInv`, that a confirmation is not taken back.
- `ShipmentsPlannedOnce`: `PlannedOnce`, for any number of planners, when no receipt is made by hand
  or cancelled and the process does not die (`ByPlanners`).  `PlanInv` says that each
  receipt being claimed for belongs to one planner, and that one of whose claims none
  has failed has all the shipments he has visited.

### Tickets and wallets

- `LedgerTypeCorrect`: `Spec => []TypeOK`.
- `OneConfigurationActive`: `OneActiveVersion`, whatever overlaps or crashes.  `ConfigInv`
  says that every version below another is inactive and that a publisher who could
  still insert has retired the version he follows: for any other the number is taken.
- `ConfigurationInForce`: `ConfigInForce`, for handlers in turn.  `CalmInv` says that a
  handler is alone, and that the only time without an active version is between the
  two writes of a publisher whose insert will succeed.
- `MoneySettledWithCause`: `SettledWithCause`, whatever overlaps, crashes or arrives late.
  `StampInv` says which timestamps a handler relies on, and no step takes one away.
- `SharesMakeThePrice`: `SharesAddUp`, for all percentages and all prices in parts of a
  cent, whole cents or not.  Whole cents taken from the price do not change how it
  rounds (`SplitSum`), and the company's share is what is left, rounded.  A ticket is created
  once; `ShareInv` says that what its handler has still to enter and what it has
  entered are parts of one split of the price.
- `LedgerBooksBalance`: `BooksBalance`, for any number of tickets and any amounts in the
  wallets before.  `TurnInv` says that money is posted for completed tickets only, so that
  a cancellation in turn has nothing to reverse; `BooksInv` says by how much a wallet is ahead of
  its transactions between the two writes of an update, and that of the updates which
  overlap in a handler no two are of one wallet.

`LedgerBooksBalance` has the hypothesis `NoNegativeShare`, which the failed attempt
without it brought to light.  Two branch shares that both round up leave the company a
negative one: a price of 4.25 at 50, 50 and 0 per cent is split into 2.13, 2.13 and
-0.01.  With two such tickets pending, `Math.max(pending - amount, 0)`
(branch-wallet.service.ts:375 and :561) makes the pending balance of the company 0 when
the first is settled, and its transactions say -0.01: the clamp hides a cent.  TLC finds
`BooksBalance` violated on that instance.  The hypothesis also wants the pending
balances that earlier tickets left not to be negative.  The prices of `ledger_books`
satisfy it, and its MC module assumes it, so that TLC evaluates it.  The other
theorems do not need it.

### Fleet

- `FleetTypeCorrect`: `Spec => []TypeOK`.  The bound on the number of assignments holds
  because a handler that will make one has its place (`Owing`).
- `OwnVehicleAssignedOnce`, `ApprovalsComplete`: `OwnVehicleOnce`, `ApprovedIsComplete`,
  whatever overlaps or crashes.  `OwnInv` says that the unique code of a driver's vehicle
  lets one approval at a time stand between entering and assigning it, and none later;
  `StaffInv` that an approval past the account has its driver, and one about to be saved
  its assignment; `FormInv` that an application under review keeps its person.
- `ApprovedOnceEach`: `ApprovedOnce`, for one overlap or crash in any history.
  `SingleInv` says that before any disturbance a person has one pending application, and
  that after one the approvals of a person which are under way are all of one
  application, and what has been approved of him is that one.
- `TrucksMatchAssignments`, `TrucksAssignedOnce`: `TrucksAccounted`, `AssignedOnce`, for
  handlers in turn.  `CalmInv` keeps `Books`: no truck has two assignments, and every
  truck is in use exactly when assigned or entered so (`Even`), except those whose second write the handler
  still owes (`Owed`); and it keeps what the handler knows at each step (`InStep`).
  An assigned truck is none of the entered ones, because it was available before.

### Accounts

- `AccountsTypeCorrect`: `Spec => []TypeOK`.
- `TokensExchangedOnce`, `OneTokenPerPin`, `PhonesAsAsked`: `ExchangedOnce`, `TokenPerPin`,
  `PhoneAsAsked`, all with crashes.  The invariants follow a token or a PIN through the
  handler that holds it: `Exchanging` (a token to be exchanged has led to none
  and is revoked first), `SlotApart` (a verified PIN has no token yet, and is in no key
  after its deletion), `SlotPhone` (the phone number in each key and slot is the one of its PIN).
- `SessionsRenewed`: `SessionsOfThisPassword`.  `SessionInv` says that every live token is in the
  index of its user or about to be, and that a token or profile of another password
  is about to be revoked by the reset that is under way.
- `GuessesAreBounded`: `GuessesBounded`, with any number of overlaps and crashes.  The counter is behind the
  guesses by one for each of them; `GuessInv` counts the guesses made and those in flight (`Seen`).

### Warehouse

- `WarehouseTypeCorrect`: `Spec => []TypeOK`.
- `PackagesDispatchedOnce`, `RoutesWithinCapacity`, `ListedPackagesTaken`,
  `DeliveriesCompletedWhenDone`: the four invariants.  `ListInv` and `MarkedInv` hold
  whatever overlaps: a delivery is `Sound`, and its packages are taken or its dispatch is about
  to mark them.  `AloneInv` and `InTurn` are for handlers in turn: what a dispatch has loaded is on no
  delivery and weighs what it weighed.  The answer of the solver enters by the
  constraints of `RouteSolver!Plans` alone, in the rounded weights; a sum of stops of
  which each is off by half a unit at most is off by half a unit for each of them.

### Sums, and forms chosen for the prover

Balances and loads are sums over sets, `SumFunctionOnSet` of the community modules, which is
recursive inside.  `SumProofs` proves what is needed of it without induction over
data: two solutions of its equation that differ would differ on a set of least
cardinality, and there is none; a partial solution exists for every cardinality by
the same argument.  From this follow the lemmas that take one number out of a sum,
change it, or bound it.

For the proofs some definitions were rewritten with the same meaning: `Carried` in
`RouteSolver` is such a sum, `Ascending` lists the members of a set by their rank
(where the code filters a list, which the prover cannot unfold), and the guards of
the `CASE`s of `DriverFleet` exclude each other.  Nothing is left out of the model for their sake.

### Model-checked only

`ReservationResolved` and `CompletedIsPaid` are liveness properties under fairness, which
`tlapm` cannot prove; so are the facts about enabled steps they would rest on.  The three
properties of the violation runs are false.  The bounds on counters are constants that
the theorems leave open, so whatever finite history the code can have, they hold of it
with bounds large enough.

## Disagreements found

- **A booking is cancelled after a driver accepted it** (`express_cancel_race`).
  `cancel()` checks the status of the document it loaded and then updates by id
  (packages.service.ts:365).  `PACKAGES_API_DOCUMENTATION.md:313` says it cannot
  be cancelled once assigned.  The driver stays `ON_TRIP`.
- **A driver goes offline during a delivery** (`express_offline`), one request at
  a time: `isOnline=true` makes a driver who is `ON_TRIP` available, and then
  `isOnline=false` is accepted.  The message at users.service.ts:234 says that an
  active delivery must be completed first.
- **A truck passes an unconfirmed stop** (`receipt_truck`), one request at a
  time: arrival at stop 1 by hand, then the simulation is started, and a poll
  reports stop 2 because it looks at pending stops only
  (dispatch-receipt.service.ts:536).  The comment at line 594 excludes it.

## Limits, and what is not modelled

Where the code gives no guarantee, a property is stated for the operations that
do not destroy it, and the module says so at the property:

- `NoDoubleBooking` and `ReservationAccounted` are about matching.  Afterwards a
  driver can set his own availability, `FAILED` on an old booking releases
  whoever its driver is, and a booking keeps its `driverId` when it is over.
- `ReservationAccounted` and `ReservationResolved` exclude crashes and hard
  deletes: both leave a driver `ON_TRIP` for good, and no code looks for him.
- `HandoverChain` excludes administrators who force `PICKED_UP`, `IN_TRANSIT` or
  `DELIVERED`: that is what forcing is for.
- `PlannedOnce` excludes receipts made by hand, whose link of shipments is by id
  alone, and cancellations; it says nothing of shipments claimed for a receipt
  that was dropped, which stay linked to it.
- `ConfirmedBeforeNext` excludes the simulation, which breaks it.

- `BranchLedger`: two completions at once post the same revenue twice, two
  handlers on one wallet lose amounts, a crash between a wallet and its
  transaction stays in the books, and a cancellation can be repeated and debits
  again.  A publisher who is cut off, or who overlaps another, can leave no
  active configuration, and `getCurrentConfig` then fails for ever, since it
  tries to create version 1.  A late write of a receipt takes a cancelled or
  completed ticket back to the road.
- `DriverFleet`: two handlers at once can assign a truck twice or leave it in use
  by nobody.  An approval that fails after it made the account, because its truck
  is taken, leaves an application that can never be approved.  A rejection can
  be saved over an approval.  One branch is modelled, so a truck is of
  the branch or not.  A truck that an administrator enters as `IN_USE`
  (driver-applications.service.ts:629) is in use by nobody until its status is edited,
  although the message at line 710 says that only assigned vehicles can be marked so;
  `TrucksAccounted` makes an exception for those trucks and `entered` says which they are.
- `Accounts`: overlapping requests mix a PIN with another's phone number, or
  exchange one refresh token twice; a login that overlaps a reset keeps the
  session it opened with the old password.  Without Redis, guesses are not
  counted.  One e-mail address in the instance: phone numbers of other accounts do not meet.
- `BranchPricing`: a price of 2.505 at 10, 10 and 80 per cent gives shares of 0.25, 0.25 and 2.00
  or 2.01: half a cent too little or too much.
- `WarehouseDispatch`: a stop of 30.04 kg counts as 30.0 for the solver, which may then send it
  with a vehicle for 30 kg: a route exceeds its capacity with handlers in turn, by 0.05 kg
  for each stop at most.  Two dispatches at once plan a package twice.  Packages of a
  dropped stop, of an unknown destination or of a cancelled delivery stay
  `ASSIGNED`.  Two drivers who finish at once can leave the delivery
  `IN_PROGRESS`, and a route completed after a cancellation sets it going again.

Left out of the modules, as nothing in them depends on it: who may call
what (the checks of roles, owners and branches at the head of each handler are
taken as passed; a wrong caller changes nothing), prices and their
computation, routes, positions and progress between two arrivals, QR
tokens beyond the status their scan requires, MQTT notifications, wording.
Distance and solver feasibility are nondeterministic.  The weights and sizes of parcels are
exact numbers, where the code has binary fractions.  In `Accounts` also: access tokens and
their blacklist (token guards read it, so the model has more calls), the cooldown key (asking again is
always possible), the expiry of keys other than a PIN's (the model lets them live, so
it has more behaviours).  In `DriverFleet`:
`updateDriverManagementForBranchOwner`, which writes limits and the availability.

Components without a module are in `PROJECT.json` with the reason.  OSRM, mail and
image storage are external; chat, tracking and the earnings queries keep no
state that other components decide on.  Branches, agencies and onboarding are
edits of single documents; the upgrade of an owner (admin.service.ts:43) saves
the role and then creates the branch, so a failure in between leaves an owner
without a branch who cannot be upgraded again, and the number of the branch is a
read and an insert that a unique index refuses when it came late.

## Plan

Modelled, in this order: `ExpressDelivery` with `DeliveryClaim`, `DispatchReceipt`,
`BranchLedger` with `BranchPricing`, `DriverFleet`, `Accounts`, `WarehouseDispatch`
with `RouteSolver`; each with its proofs, `LedgerBooksProofs` last.

Next, theorems that say more than the runs ask:

1. What holds of `BranchLedger` and `DriverFleet` after a disturbance and not only before:
   which wallet, truck or assignment two overlapping handlers can disagree about.
2. The guarantees of `PlannedOnce` with crashes: a planner that dies leaves claims but
   takes none.
3. An abstract specification of the money of a ticket (expected, then paid or void),
   with `BranchLedger` shown to implement it where `SettledWithCause` holds.

A composition of `DispatchReceipt` and `BranchLedger` in one specification was
planned; its interface, the sweeps of a receipt over tickets, is now part of both
modules, and their product is beyond what TLC finishes in minutes.
