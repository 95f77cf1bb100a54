# Formal model of the order platform

TLA+ specifications of the microservices platform in this repository, the TLC
runs that check them on small instances, and TLAPS proofs of what matters most.
Source paths below are relative to the repository's root; `backend` and
`frontend` are its two halves.

## The system

| Component | State it keeps | Operations | Talks to |
|---|---|---|---|
| order-service (`backend/apps/order-service`) | SQL Server: `Orders`, `OrderItems`, `OutboxEvents`, `ProcessedEvents` | create, cancel, getById, list, applyPaymentResult, productHasNonTerminalOrder, getCustomerIdForOrder; outbox publisher | product-service (TCP), SNS `order-events`, SQS `order-svc-payment-queue` |
| payment-service (`backend/apps/payment-service`) | MySQL: `payments`, `outbox_events`, `processed_events` | processOrderCreated, findByOrderId; outbox publisher | SQS `payment-svc-order-queue`, SNS `payment-events` |
| product-service (`backend/apps/product-service`) | MongoDB products with `stockQty` | list, get, create, update, remove, reserveStock with compensation | order-service (TCP) for the delete guard |
| notification-service (`backend/apps/notification-service`) | MongoDB notifications | create (from two queues), list, markRead | order-service (TCP) for the customer of a result |
| auth-service (`backend/apps/auth-service`) | Redis refresh tokens | register, login, refresh, logout | user-service (TCP) |
| user-service (`backend/apps/user-service`) | MongoDB users | register, verifyCredentials, profile, list | - |
| gateway (`backend/apps/gateway`) | none (Redis rate-limit counters) | HTTP routes, guards, composite order read | every service (TCP, 5 s) |
| libs (`backend/libs`) | consumer and publisher base classes, TCP client, error mapping, guards, events | | |
| frontend (`frontend/src`) | session tokens, cart, polled order | login/refresh/logout, cart, checkout, order page | gateway (HTTP) |
| infrastructure | SNS topics, SQS queues with redrive to a DLQ | | |

A checkout is one call through the gateway to `OrdersService.create`: reserve
stock over TCP, write the order and its outbox row in one transaction, confirm it
with a second statement, read it back.  From there on the order moves by events:
the outbox publisher of order-service sends ORDER_CREATED, payment-service
charges and writes its own outbox row, its publisher sends the result, and
order-service settles the order.

### What is hard, and what must hold

| Component | Hard behaviour | What makes it correct |
|---|---|---|
| checkout saga (order- and payment-service, messaging library, queues) | at-least-once delivery, publishers that roll back after SNS has accepted a row, crashes between a commit and a delete, a confirmation that races the publisher, dead-lettering | one charge and one result per order; a settled order agrees with its payment in the other database; no published event is lost; redelivery is only ever the consequence of a failure; every order is charged and every charge reaches its order |
| stock reservation (order- and product-service) | overlapping carts, compensation of half a cart, a caller that gives up while the callee runs on, death inside the loop, an admin who rewrites or removes a product | units are conserved, never oversold; an order exists only for a reserved cart; a call that no failure has hit leaves no units behind; a removed product is in no open order |
| session (frontend client, auth-service, Redis) | many requests meeting one expired token, rotation in three Redis steps, logout and login while a refresh is in flight, reload, lost answers | one shared refresh that always settles; the tab always has a usable refresh token; no stray live token; every call ends |
| notification-service | consumers without a ledger, a lookup that may fail before the write, batches that outlast their visibility timeout, several instances | every event is told or dead-lettered, twice only after a failure, and to the customer of its order |
| order pages (order, payment and notification reads behind them) | a chain of poll timers, cancellation in between, answers of pages that were left, a mark that is shown before the server knows | the end of an order is shown; a list shows the page and filter its controls name; one never sees another's order or payment |
| catalog, cart, product administration | stock remembered when a line was added, pages left while a call runs, two admins with one SKU, a form older than its product | a line stays within its remembered stock; one order per filling of the cart; SKUs are unique; the deleted stays deleted |
| registration and login (rate limiter, captcha, user-service, error codes) | four time limits in one call chain, check-then-insert, one-time captcha tokens, window boundaries, codes that cross two hops | one account per email; a signed-in page has its account; a token goes into one call, unless it is sent before the widget is reset; codes keep their meaning; no window lets more than the limit through |

`PROJECT.json` lists every hazard at its line, with the properties that would
catch it or the reason why none does.

## Modules

| Module | Models | State and actions |
|---|---|---|
| `OrderLifecycle` | the promise: statuses of an order and its one charge, without events | `Place`, `Confirm`, `Cancel`, `Charge`, `Settle` |
| `OrderSaga` | order-service, payment-service, their outbox publishers, SNS/SQS, the consumer loop | tables as functions over `Orders`, each outbox as a sequence of rows, a `tick` per publisher for its open transaction, each queue as a set of messages that are in the queue, in the batch being handled, handled but not deleted, or in the DLQ |
| `StockReservation` | the part of `OrdersService.create` before the order, `reserveStock` and `compensate`, the delete guard, the admin's update | one record of progress per checkout on each side of the TCP call, the lines `taken` and those still to `undo`, `stock`, the products `listed` and being removed, the calls a failure has `harmed` |
| `AuthSession` | `client.ts`, `AuthContext.tsx`, the JWT guard, `AuthService` and its Redis records | token pairs numbered in order of issue; per request its phase and the refresh it waits for; per refresh its step inside auth-service |
| `Inbox` | the promise of notification-service: per customer a list that grows, each entry unread until read | `Deliver`, `MarkRead` |
| `Notifications` | notification-service: two consumers without a ledger, the customer lookup, `create`, `markRead`, several instances on the same queues | where each message is and how often it was received, what each instance holds and how far its handler is, the collection `stored` |
| `ListPage` | what the five list pages of the frontend share: filter, pager, calls under way, errors; the order of a list (`NewestFirst`), `Slice` and totals as SQL Server and MongoDB compute them | operators over a `view` and its `calls`; one record per page with what differs between them |
| `OrderPages` | `OrdersPage`, `AdminOrdersPage`, `OrderDetailPage`, `NotificationsPage` and the reads and cancellation behind them | composes `OrderLifecycle` (as `Backend`) and `Inbox` (as `Mail`) with the mounted page: its list or its detail, fetch, timer, cancel and mark calls |
| `Shop` | `CartContext`, `CartPage`, `CatalogPage`, `AdminProductsPage`, and product-service's create, list, update, remove | `product`, the creates and updates product-service has to answer (`save`), the cart `lines`, `checkout` calls, the mounted page and its form |
| `RateLimit` | `RedisRateLimitGuard` | the clock, the requests so far, the sorted set of each identifier |
| `ErrorMapping` | `normalizeToErrorBody`, the two filters, `callTcpService`, `ApiError` as functions of an exception | no state |
| `Registration` | `RegisterPage`, `LoginPage`, the captcha widget, the seed job's registration, gateway, auth-service, Google, user-service | extends `RateLimit` and `ErrorMapping`; one record per call with the state it is in at each of the three services, which go on when their caller gives up; per form its token, its call and whether the captcha is still to be `reset` |
| `MC*` | small instances of the module they extend | constants and symmetry sets |
| `*Proofs` | theorems about the module they extend; `RegistrationProofs` also extends `RateLimitProofs` | |

`OrderSaga` has one action per statement that is atomic in the code: a stored
procedure is one action because it is one transaction (`CreateOrder`,
`ConfirmAwaitingPayment`, `ChargeOrder` with its ledger, payment and outbox rows,
`ApplyPaymentResult`), each await of `OrdersService.create` separates two
actions, and a publisher tick is `ClaimBatch`, one `PublishNext` per row, and
`Commit` or `Rollback`.  `OrderSaga` begins with the order's transaction and
`StockReservation` ends with it: the two share no state, since nothing that
happens to an order after it is written goes back to product-service.
`OrderPages` in turn sees orders only through `OrderLifecycle`, which
`OrderSaga` is shown to implement, and notifications only through `Inbox`, which
`Notifications` is shown to implement: the pages are composed with the promises
of the services instead of with their queues.

Abstractions, and why they are sound for what is checked:

- A message names the outbox row it carries instead of copying it; rows are
  never changed after they are written.
- SQS gives no order, so a queue is a set.  The messages of a received batch are
  handled in any order, which includes the order of the loop.
- The visibility timeout of a message that is being handled does not expire on
  its own; a message that becomes visible again comes from `HandlerFails`,
  `DeleteFails` or `Crash`, which leave the same states behind except for two
  handlers at work on one message.  payment- and order-service handle an event
  in one transaction with its ledger row, so the second handler is the repeated
  delivery that is modelled.
- `Crash` stops a process and starts it again.  The containers have no restart
  policy, so the restart is the operator's; liveness assumes it.
- Totals are cents; only the side of the provider's limit matters, and the
  instances have a total at the limit and one above it.
- `stockQty` is a natural number (the reservation DTO requires integers of at
  least one; that of a product would take a fractional stock).
- A PAID order stays "open" in `StockReservation`, because no code takes an
  order out of PAID and the delete guard counts it.
- An access token lasts longer (15 minutes) than the retry it was renewed for
  (15 seconds): `Expire` spares a pair that is about to be used.  Otherwise it
  may expire at any time.
- `AuthSession` is one tab.  Credentials and reCAPTCHA decide only whether
  `Login` happens; `Registration` has the rest of that call.
- In `Notifications` the visibility timeout does run out under a handler
  (`Overdue`), and a receipt that is no longer the latest may delete nothing.  The
  publishers are an action that sends a message, or sends it again.  A
  `markRead` that matches nothing changes nothing and is no action.
- `NewestFirst` orders a list by creation, and no two entries are of one instant;
  the code sorts by `createdAt` alone and leaves the order of ties open.
- `ErrorMapping` leaves out the branch for an `RpcException`: no handler that is
  modelled throws one.
- In `OrderPages` no link leads from one order page to another, as in the code; a
  cancellation whose page was left is one by somebody else (`Backend!Cancel`), and
  so is one whose answer fails.
- In `Shop` an order takes its stock in one step (line by line is
  `StockReservation`).  A create or an update is a slot of `save` that
  product-service works off whether somebody awaits it or not: leaving the page,
  loading it anew or a time limit only forgets the answer (`Detached`), and the
  creates of another admin are such slots from the start.  A deletion is answered
  at once, since the page waits for it.  Quantities of lines are in halves of a
  unit, because the catalog's field takes any number from one on and an order
  takes integers (`Units`, `Reservable`).  A tab keeps to one set of pages
  (`Tours`): a run has the customer's pages or the administration, because their
  states hardly meet.
- In `RateLimit` one gateway reads the clock and sends the pipeline in one turn of
  its event loop, and Redis runs the pipelines of a connection in order: a check
  is one step.  Several gateways with different clocks would not keep the bound.
- In `Registration` a password is its length, a captcha a number; `Emails` has one
  address typed with a capital, since two spellings become one at the first
  service.  The captcha is reset by an effect after the failure is rendered
  (`ResetCaptcha`), so a form is for a moment enabled with its old token.  A time
  limit is an action of the caller; which limit is longer (15 s, 5 s, 8 s) decides
  only who is still waiting, and any order is allowed.

## Runs

| Run | Question | Bounds |
|---|---|---|
| `saga_faults` | safety of the saga, its refinement of the lifecycle, and that every order is charged and every charge delivered | one order, any two failures, two receives before the DLQ, `FairSpec`; 400 000 states |
| `saga_cancel`, `saga_awaiting` | two statements of the repository that the code does not keep | the shortest instance that shows it |
| `stock_reserve` | conservation, overselling, compensation, the order's lines, the end of every call | two checkouts over three carts (crossed products, one product twice, too many units), admin updates and removals, one failure, `FairSpec`; 330 000 states |
| `stock_delete` | the delete guard against a checkout | no failure |
| `session_safety` | the shared refresh, the tokens on both sides, and that every call ends | three requests, one login, one failure or lapse, `FairSpec`; 623 000 states |
| `session_revoke` | what a comment in `logout` says | no failure |
| `session_logout` | what another comment in `logout` says | no failure |
| `notifications` | what is told to whom, how often, and in the end; refinement of `Inbox` | one order with its two events, two instances, one message sent again, two failures, two receives before the DLQ, one `markRead`, `FairSpec`; 172 000 states |
| `order_pages` | lists, the polled order, its payment, cancelling, marking as read | two orders of which one is the user's, pages of one row, three visits, one failure, `FairSpec`; 592 000 states |
| `shop` | cart, catalog, products, the form | two SKUs, two products, two units, two saves under way, two checkouts, one change by others or one failure; 1 273 000 states |
| `registration` | accounts, captcha tokens, codes, the limiter's window | one tab, which leaves pages with a call under way, and the seed job; two calls, three tokens, a window of two ticks and a limit of one, one failure; 2 487 000 states |

Why the bounds suffice: two failures are enough for a failed handler or lost
answer followed by a crash or by the last receive before the DLQ, the longest
combination that makes a difference for one event with two receives; several orders
share nothing but tables and batches, and the proofs cover any number of them
(`EventsKept` is what speaks of rows that are inserted while a tick holds its batch).  Two overlapping reservations with one failure reach a
half-reserved cart on each side of a compensation, and the proofs remove the
bound.  Three requests let one start a refresh, one join it and one log out.
Two visits after the first are enough to leave a list with a call under way and to
come back to it with another filter; pages of one row make a second page out
of two entries, and an empty one out of a deletion.  A limit of one is the
boundary itself, and `LimitIsKept` removes the bound.  Two saves are a create
of each admin, or one that was sent again after its time limit: a change by others
or a failure, and the proofs cover both together.  A tab that goes from the form to
the other page and back has two registrations under way, as two tabs have; the
proofs have any number of tabs.  Two products are the
fewest with which two admins can meet on one SKU while another product is in
the cart.
`MaxReceive` is 2 where the queues say 5: the code treats all receives alike.
Every run has `CHECK_DEADLOCK FALSE`: the systems stop when every customer has
done what the bounds allow.

Every property of a passing run has a mutant in `PROJECT.json`: a small change
of a mapped definition, written next to it in the module (`AlreadyProcessedNever`,
`ToUndoAll`, `ShareableNever`, ...), that makes TLC find the property violated.

### Fairness

`FairSpec` assumes weak fairness of what the code schedules again by itself:
the steps of a call that is running (the reservation loop takes or refuses its
line, whatever an admin does to the stock meanwhile), the publisher's interval timer and the
consumer's poll loop (both restart after an error), the redrive of the queue,
and the calls' ends: a reply, a lost connection, or the time limit (5 s over TCP,
15 s for `fetch`), which are actions of the caller (`ReceiveReply`, `AbandonCall`,
`RefreshSucceeds`, `RefreshFails`).  In `Notifications` it assumes the poll loop,
the step of a handler that is under way, and the queue's own reappearance and
redrive; in `OrderPages` the fetch of a tick, whose calls have a time limit,
and the browser's timer, for which the page stays open (`EndIsShown` says "or
the page is left").  Neither customers nor
admins have to act and no token has to expire.  Nothing is assumed about failures except that
there are finitely many; with them dead-lettering is a possible end, and the
liveness properties say so.

### Findings

| Run | The code | What is said |
|---|---|---|
| `saga_cancel` | a paid order that is still PENDING can be cancelled | text on the order page, `OrderDetailPage.tsx` line 169 |
| `saga_awaiting` | a result that arrives before the confirmation is acknowledged and dropped, and the order awaits its payment for ever; no failure is needed | `docs/architecture.md` line 73 |
| `stock_delete` | a product is deleted although an order for it was placed after the guard's question | comment on `remove`, `products.service.ts` line 99 |
| `session_revoke` | a logout with an expired access token rotates the refresh token and revokes the old one | comment in `AuthContext.tsx` line 63 |
| `session_logout` | a refresh answered after the logout puts tokens back into the tab that was cleared; no failure is needed | comment in `AuthContext.tsx` line 67 |

Behaviours met while modelling that no run is about:

- A checkout that fails between its two statements leaves the order PENDING,
  although its event is out and it may be charged (the comment at line 112 of
  order-service's migration says one call "never leaves an order sitting in
  PENDING").
- The seed job registers without the captcha token the API requires
  (`infrastructure/seed/seed.js` line 61), is refused as malformed, and stops:
  neither accounts nor products are seeded (`docs/deployment.md` line 21 says they
  are).  `SeedRegisters` of `Registration` is that call.
- `docs/architecture.md` lines 89-93 speak of a ledger in every consumer; those
  of notification-service have none, and a repeated delivery writes a second
  notification (`DuplicatesAreFailures` says that nothing else does).
- `markRead` of an unknown notification throws NOT_FOUND, which is outside
  `ErrorCode` and arrives as SERVICE_UNAVAILABLE; a comment in
  `normalize-exception.util.ts` (line 63) means it to surface (`CodeSurvives` is
  about codes of the catalog).
- `RegisterPage` asks for eight characters (line 67), `RegisterDto` for ten.
- auth-service waits eight seconds for Google, the gateway five for auth-service.
- A captcha token can go into two calls: between a failure and the effect that
  resets the widget the button is enabled and the old token still in place.
- The answer of a checkout empties the whole cart, lines added meanwhile included.
- An order that is cancelled or not paid keeps its units of stock.

## Proofs

The theorems hold for every value of the constants: any number of orders,
checkouts, products or requests, any bounds, any number of failures.  They assume only the
named ASSUMEs of the modules (bounds are natural numbers, carts are sequences of
lines with positive quantities, and the like).

**Saga** (`OrderSagaProofs`).  `SettledByPayment` relates two databases that
share only events, so it is not inductive.  `SagaInv` adds what carries it: every
ORDER_CREATED row is the only one of its order and has its total
(`OneRowPerOrder`); every result row tells the charge of its order
(`ResultsTellCharges`); payment-service's ledger has an event exactly when its
order is charged (`LedgerTellsCharges`, which makes the second delivery a
no-op and yields `OneResultPerOrder`); and what a publisher has marked or a
consumer has handled is with the peer (`NothingDropped`, of which `NoEventLost`
is the committed part).  `SagaInvariant` proves it; `TypeCorrect`,
`SettlementCorrect`, `ResultsUnique` and `EventsKept` follow, and
`SagaImplementsLifecycle` proves under it that every step is a step of
`OrderLifecycle` or a stutter.  `AnswersNotPending` needs to know what a running
checkout has seen of its order (`CallsKnow`: past the confirmation it is not
PENDING, and no status leads back), and `ReceivesExcused` is inductive together
with `SagaInv`: a failure excuses one receive more of every message at once.
`EndsAreFinal` reads off the refinement what no event, retry or restart can do: move
an order that has come to its end, or change a charge.

**Stock** (`StockReservationProofs`).  `ReservationInv` says of each call how its
order, its handler and its lines go together: while the loop runs, the reserved
lines are exactly those before the next one; a reservation that replied has all
of them; an order exists only after such a reply.  `OrdersAreReserved`
follows, and so does `OnlyHarmedCallsLeak`: a call that ended without an order holds
units only if a failure has hit that call.  Failures name their victims (`harmed`; a
crash has all the calls that are running), so the theorem says of every other call
what it would say of a world without failures.  Stock is counted in single units, each named by its
call, its line and its number (`LineUnits`), so a sum over all calls is the size of
a set.  `LedgerInv` says of a product nobody overwrote that the units out are finitely
many and at most its initial stock, and with the shelf exactly that while it exists;
the two are needed apart, since the compensation of a removed product returns its
units to no shelf.  `ThreeKinds` sorts the steps: one takes the units of a line that
is not taken (where `ReservationInv` is needed: the line the loop is at is the first
one not taken), puts those of a taken line back, or leaves all where they are.  No
unit belongs to two lines, so `UnitsAreConserved` follows by counting, and
`NothingIsOversold` because the lines of an order are all taken.

**Session** (`AuthSessionProofs`).  `SessionInv` (one refresh in flight at most, a
request waits only for that one, a restore runs alone, kept pairs exist) is
inductive and holds under all failures.  Under it `RotationInv` follows one
refresh through its three Redis steps: what is live is the tab's own pair, then
nothing, then the pair the tab is about to get.  `SessionStaysUsable`,
`NobodySignedOut` and `RotationLeavesNoToken` follow.

**Rate limiter** (`RateLimitProofs`).  `LimitIsKept`: no identifier gets more than
`Limit` counted requests through in any window, wherever it starts.  The
strengthening (`Covered`) says that the sorted set still has every admitted
request of the window that ends now; a window that gains a request therefore
lies within the set that was counted when it was let through, and one that
ends earlier gains none.

**Notifications** (`NotificationsProofs`).  `NothingDeletedUntold` needs that what
an instance has written is stored and what it deletes it has written
(`WrittenIsTold`, `DeletedIsTold`); a stored notification stays, so no step of
another instance undoes either.  `OwnersFound` follows the two spellings of an id
through the event, the SQL lookup and the token.  `RepeatsArePaidFor` is a budget:
for every event, the notifications that exist and the receives that may still
write one without a further failure (`Owed`) are together at most one more than
the failures so far.  A write trades one of `Owed` for one notification, and each
failure (a handler that fails, a crash, a batch that outlives its visibility
timeout, a message sent again) adds at most one.  It rests on `HoldInv`: a receive
is in one hand, and an instance has one message of a queue under way.
`InboxIsKept` is the refinement of `Inbox`: the k-th entry of a customer's list is the
customer's notification of rank k in the collection (`Nth`; `RanksCount` shows that
each rank from one to their number belongs to one of them).  A notification that is
stored has the largest place, so it ends its owner's list and moves no other entry
(`NthGrows`); one that is read changes at its rank in that one list; any other step
leaves every list alone.

**Registration** (`RegistrationProofs`).  The invariant describes each call by how
far the gateway, auth-service and user-service are with it (`InStep`): a service
acts only after its caller has, succeeds only after its callee has, and success at
user-service means a matching account, whoever has stopped waiting.
`NoTimeoutSignsIn` and `ServicesAgree` read that off.  `OneCallPerToken` needs that a
token is in one form at most, and in a form and a call only while the form is busy or
still to be reset, and that a call sent in that last moment (`early`) takes the token
out of the form (`TokenInv`); `OneAccount` that stored emails are in lower case; `ErrorsKeepTheirCode`
that an error is passed on as it came while nothing has failed (`PassedOn`).
`ContainsLimiter` proves that every step of `Registration` is a step of `RateLimit`
or leaves its variables alone, so `RegistrationsAreLimited` is `LimitIsKept` again,
under everything else the system does.

**Shop** (`ShopProofs`).  `LinesFit` needs that the page only offers products with the
stock an answered list named.  `FillingsOrderedOnce` needs that, while no checkout
has failed or been left alone, the only checkout under way orders the present
filling of the cart and every finished one an earlier filling (`Present`,
`Single`): the button is busy, but the cart can still be changed and emptied.
`SkusStayApart` and `DeletedForGood` are inductive given the shapes, the first
because the unique index looks at the insert and not at the check before it, the
second because an update finds no product to write to.  `NewestFirstLists` shows
that `NewestFirst` lists every id of a finite set once, largest first.

**Order pages** (`OrderPagesProofs`).  What a page knows of its order is old, so
the invariant says which old facts stay true: an order does not vanish, its end and
its charge are final (`Onward`, proved of every step of `OrderLifecycle`), and the
inbox only grows and unreads nothing (`Read`, proved of `Inbox`).  Over these,
`FetchInv` and `DetailInv` follow one tick: what is fetched or shown as an end is the
end, a payment shown is the charge, and a fetch or the timer exists while a moving
order is shown.  `PollingIsKept`, `OwnersSeeTheirOrders` and `OrderAndPaymentAgree`
follow.  A list page has at most one call under way, which asks for what the view
names, and waits exactly then (`ListInv`); that yields `ListsShowTheirKey`.
`MarksAreTrue` needs that an answer on its way says "read" only of what is read
(`ReadInv`), since the page forgets its own clicks when it shows one.
`PagesKeepPromises` proves that the composition stays inside the two promises it is
built on, of which the page's own cancellation is the step that needs the invariant
(it names an order that exists).  `PagesPartitionAList` is about `Slice` and
`PageCount` together: the two round in different places, one at the server and one in
the pager, and no entry falls between two pages, on two, or behind the last.

Every safety property, action property and refinement that a passing run checks is a
theorem.  Model-checked only: the five liveness properties (`EveryOrderGoesThrough`,
`EveryCheckoutEnds`, `EveryCallEnds`, `EveryEventTold`, `EndIsShown`), since the prover
does not handle fairness; and the violations, which are counterexamples.

## Not modelled

- Start-up and wiring, health and about endpoints, configuration, logging,
  layout, toasts, the profile read-out, build and deployment except the queue
  set-up: no state a property speaks of.
- The role check of one request, which depends on nothing but its token; the
  payment that `GET /orders/:id` adds to its answer, which no page shows.
- What the seed job does after its first registration: it does not get there.
- Two tabs that share one localStorage (each keeps its own copy in memory, and a
  rotation in one is not seen by the other), several instances of a publisher,
  a row whose publication fails for good, connection pools, several gateways
  in front of one Redis.  These are gaps and not claims.

## Further work

1. `OutboxPublisher`: several instances of one publisher over one table (SKIP
   LOCKED, READPAST), and the row that can never be published; each row is
   sent at least once and in the end marked.
2. A second tab in `AuthSession`, with localStorage as shared state.
