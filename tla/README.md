# Baia: specification and verification

Baia is a swimwear shop: a NestJS server over Postgres (`src/apps/server`), a
Next.js storefront (`src/apps/client`) and a shared package. The server runs as
one or several processes; every request is an async handler whose database
statements interleave with those of every other request, at READ COMMITTED. What
protects an order, its stock and its money is therefore the shape of the
statements themselves: conditional updates, short transactions, row locks. The
storefront and the admin have a concurrency of their own: requests whose answers
come late, or in another order, or not at all, and effects that run some time after
the change they belong to. These two are what this project models.

## Inventory

Paths are under `src/apps/server/src`, of the last four rows under `src/apps/client/src`.

| Component | State | Operations | What is hard, and what makes it correct |
|---|---|---|---|
| order status rules (`orders/order-status.ts`) | `Order.status`, four dates | `canTransition`, `stampsFor` | the dates must tell the status after any admin back and forth |
| order lifecycle (`orders/orders.service.ts`) | order row, `OrderStatusEvent` | `changeStatus`, `markRefunded`, the sweeper | status writes decided on an earlier read; stock goes back once; history is a chain |
| payment (`payment/payment.service.ts`) | `paymentClaimedAt`, `PaymentAttempt` | `charge`, `applyWebhookEvent`, `confirmPaid` | one charge in flight; charged money is the order's payment or is refunded; lost replies, duplicate and late webhooks |
| refunds (`orders/refunds.service.ts`) | `Refund` | `createPending`, `refundLateCharge`, `tryAutoRefund`, `complete`, `markFailed` | settled once; REFUNDED is never a bare status |
| cancellations (`cancellations/`) | `CancellationRequest` | self-cancel, request, resolve, admin cancel | the refund belongs to the cancellation; one request open at a time |
| checkout (`createOrder`) | cart lines, stock, coupon uses, order | one transaction after several reads | one order per cart, no oversell, limited coupons |
| cart (`cart/`) | `Cart`, `CartItem`, of a guest and of a user | add, change, remove, clear, merge a guest cart | concurrent tabs; `Cart.userId` is not unique; merging twice, or while ordering |
| coupons (`coupons/`) | `currentUses`, `maxUses` | validate, edit, delete | checked outside the order's transaction |
| products (`products/`) | variants, stock, category | edit, delete, stock edits | edits against a stale form; lock order |
| stock alerts (`inventory/`) | two dedupe markers | `notifyAfterStockChange` | one alert per crossing, decided without a lock |
| admin grants (`admin-users/`, `auth/verified-email-grants.ts`) | role, invitation | invite, revoke, remove, verify, owner, CLI | the last admin stays; an invitation promotes once |
| product images (`products/product-images.service.ts`, `uploads/`) | rows, and files in storage | upload, delete, delete of the product or of the upload | no transaction spans rows and files; no row without its file |
| categories (`categories/`) | the tree | create, move, delete; products placed and moved | checked with reads, written later; two levels, products in leaves |
| addresses (`addresses/`) | rows, one the default | create, update, set default, remove | several statements at READ COMMITTED; one default, a maximum |
| rate limiting (`common/rate-limit.guard.ts`) | buckets of one process | `canActivate`, the sweep | windows that end, buckets of other keys |
| newsletter, contact, customers, pickup points, size guides, site configuration | rows | CRUD | single-row writes |
| order email, order access, authentication, analytics, configuration, health | - | - | output, reports, pure checks, an external library |
| wishlist (`store/wishlist.ts`, with `wishlist/` of the server) | local list, account's list, what is shown | add, remove, merge at sign-in, refresh | answers late or lost, sign-out in between; nothing saved is lost |
| admin lists (`hooks/admin/`) | query, list, requests | type, filter, page, reload | answers in any order; the rows shown are those asked for |
| coupon field (`hooks/storefront/useCoupon.ts`) | field, effect, validations | apply, edit, remove, order | the cart moves under a validation; the discount is that of the cart |
| totals (`hooks/storefront/useCheckout.ts`, `lib/catalog/pricing.ts`, against `orders/`) | the total shown, the total charged | show, place | computed twice, in floats and in decimals; they agree but for a sum of lines the floats leave just short of a threshold |

Handlers call each other directly (`CancellationsService` -> `OrdersService` ->
`RefundsService`), the payment provider is called between two transactions,
the provider calls back by webhook, and the sweeper runs on a timer.

## Modules

| Module | Models | State and actions |
|---|---|---|
| `OrderStatus` | `orders/order-status.ts` | operators only: statuses, `CanTransition`, the stamps a status change sets and clears |
| `OrderPayments` | one order and every handler that can touch it | the order row, its history, attempts and refunds; the provider's charges; a clock; per request `kind`, `pc` and `local`. One action per stretch between two awaits: `ChargeRead`, `ChargeClaim`, `CreateAttempt`, `ProviderCharge`, `Confirm`, `ChargeDeclined`, `LateRefund` (charge); `WebhookPaid`, `WebhookFailed`, `WebhookUnclaim`; `StatusRead`, `ChangeRead`, `StatusWrite` (changeStatus); `CancelRead` (cancelAndRefund); `AutoRefundRead`, `ProviderRefund`, `Settle`, `FindRefund`, `CompleteRequest`, `FailRefund`; `SweepRead`, `SweepRelease`, `SweepFails`; `Abort` (a process or statement dies); `Tick` |
| `OrderLife` | what an order promises to a reader of its rows | `Pay`, `MoveTo`, `Cancel` (with its refund), `ReturnLate`, `Settle`, each one step; `OrderPayments` refines it (`ImplementsLife`) |
| `OrderLifeProofs` | | theorems about `OrderLife` |
| `OrderPaymentsProofs` | | theorems about `OrderPayments`, with those it inherits from `OrderLife` |
| `StockLedger` | what stock is promised to be | `Reserve`, `Return`, `Correct`: an order takes its units at once and returns exactly those |
| `Checkout` | several carts, variants and buyers, one coupon | `CartRead`, `CouponRead`, `Place` (the transaction of `createOrder`), `GiveUp`, `Release`, `PutLine`, `RemoveLines`, `EditStock`, `SetStock`, `ToggleTracking`, `EditLimit`; refines `StockLedger` (`ImplementsLedger`) |
| `CheckoutProofs` | | theorems about `Checkout` |
| `Cancellations` | the requests around one order's cancellation | the order's status, the request and the refund of each call; `SelfRead`, `RecordSelf` (selfCancel), `RequestRead`, `File` (createRequest), `Reject`, `Approve`, `Reopen`, `FinishApproval` (resolve), `AdminCancel`, `CloseRequests`, `StatusCancel`, and `OrderRead`, `ChangeStatus` (cancelAndRefund), which all of them go through; `Move` is the order's other life, `Abort` a call that dies |
| `CancellationsProofs` | | theorems about `Cancellations` |
| `StockTransactions` | the transactions that move stock, statement by statement under row locks (`createOrder`, `changeStatus`, the sweeper, `releaseOrderResources`, the product editor, `withTxRetry`) | committed stock and orders; per call its `pc`, the `plan` of rows it writes, the `change` it makes, its `next` statement. `BeginCheckout`, `BeginRelease`, `BeginEdit`, `Write`, `Refuse`, `Commit`, `Victim` (a deadlock is broken, the victim runs again or fails), `Abort`; refines `StockLedger` |
| `StockTransactionsProofs` | | theorems about `StockTransactions` |
| `Carts` | the carts of one customer, as guest and as user | carts and lines (with a generation, for a line's id), and per request its step and what it read: `FindForAdd`, `CreateCart`, `InsertLine`, `WriteLine`, `FindOwnItem`, `RemoveLine`, `FindForClear`, `ClearLines`, `ReadGuestCart`, `ReadUserCart`, `CommitMerge`, `DeleteEmpty`, `ReadForOrder`, `ClaimLines` |
| `StockAlerts` | the alerts of one variant | stock, two markers, per call its step: `ReadRow`, `ClearMarks`, `ClaimSoldOut`, `ClearSoldOut`, `ClaimLow`, `MailSoldOut`, `MailLow`, `AlertFails`; `ChangeStock` starts one |
| `AdminGrants` | who is an admin | roles, verification, invitations, and per call whom it is about: `Register`, `VerifyEmail`, `GrantOwner`, `AcceptInvitation`, `PromoteNow`, `Invite`, `RevokeInvitation`, `CountAdmins`, `CommitRemove`, `CreateAdmin`, `UpdateRole` and the reads before them |
| `ProductImages` | rows and files of one product's pictures | `FindProduct`, `PutFile`, `SaveImage`, `DeleteImageRow`, the deletes of an upload and of the product, and the removal of files after each; every step may fail or be the last |
| `Categories` | the tree and the products in it | per request what it was checked against: create, update and delete of a category, create and move of a product |
| `AddressBook` | the addresses of one user | each statement of `create`, `update`, `setDefault` and `remove`, what it saw and the rows it holds until its commit |
| `AdminList` | `useListQuery` and `useAdminList` | `Type`, the debounce, filter, page, reload; the effect, with its clean-up, as an action of its own; answers in any order |
| `CouponField` | `couponReducer`, `useCoupon`, `submit` | `ChangeCart`, `Edit`, `Remove`, `Apply`, `RunCouponEffect`, `Valid`, `Invalid`, `Submit`, `OrderCreated`, `OrderRefused` |
| `Wishlist` | the client's store and the server's rows | sign-in and sign-out, add and remove in both modes, sync, refresh, the halves of each before and after the answer, lost answers, products hidden by the shop |
| `RateLimit` | the guard in one process | `Request` (with the sweep it may do) and the clock |
| `Totals` | the two computations of the total | the offer (the lines with their sales, delivery, coupon), what the page shows: `ShowPlain`, `ShowDiscounted`, `ShowRefused`; `PlaceOrder`, `RefuseCoupon` (the order's validate refuses), and the time between |
| `AdminProofs`, `ShopperProofs` | | theorems about `StockAlerts`, `AdminGrants`, `ProductImages`, `Categories`, `RateLimit`; about `Wishlist`, `Totals`, `AdminList`, `AddressBook`, `CouponField`, `Carts` |
| `MCStorefront` | | the eleven parts around the orders, side by side (see below) |
| `StorefrontProofs` | | that what is proved of the parts holds side by side |
| `MCOrderPayments`, `MCCheckout`, `MCCancellations`, `MCStockTransactions` | | the small instances TLC checks: sets of kinds and targets, symmetry |

Operators with "Variant for the checks" above them are mutations of the
definition they precede: what the code would be with a plausible bug. Every
property below is violated by at least one of them.

### How a handler becomes actions

An action is what runs between two awaits. A database transaction that only
writes conditionally and holds its row locks to the end is one action, since
every condition it tested still holds when it commits. (`StockTransactions` is where this
is not assumed: its actions are single statements, and that the whole transaction
implements one atomic step of `StockLedger` is checked and proved.) A read followed by a later
write is two actions, whatever the code assumes in between: that is where the
races are. `refunds`, `attempts` and the provider's charges are keyed by the
request that makes them, because no request makes two of a kind. Dates are
abstracted to being set or not, except the two that are compared
(`paymentClaimedAt`, `createdAt`), which the model's clock gives.

Where a property needs to know what happened, the module keeps it in a variable of
its own that no guard of the code's reads: what was asked for (`asked` in `Carts`, `wanted`
in `AdminGrants`, `owed` in `Wishlist`), or which requests overlapped (`late` and `torn` in
`AddressBook`, `stale` and `scars` in `Categories`, `alone` in `StockAlerts`).

In the client, a React effect is an action apart from the change that schedules it, since
answers may arrive in between; its clean-up belongs to the next run of the effect. A request
is numbered by the order it was sent in, and is answered at any time after that.

## Runs

| Run | Question | Result |
|---|---|---|
| `order_lifecycle` | three calls of any handler, the sweeper and the clock | all eight properties hold, with the refinement of `OrderLife`; 1.08 million states |
| `single_flight` | may two charges be in flight? | not while calls are faster than the claim's TTL and no failed-payment webhook arrives; 0.83 million states |
| `abandoned_order` | does an unpaid order end? | yes, under the sweeper's fairness |
| `checkout` | two buyers, two carts, one variant, one coupon | all six properties hold, with the refinement; 0.69 million states |
| `cancellations` | three calls on one order: customers and admins cancelling, approving, rejecting | all four properties hold; 0.41 million states |
| `stock_transactions` | two checkouts, two releases and a product edit on two variants, statement by statement | all four properties hold, with the refinement; 0.50 million states |
| `calls_end` | do deadlocked calls end? | yes, two checkouts and an edit, under the database's fairness |
| `storefront` | the eleven components around the orders, each with its overlapping requests, failures and late answers | all fifteen properties hold; 1.19 million states |
| `unrefunded_cancel` | "the order can never be cancelled without its refund record" | violated: a payment confirmed between the two reads of a cancellation |
| `returned_payment` | "duplicate or reordered deliveries are harmless" | violated: charge() returns the payment that a webhook confirmed first |
| `cleared_claim` | "at most one in-flight charge per order" | violated: a delayed failure report frees another charge's claim |
| `shipped_self_cancel` | "makes a concurrent ship ... fail" | violated: the order ships between the check and `changeStatus`'s own read |

The components of `storefront` share no row and no variable, so exploring them together
would only multiply their states. `MCStorefront` picks one (`part`) in the initial state; that
one runs, from each of its own first states, and the others rest in one of theirs. A
property of one component so sees every behaviour of that component, and the states add up.
What does connect them to the orders is in both: `Carts` has the claim of `createOrder`,
`Checkout` the carts as it reads and claims them.

What the properties say:

* `ReleasedOnce`, `HistoryIsChain`, `StampsMatchStatus`: the order row tells one
  story although every handler decides on an earlier read.
* `RefundsMatchCancellation`, `ChargedMoneyAccounted`, `RefundedIsSettled`: money and status
  agree, across cancellations, late charges, webhooks, settlements and requests that die.
* `ImplementsLife`: what a reader of the order's rows sees is one payment that is never
  replaced, a life along the allowed transitions, one cancellation with its refund in the
  same step, late charges returned whole, and refunds settled once and never reopened.
* `SingleFlight`, `AbandonedOrderReleased`: the claim excludes, and does not
  exclude for ever.
* `OrderedOnce`, `PlacedAsShown`: a cart line is ordered once, as it was in the
  cart when it was claimed.
* `LimitKept`, `UsesAreOrders`: a limited coupon, with an admin editing the limit
  between its check and its use. The limit a checkout enforces is the one
  `validate()` saw, so what holds is "no more uses than the most generous limit",
  not "no more than the present one".
* `OneApproval`, `ApprovedIsCancelled`: an approved request is one of a cancelled
  order, or its approval is under way; two admins never approve one request at once,
  though a failed approval opens it again. A process that dies in between leaves an
  approved request on a live order: the property names that case (`Died`).
* `RefundAsRecorded`: racing cancellations refund once, and the requests that name a
  refund name that one, with the fee that was withheld from it.
* `ImplementsLedger`: stock moves as `StockLedger` says, in `Checkout` with whole
  transactions and in `StockTransactions` with single statements. The ledger's `Correct` allows any edit of
  stock, so an order restocked twice would pass for one: that is `StockMovesWithOrders`' to refuse.
* `OnlyEditsDeadlock`: checkouts and releases lock what they share in one order, so no
  set of them deadlocks. The product editor locks variants in the order of its form and can
  deadlock with either; `EveryCallEnds` says that all the same every call ends.
* `StockMovesWithOrders`: committed stock changes only with an order's phase or by an
  edit, whatever raced, waited or was run again.
* `LinesWereAsked`: a cart, with what was ordered from it, never holds more than its owner asked
  for, through double submits, merges and retries. The exception is exactly what is ordered
  between the reads of a merge and its commit (`resold`): the merge then adds it to the
  user's cart although it was ordered.
* `MailedOncePerMarker`, `SettledMarkers`: alerts are decided on a stock read without a lock, so a
  crossing can be missed or told twice while calls overlap. What holds is that a
  mail goes with one taking of its marker, and that one change whose call runs alone puts
  the markers right, whatever was left behind.
* `AdminRemains`, `InvitationsSpentOnce`: removals that count the same admins cannot remove
  the last; nobody becomes an admin oftener than was asked.
* `ImagesHaveFiles`, `LeftoversExplained`: a product points at no missing file, but for an
  upload deleted under it; and a file left over is one whose removal failed, or which
  was saved while its product was deleted.
* `HierarchyKept`: two levels, and products in leaves, except at categories where two requests
  overlapped.
* `OneDefault`: one default and no more than the maximum, but for requests that overlapped;
  the next request on its own that sets a default restores it.
* `ListIsHonest`: an admin's list says "loading" just while the last request is out, and then shows
  the answer to that one.
* `DiscountFitsCart`: once nothing is out, the discount is one validated for the cart shown.
* `WishesKept`: what was saved is in the browser or in the account, except for what
  was saved while a sync or a refresh was out, or its removal.
* `RateKept`: no span as long as a window admits more than two windows' limits, and nobody is
  refused before the limit was admitted to its own key; whenever the sweep runs.
* `ShownNearCharged`: while no line's sale begins or ends in between, the order takes the coupon as the
  page did, and the total charged is the total shown but for one agora. It excepts exactly the carts that
  make the threshold of free delivery, or the coupon's minimum, to the agora, while the page's floating
  point sum of the lines falls just short of it; and even there it errs to one side: the page shows a
  delivery fee the order does not charge, or refuses a coupon the order would take. (The cart as such is
  the same on both sides; one edited in another tab is `PlacedAsShown`'s.)

Some of these say less than a comment of the code does; the exceptions are the
disagreement. `addresses.service.ts:25` says "Keeps at most one default per user": two
requests that overlap leave two, or none. Two overlapping moves of categories close a cycle,
although each was refused one on its own. The alerts' "each crossing emails once" is one mail per
marker, not per crossing. An invitation outlives the removal of the admin it was sent to, and
promotes the account again when it verifies. If only the reply to
an upload's commit were lost, its handler would remove the file of a picture that was saved: `ImagesHaveFiles`
assumes that a transaction reported as failed did not commit. The
client's `DEFAULT_SHIPPING` (`store/cart.ts:90`), used until the site configuration has
loaded, has another threshold for free delivery than the server's `DEFAULT_DELIVERY`
(`delivery.ts:23`), which its comment says it equals; `Totals` takes the configuration as loaded.
The totals can differ by a delivery fee: to the page (`store/cart.ts:76`) 149.10 + 150.70 + 150.20 is 449.99999999999994,
so at a threshold of 450 it shows 29.90 of delivery (`store/cart.ts:100`), while the order's decimal sum is 450 and ships
free, although `store/cart.ts:81` says "both methods are free from `freeThreshold`". In the same way `coupons.validate`, which
gets the page's sum as `cartTotal`, may refuse a coupon at `minCartValue`. TLC reaches both (lines of 10.10 and 5.00
with the threshold, or the minimum, at 15.10); they are the exceptions of `ShownNearCharged`. And a
checkout's newsletter box (`recordMarketingConsent`) leaves the account's own consent as it is,
while `subscribe` says that it keeps the two together.

### Bounds

Three requests are enough for every two-handler race with a third call that
interferes, and one request runs every handler through all its steps. The
four-request violation of `cleared_claim` needs its fourth request: it is a
race of three charges and a webhook. Four requests with two time units were also explored
once (6.8 million states, `ClaimTTL` 0) without another result. The clock is
bounded by `MaxTime` (and `LastArrival`, `MaxCallTime`), with TTLs small enough
that claims and orders expire within it. `Checkout` is bounded by `MaxLines` cart
lines ever created, `MaxQuantity` and `MaxStock` units and `Limits` of the coupon; two
units, two lines and limits 0 (none) and 1 make every buyer compete for the last unit
and the last use. Two variants with one unit each were also explored once
(0.84 million states). `Cancellations` has three calls, a total of 2 and
fees of 0, 1 and 3 (none, some, too much): a request needs one call to be filed, and two
more race over it. `StockTransactions` has two variants (the least that can be locked in
two orders) with at most one unit each, so that the two checkouts compete for both, two releases
that race for one order, and one edit, whose lines come in any order; `calls_end`
leaves the releases out, which the edit meets as it meets checkouts, and lets the edit only
remove units. Requests, calls, buyers and carts are symmetric; symmetry is not used
where a run checks liveness.

In `storefront`, three requests of a kind are two that race and one that comes in
between or after; the wishlist has two, since a shopper's further actions are not requests.
`Carts` has one variant (lines do not meet) and three carts: a guest's, a user's and the second one two first
requests may make. Two adds and a merge exceed `MaxLine` 3 when each cart starts with a unit.
`StockAlerts` goes through both thresholds with stock 0 to 2. `Categories` has three
categories, enough for a third level and a cycle, and one product; `AddressBook` four rows with a maximum of
two. The rate limiter's clock runs over almost two windows of four, with a sweep every
two. `Totals` has carts of one or two lines, each with its own sale; a further line would add nothing but a longer
sum. Their sums reach thresholds and minimums exactly, once as floats that are exact (10.00, 25.00) and
once as floats that need not be (15.10); a percentage rounds at half an agora, an amount exceeds the
price. Which sums fall short is left open: a sum of quarter shekels, or one price times a power of two,
is exact, any other may fall short or not. Two instants are enough for a sale to begin or end
between the page and the order. No symmetry is used there.

Deadlock checking is off in these runs: a shop whose bounded requests are done rests.

### Fairness

The liveness runs need it; `storefront` and the other safety runs assume none. For `AbandonedOrderReleased`, `FairSpec` of `OrderPayments` assumes that the clock runs, that the
sweeper's interval keeps firing (`setInterval`, `pending-order-sweeper.ts`), and that
a sweep does not fail every time it is tried (strong fairness of
`SweepRelease`: `sweep()` catches its error and the next interval tries again). Nothing is
assumed of requests: a charge may stop anywhere.

For `EveryCallEnds`, `FairSpec` of `StockTransactions` assumes that Postgres runs a statement that
is not blocked, and that a call which stays on a cycle of waits is in the end chosen as a victim
(`deadlock_timeout`) if nobody else on the cycle is. Nobody has to call, and timeouts and crashes
(`Abort`) are possible but not counted on.

## Proofs

TLAPS checks, for any sets of requests, calls, buyers, carts and variants and any bounds:

| Theorem | States |
|---|---|
| `TypeCorrect`, `CheckoutTypeCorrect` | the type invariants; no negative stock, refund or provider amount |
| `StampsCorrect` | `StampsMatchStatus` |
| `ReleaseCorrect` | `ReleasedOnce` |
| `HistoryCorrect` | `HistoryIsChain` |
| `SingleFlightCorrect` | `SingleFlight`, if `MaxCallTime <= ClaimTTL` and no "failed" traffic |
| `OrderedOnceCorrect`, `PlacedCorrect` | `OrderedOnce`, `PlacedAsShown` |
| `LimitCorrect`, `UsesCorrect` | `LimitKept`, `UsesAreOrders` |
| `CancellationsTypeCorrect` | no negative refund in `Cancellations` |
| `OneApprovalCorrect`, `ApprovedCorrect`, `RefundCorrect` | `OneApproval`, `ApprovedIsCancelled`, `RefundAsRecorded` |
| `LedgerCorrect` | `Checkout` implements `StockLedger` |
| `TransactionsTypeCorrect`, `StockMovesCorrect` | no negative stock; `StockMovesWithOrders` |
| `DeadlockCorrect` | `OnlyEditsDeadlock` |
| `TransactionsImplementLedger` | `StockTransactions` implements `StockLedger` |
| `RefundsMatchCorrect`, `ChargedMoneyCorrect`, `RefundedCorrect` | `RefundsMatchCancellation`, `ChargedMoneyAccounted`, `RefundedIsSettled` |
| `IrrevocableCorrect` | the first payment is never replaced, a completed refund never reopened |
| `LifeCorrect` | `OrderPayments` implements `OrderLife` |
| `AccountsCorrect`, `CancelledOnceCorrect` | in `OrderLife`: refunds and settlements agree with the status; one cancellation refund |
| `OneRefundCorrect` | the same of the handlers: at most one cancellation refund, none beyond the total |
| `ReturnedPaymentCorrect`, `ReturnedOnceCorrect` | without payment webhooks: a live order's payment is not returned; no charge is returned beyond the total |
| `AdminCancelRefundsCorrect` | without `cancelAndRefund()`: `PaidCancelHasRefund` |
| `CartsTypeCorrect`, `LinesWereAskedCorrect` | no line outgrows the maximum; `LinesWereAsked` |
| `MailedOnceCorrect`, `SettledCorrect` | `MailedOncePerMarker`, `SettledMarkers` |
| `AdminRemainsCorrect`, `InvitationsCorrect` | `AdminRemains`, `InvitationsSpentOnce` |
| `ImagesHaveFilesCorrect`, `LeftoversCorrect` | `ImagesHaveFiles`, `LeftoversExplained` |
| `HierarchyCorrect` | `HierarchyKept` |
| `WishesKeptCorrect` | `WishesKept` |
| `ShownNearChargedCorrect` | `ShownNearCharged`, for all prices, sales, coupons and thresholds, of carts of one or two lines |
| `ListIsHonestCorrect`, `DiscountFitsCorrect` | `ListIsHonest`, `DiscountFitsCart` |
| `OneDefaultCorrect` | `OneDefault` |
| `RateKeptCorrect` | `RateKept`, for any keys, limit, window and sweep interval |
| `PartsRun`, `StorefrontCorrect`, `StorefrontTypeCorrect` | each part runs by its own specification in `MCStorefront`; all properties of run `storefront`, `StorefrontTypeOK` among them |

The order's invariants are proved together. What changes the status is a handful of
actions, and `StatusSteps` shows that each is one of three kinds of step: a payment of a
pending order, an allowed transition from the status the handler saw and the row still
has, or a settlement. For the stamps that is not enough: `changeStatus` computes them
from a row it read earlier, so the invariant adds that whenever a handler is about to
write, the stamps it remembers are those of the status it remembers, cancelled orders
aside.

`SingleFlight` rests on time: `FlightInv` says that a live charge holds the claim, set
at its own start time, and that no live charge is older than `MaxCallTime`. A
takeover needs a claim older than the TTL, so the charge that set it is over.

`OrderedOnce` rests on ids: `OrdersInv` adds that ids are handed out once
(`LineIds`), that orders hold only ids handed out (`OrderIds`), and that a checkout
under way has no order yet (`Underway`). `LimitKept` adds that the limit a checkout
remembers is one the coupon had. `UsesAreOrders` also shows that the floor at zero in
`releaseOrderResources` never applies. The refinement maps `Place` to `Reserve`,
`Release` to `Return` and stock edits to `Correct`; all else stutters.

The cancellation properties are conjuncts of one inductive invariant. What they need
beside themselves: a call that has claimed a request is the only one and finds the row as
it left it (`Held`, because every other write asks for an open request); a request is the
last thing its call does, so no call overwrites a claimed row (`Rows`); a call past
`changeStatus`, or with a refund, is about a cancelled order (`Ended`), which no step
revives; and the fee and the refund a call remembers make up the total (`Money`).

For `StockTransactions`, `Inv` says what row locks are for: no row is held twice
(`Exclusive`), and what the statements of a call found on the rows it holds is still so
(`Guarded`). A commit holds every row it changes, so it leaves the rows of the others alone,
and stock cannot fall below zero. `Planned` says that checkouts and releases lock rows of
rising rank (orders, then variants by id, then the coupon); along a chain of waits the rank
of the row waited for rises (`WaitsRise`), and ranks are bounded, so no such chain closes.
In the refinement only commits show, as `Reserve`, `Return` or `Correct`.

The money properties of `OrderPayments` come from `MoneyInv`. A refund is recorded by the step
that needs it (a cancellation, or the late charge), so what has to be carried is what each handler
knows in between: a charge in flight is accounted for by its attempt; a handler that is to
complete a refund holds the one it read; and only a completed refund settles an order. With that,
each status step of `StatusSteps` either leaves payment and refund alone or moves both.

`LifeCorrect` maps the rows to `OrderLife`: the payment is `paymentRef`, the refunds are the
rows without their status, the settled ones those that are completed. A confirmation is `Pay`, a status
write `MoveTo` or `Cancel`, a sweep `Cancel`, `LateRefund` is `ReturnLate` and `Settle` itself; reads,
claims, attempts, provider calls and conflicts stutter. `MoneyInv` is not enough for it: `FitInv` adds
that the amount a request is going to record is between nothing and the total (`Asks`), that a
charge is late only when the order is no longer awaiting payment (`Latecomer`), and that a refund
that is not recorded looks like none (`RefundFits`). What follows in `OrderLife` alone, from `LifeInv`, then
holds of the handlers: `OneRefundCorrect`.

Three theorems say how far the violations of `returned_payment` and `unrefunded_cancel` reach.
Without payment webhooks a charge confirms only itself, so (`BackInv`) money that goes back is of a
cancelled order, or of a charge that neither paid nor will pay. `ReturnedOf` adds who may
ask the provider: the late charge itself, or the one request that cancelled the order, and either
finds nothing returned. With one webhook in the traffic both fail: the charge is returned as
late, and once more when the order it paid is cancelled. And without `cancelAndRefund()` whoever
cancels a paid order asks for the whole total (`AsksWhole`), so its refund is recorded: the
read that breaks this is the one before `changeStatus`'s own. What an admin returns by hand in the
provider's dashboard is outside all of these.

Around the orders, each invariant says what a request relies on while it waits:

* `CartsInv` bounds what a request remembers by what was asked for (`Slack`), and says that a line
  it knows by id is the one it read, or is gone.
* `MailInv` counts the mails still owed by calls that took a marker, which is taken by compare and set;
  `AloneInv` says that a call that runs alone acts on the stock there is (`Knows`).
* A removal of an admin that may still commit has counted another admin who stays
  until it does; an unspent invitation is one that was asked for.
* A picture row is written only after its file, and each file has a call that will
  remove it, a row, or an excuse.
* `TreeInv`: a request that no other overlapped at its categories finds at its write what it
  checked; those that were overlapped are scars.
* `BookInv`: a call that nobody committed beside still sees the rows it saw (`CallHolds`), and
  the rows two calls hold are different (`RowsHeld`).
* The wishlist's lists: what a request was sent with covers what is owed, unless it was saved
  after that.
* `ListInv`: all requests but the last are cancelled, and where the effect has run for what is asked for,
  the last request is for that, and its answer, once there, is what is shown. `CouponInv`: where the effect has run
  for the coupon applied and the cart had moved, a validation is out that will be heard.
* `RateInv`: the windows of a key do not overlap, and none admits more than the limit; a span as
  long as a window meets two of them at most. A bucket is swept only when its window is over, so
  a sweep never makes room.
* `TotalsInv`: the total shown was computed from one floating point sum of the lines then on sale
  (`ShownFrom`), short or not, and the same sum decided delivery and coupon. If the sales stand, the
  order's sum is that one as a decimal, so delivery and coupon differ only where it equals the bound and was
  short; where they do not, rounding the discount and rounding what is left of the sum differ
  by one agora at most (`RoundingsAgree`).

Assumptions on constants are named in the modules that declare them (times are naturals,
fees are at most the total, buyers are finitely many) and TLC evaluates them in the runs.

Only model-checked: liveness (`AbandonedOrderReleased`, `EveryCallEnds`), which is out of the
prover's reach, as is ENABLED. Every other property of a passing run is a theorem.

## What is left out

* Prices, delivery, tokens, order numbers, emails, CSV and pagination: they change no
  state the properties speak of. A refusal for one of them is a request that ends.
* The provider itself: `outcome` and `returned` are what `charge` and `refund` of
  `payment.interface.ts` may do, including a reply lost after the money moved.
* In `Totals`, carts of more than two lines (adding up a list needs an induction no installed prover does);
  the clocks of browser and server are one; the fees are the default ones.
* Two requests filed at once both see no open request, and both are filed; approving
  one leaves the other open on a cancelled order. `Cancellations` has these runs and
  claims nothing of them.
* In `StockTransactions`: the claim of cart lines and the coupon's limit (they are in
  `Checkout`), the rows a transaction inserts, and the key-share locks of foreign keys, which
  do not conflict with updates of stock. One product is enough for its locks; a single-variant
  edit (`updateVariant`) holds one row and is the edit of that variant. The further attempt
  of `createOrder` after a collision of order numbers is another call with the same plan.
* In the parts around the orders: what a request checks besides what is modelled may refuse it at any step.
  Of categories, the images, texts and sort order; of products, texts and the editor of
  variants; of pictures, their order and texts, those of categories and of a product that is being created; of
  addresses, the text; of admin lists, the edits of rows in place.
* The newsletter: two single-row writes one after the other, which no other part reads.
  Order email: output that no handler waits for. Order access: pure functions of a token and a row.
  Authentication: sessions are an external library's. Pickup points, size guides, site configuration,
  contact: single-row writes of editors. Customers and analytics: reports. Configuration, health and
  observability: start-up and reporting.
* Most of the repository's lines are none of these: pages, forms and their layout, email templates,
  texts in two languages, schemas, scripts and seeds. They keep no state that two
  requests share, and a model of them would only spell them out.

## Plan

What a next step would add: the editor of variants and the edits of admin lists in place; the
newsletter's two rows, once something reads both; a refinement of `Carts` and `Checkout` to one
specification of what a shopper asked for and got; and of `Cancellations` to `OrderLife`, whose
cancellation and refund are one step there too.
