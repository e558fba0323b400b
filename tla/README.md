# A formal model of the restaurant point of sale

The program is a Go web server (`src/cmd`, `src/internal`) over one PostgreSQL
database whose schema is in `src/docs/*.up.sql`. It keeps no state between
requests but the pool of connections: everything that can go wrong between two
requests goes wrong in the database, between the statements of two
transactions. The models therefore are models of transactions: one action is
one statement, and the row locks and the visibility rules of PostgreSQL's READ
COMMITTED level, in which `db.WithTx` (`internal/db/db.go:40`) runs every
handler, decide what interleaves with what.

## 1. The system

| Component | Code | State | Operations |
|---|---|---|---|
| Orders | `handlers/orders.go` | `orders` (one row per visit: status, table, staff, totals), `invoices`, `order_payments`, `restaurant_invoice_counters` | CreateOrder, CloseOrder, SetOrderStaff; pages |
| Lines, discounts, totals | `handlers/orders.go` | `order_items`, `order_item_price_adjustments` (audit of lines), `order_discount_adjustments` (audit of orders), the four amounts of `orders` | AddOrderItem, UpdateItemQty, OverrideItemPrice, SetOrderDiscount, RecalculateOrderTotals |
| Price arithmetic | `handlers/orders.go` | none | parseDiscount, calculateDiscount, the SQL formula, tax and service charge |
| Transactions | `db/db.go` | the transaction of a request, the pool of connections | WithTx: begin, run, commit or roll back |
| Tables | `handlers/tables.go` | `tables` (status), the cookie of the active restaurant | AddTable, UpdateTableStatus, GetLimit, SwitchRestaurant |
| Staff roster | `handlers/staff.go` | `restaurant_staff` (active or not) | AddRestaurantStaff, UpdateRestaurantStaffStatus |
| Restaurants | `handlers/restaurants.go` | `restaurants`, `restaurant_users`, copied menus and stock | CreateRestaurant |
| Team logins | `handlers/team.go` | `users`, `restaurant_users` | CreateRestaurantLogin, AddExistingRestaurantLogin |
| Plans and billing | `handlers/billing.go`, `platform_management.go` | `subscription_plans`, `features`, `plan_features`, `account_feature_overrides`, `account_subscriptions`, `payments` | TriggerMockCheckout, UpdateAccountSubscription, plan, feature and override edits |
| Platform administration | `handlers/platform.go`, `platform_management.go` | `accounts` (status) and the log of its changes, `platform_admins` | CreateCustomerAccount, CreatePlatformSupport, UpdateAccountStatus |
| Sessions | `handlers/auth.go`, `auth/session.go` | signed cookies, nothing on the server | both logins and logouts, RequireAuth, RequirePlatformAuth |
| Start-up | `cmd/server/main.go`, `db/migrations.go`, `db/bootstrap.go`, `docs/seed.sql` | `schema_migrations`, the schema, the plans, the first platform owner | RunMigrations, seed, BootstrapPlatformOwner |
| Inventory | `handlers/inventory.go` | `inventory_items` (balance), `inventory_adjustments` (trail) | AddInventoryItem, AdjustInventoryStock, DeleteInventoryItem |
| Menu | `handlers/menu.go` | `menu_categories`, `menu_items` | four single-statement edits |
| Dashboard and reports | `handlers/dashboard.go` | none | ShowDashboard, ShowReports, ExportReportsCSV |
| Models, templates, styles | `models`, `templates`, `static` | none | |

**How they interact.** Handlers never call one another; they meet in rows.
CreateOrder, CloseOrder and UpdateTableStatus meet in the row of a table;
every handler on a line of an order ends in RecalculateOrderTotals, which
updates all lines of the order and then the order; CloseOrder runs it too and
then invoices what it reads back; SetOrderStaff reads the roster and writes the
order CloseOrder closes; AddTable, CreateRestaurant and the team handlers read,
through GetLimit, the limits and subscriptions that the platform changes, and
the latter two lock the account; CreateRestaurant copies a menu and a stock that
others edit; reports read what CloseOrder writes; RequireAuth reads the account
status. Several instances of the server meet in `schema_migrations` and in an
advisory lock when they start.

**What is hard.** A read without `FOR UPDATE` is stale as soon as it returns. A
write that waits for a row goes on with the newest version of that row, but
with whatever it had read before. An UPDATE of many rows takes their locks one
by one. Two statements of one transaction see two states of the database. Any
transaction may end at any statement, because the statement failed, because the
browser went away, because the process died, or because PostgreSQL chose it as
the victim of a deadlock. `PROJECT.json` lists the hazards at their lines.

**What makes each part correct.** Orders: billed once, exactly when closed;
gapless invoice numbers; one open order per table; a table's status tells
whether it is taken. Lines: totals are the totals of the lines and discounts;
what is invoiced is what is on the order; every discount on an order has an audit
row of its own, though not for good (removing a line takes its rows with it,
`orders.go:449`); a closed order stays as it is. Tables, restaurants, logins: limits hold
under concurrency, exactly where a lock protects them and within a bound where
none does; a login is in one account; an account is there whole or not at all.
Roster: nobody is assigned who was not active. Billing: one current
subscription. Catalog: a plan grants what was saved last. Sessions: a suspension
takes effect with the next request; whoever shares a browser acts as himself.
Start-up: one owner, every migration once and in order, whatever crashes.
Inventory: the balance is the sum of its trail. Menu: a copied menu has all the
categories of one moment of the request and all the items of that or a later one,
each in its category. Reports: figures differ only for reasons that can be given.

## 2. The modules

| Module | Models | Role |
|---|---|---|
| `OrderLifecycle` | CreateOrder, CloseOrder, UpdateTableStatus, statement by statement | detailed specification |
| `OrderLedger` | what they promise: an order is opened on a free table and closed once, atomically, with the next invoice number | abstract specification |
| `OrderLifecycleLedger` | the refinement mapping from the first to the second | |
| `OrderLines` | everything that happens on one order: lines, discounts, audit rows, totals, invoice | detailed specification |
| `Pricing` | the arithmetic, in Go and in SQL | operators |
| `Startup` | instances that migrate, seed, create the owner, crash and start again | detailed specification |
| `Deployment` | what a start promises: migrations, seed and owner, each once and in this order, then service | abstract specification |
| `Tenancy` | the handlers that are limited by the plan, account creation, the platform's changes of limits | detailed specification |
| `Subscriptions` | the current subscription of an account, the mock checkout | part of the back office |
| `Catalog` | plans, features, and what a plan grants | part of the back office |
| `Access` | tokens, cookies, sign-in, the active restaurant, suspension | part of the back office |
| `Inventory` | stock, trail, deletion, copy | part of the back office |
| `MenuCopy` | edits of a menu, and its copy for a new restaurant | part of the back office |
| `StaffRoster` | the roster, SetOrderStaff, CloseOrder | part of the back office |
| `Reports` | a report, query by query, beside CloseOrder | part of the back office |
| `Office` | the seven parts together | composition |
| `OrderLifecycle_proofs`, `OrderLifecycleLedger_proofs`, `OrderLines_proofs`, `Pricing_proofs`, `Startup_proofs`, `Tenancy_proofs`, `Inventory_proofs`, `Office_proofs` | theorems | proofs |
| `MCOrderLifecycle`, `MCOrderLines`, `MCPricing`, `MCTenancy`, `MCOffice` | small instances | model checking |

All models of transactions have the same form: variables for committed rows,
variables for row locks, `pc[c]` (the next statement of connection `c`) and
`tx[c]` (the parameters and local variables of its handler, and what it has
written and nobody else sees yet). `Abort(c)` may end a transaction at any
statement, `Commit` makes its writes visible and frees its locks.

### OrderLifecycle

`orders`, `tables`, `counter`, `invoices`, `payments` are committed rows;
`orderLock`, `tableLock`, `counterLock` say which transaction holds a row;
`pc[c]` is the next statement of connection `c`; `tx[c]` holds the parameters
and local variables of its handler and its writes, invisible to others until
`Commit`. `Abort(c)` may end any transaction at any statement. The actions,
in the order of the code:

- CreateOrder: `LockTable` (`SELECT ... FOR UPDATE`), `FindOpenOrder` (an open
  order is resumed), `OccupyTable`, `InsertOrder` (which the partial unique
  index `one_open_order_per_table` makes wait or fail), `Commit`.
- CloseOrder: `Recalculate` (of which only the lock of the order matters here),
  `MarkClosed` or `RejectClosed`, `TakeNumber` (the upsert of the counter and
  the invoice), `FindOther` and `ReleaseTable` (one UPDATE: its subquery reads
  at its start, and is not read again if the UPDATE waits for the row), `Commit`.
- UpdateTableStatus: `CheckTable` (`SELECT EXISTS` an open order), `SetTable`, `Commit`.

MarkClosed joins several statements in one action: they touch only rows that
the transaction has locked, so nothing can come between them.

### OrderLines

One takeaway order. `order`, `lines`, `adjustments`, `discounts`, `invoices`
are committed rows, `orderLock` and `lineLock` the row locks, `pc` and `tx` as
above. The status of the order is read without a lock when a request begins,
as in the code. RecalculateOrderTotals is five actions: `StartLines` (the
UPDATE of all lines fixes which lines it works on), `UpdateLine` for each of
them in any order (waiting for its lock, skipping deleted ones), `Sum`,
`ReadChoice` (the discount of the order, and the arithmetic), `WriteTotals`.
`DeadlockVictim` is PostgreSQL's deadlock detector. A row whose new discount
violates the `CHECK` or overflows an INTEGER makes the statement fail: the
action is not enabled and only `Abort` is left. The lines in `Kept` are there
from the start and are not removed. They are what makes totals exact (sections 4 and 6).

### Pricing

Amounts in poisha, percentages in basis points. `CalculateDiscount` is Go's,
with 64-bit integers, `LineDiscount` the SQL `CASE`, with `LineDiscountFits`
for what an INTEGER holds. A state of `MCPricing` is one bill: quantity, price,
the discounts of line and order, tax settings. Every combination is an initial
state and no step changes it, so its invariants are statements about all bills.

### Startup

`table`, `rows`, `dirty` are `schema_migrations`, `applied` the migrations whose
content is committed, `plan` a value of `plan_features`, `owners` the number of
rows of `platform_admins`. `rowLock` is who has deleted a version, `bootLock`
the advisory lock. An instance goes through `FindTable` and `MakeTable` (CREATE
TABLE IF NOT EXISTS, which is not atomic), `ReadVersion` (any of the rows:
`LIMIT 1`), and for each pending migration `Clear` and `ClearRow` (DELETE fixes
its rows when it starts and locks them one by one), `InsertVersion` (waits for
whoever may still commit or take back the same key, then fails or not),
`RunContent`, `MarkClean`, `CommitMigration`; then `Seed`, `LockBootstrap`,
`CountOwners`, `CreateOwner`, `CommitOwner`, and serves. `log.Fatalf` and
`Crash` undo its transaction (`Stop`), `Start` is the supervisor's.

A migration that can be applied twice is in `Idempotent` (0007 and 0008 are
such); any other fails the second time. That is what keeps two instances apart,
for the runner takes no lock of its own: the one that comes second fails, stops,
and reads the right version when it is started again. With a
repeatable one pending, an instance that is late applies it again, writes its
version over the later one, and from then on nobody can start. So
`VersionNeverFalls` is stated for the case that none is pending (`NoRepeatable`,
a state of `deployed`), and `EveryInstanceServes` for the behaviours in which the
version in the table is at all times that of the schema (`[]AtVersion`): a
repeatable migration may be pending in them, only a late repetition of it is not
in them. Both a new database, whose owner has yet to be created, and one at
version 2 have such behaviours, and both are in the instance checked.

### Tenancy

Requests of five handlers: CreateRestaurant and the two team handlers take the
row lock of the account (`LockAccount`), ask for their limit (`ReadOverride`,
`ReadPlan`: GetLimit, on a connection of its own, which may not be had), count
and insert; AddTable counts first and locks nothing; CreateCustomerAccount is
statement by statement: `InsertUser`, of which the name can collide, `InsertRow`
for the account, `SelectPlan` (which fails and ends the request when the plan has
been taken off the offer, `planActive`), and `InsertRow` for the restaurant, its
owner's membership, the subscription and the tax settings; any of them may be the
last (`Abort`). CreateRestaurant ends in the same INSERTs of a restaurant. What
a transaction has inserted is in `tx[c].written` until `CommitRows` makes just these
rows visible. `billed` are the accounts with any subscription, canceled ones
included, `subscribed` those with a current one, `taxed` counts rows of
`restaurant_tax_settings`. `Platform` are the
dashboard's transactions of one statement: overrides, plan values, plans offered or
not, cancellations, support users; a new override has a foreign key to the account
and so waits while its row is locked. The database's superuser, as whom the
program connects by default (`cmd/server/main.go:56`), is not subject to row
level security: every statement sees all accounts.

### The parts of the back office

`Subscriptions`: `FindCurrent` sees a row, `LockCurrent` waits for it and looks
again, `InsertSubscription` is held up and refused by the partial unique index.
The mock checkout always fails: its `ON CONFLICT` names columns that only a partial
unique index covers (`billing.go:157`), and the payment is rolled back with it.
`Catalog`: a form has a kind of value for each feature, or is blank there, which is
false for a boolean and refused for a number (`ValueOf`); `Upsert` writes and locks
the features of a plan in the order of their keys. `Access`: a request is
`RequireAuth`, `ReadRole`, `ReadMemberships`, `Act`, between which tokens expire,
accounts are suspended and others use the browser. A query of the role that fails is
taken for "not of the platform" (`auth.go:64`), which does no harm while nobody of
the platform has a customer's session; one of the memberships that fails signs the
user out. `UpdateAccountStatus` is refused by PostgreSQL (`platform.go:401` uses `$1` with
two types, against `docs/v-1.0.0/documentation.md:89`), so accounts are suspended
by hand at the database. `Inventory`:
quantities in half thousandths, rounded as NUMERIC(12,3) rounds them.
`MenuCopy`: two statements of the copy and any edits between them; `moments` is a
history of the source's menu during the request, for the property only.
`StaffRoster`: two checks and an UPDATE, with the roster and CloseOrder between
them. `Reports`: five queries, and the two times of a closed order. The query by category
joins `menu_categories` and so has only orders with a dish that is `Categorised`
(`WithCategory`); that by item lists on the screen the `TopItems` sold most, any of
them where some are sold alike (`Listings`).

`Office` instantiates the seven, each with variables of its own, and lets any of
them take the next step. The parts share no row (what a module needs of another it
names as external or keeps a copy of: CloseOrder's lock in `StaffRoster`, its
times in `Reports`), so interleaving them shows nothing that one alone does not,
and would multiply their states: in `MCOffice` one part, chosen in the initial
state, is at work in a behaviour and the others rest, so that one run checks all
of them. The proofs are about `Office`, where all are at work.

## 3. What is checked

| Run | Instance | Shows |
|---|---|---|
| `lifecycle` | 3 connections, 3 orders, 2 tables, all card statuses | `TypeOK`; `BilledOnce`; `InvoiceNumbersGapless`; `TableLockSuffices`: the lock on the table keeps a second open order out before the unique index could; `CheckoutFreesOnlyEmptyTables`: a checkout frees no table with an open order, although it looks before it waits; `LedgerSpec`: the transactions implement `OrderLedger` |
| `service` | 3 connections, 2 orders, 1 table; cards only seat guests | `SeatedTableIsOccupied`; `EveryRequestEnds`: the handlers take their row locks in an order that cannot deadlock |
| `lines` | 2 connections, 2 items, 2 lines one of which is kept, quantities to 2, one percentage | `LineDiscountsCurrent`, `TotalsMatchLines`, `EveryDiscountAudited`, `BilledAsServed`, `OrderDiscountExact` |
| `lines_live` | 2 connections, a line that comes, changes and goes | `EveryRequestEnds`, although handlers on lines do deadlock |
| `pricing` | quantities to 7, boundary prices, amounts and percentages, three tax settings (the default, exclusive VAT with a service charge, no VAT) | `DiscountsWithinBase`, `SqlAgreesWithGo`, `BillNeverFalls`, `AuditedPriceFair` |
| `startup` | 3 instances, 4 migrations the second of which is repeatable, a new database or one at version 2, one instance without credentials, one crash | `TypeOK`; `AtMostOneOwner`; `SchemaMatchesVersion`; `VersionNeverFalls`; `DeploymentSpec`: the starts implement `Deployment`, and so nobody serves too early (`ServesWhenReady`, which is proved); `EveryInstanceServes`: the instance without credentials too, once another has created the owner of the new database |
| `tenancy` | 2 connections, 2 accounts of which one is created, 3 logins, limits of 1 and 2, an override of a limit or none, one change by the platform (of a limit, the offer of the plan or a subscription), `max_connections` of 2 and 3, five mixes of two handlers | `TenancyTypeOK`; `RestaurantLimitHolds` and `UserLimitHolds`: exactly; `TablesOvershootAtMost`: by as many as there are other requests; `AccountsComplete`: whichever statement of the creation of an account is the last to succeed; `EveryTenantRequestEnds`: with no connection left for GetLimit too |
| `office` | two connections or one browser; 2 subscriptions and plans; 3 users, 3 restaurants, tokens of 1 in 2 units of time; 2 items of stock with 2 entries each; 2 categories and 2 dishes; 1 order and 2 of staff; 2 orders of dishes with and without a category in a report over 2 days with room for 1 of them; 2 features, and forms of numbers or with a blank | `OneCurrentSubscription`; `BarredNeverActs`; `ActsAsMember`; `StockFollowsTrail`; `DeletedIsFinal`; `CopyIsFresh`; `AssignedInTime`; `ReportAddsUp`; `PlanSavedWhole` |

Two connections are needed for every race here, and three for one between two
transactions and a third that waits for both; three orders let two tables be
taken, freed and taken again; two lines are the fewest a sum can miss one of.
Quantity 2 is the least at which `dec` and removal differ. Three instances are
an early, a late and a waiting one; of four migrations the second is repeatable:
on a new database a late instance can fall behind a repeated one, and at version 2
none that is pending can be repeated, and the late one, with two to come, is
overtaken by both. A limit of 1 with
two requests is the least that can be exceeded, and three logins are an owner, a
free one and one more. Two connections in the database for two requests leave
none for GetLimit. Half a thousandth is the only quantity on which balance and
trail can differ. Two days are a range and its edge; one order has both dishes and the other only that
without a category, and with `TopItems` 1 for the `LIMIT 5` of the code the list of
dishes is full before it is whole. The mixes of handlers in
`tenancy` put together those that meet in a row: the lock of the account, the
tables, a login. Symmetry is used only in runs without liveness: `lifecycle`
(connections, orders and tables), and `lines`, `totals` and `closed` (connections,
and the ids of lines that are not there yet).

Deadlock is checked in every run.

Where the code does not do what its own comments and documents say, a run shows it
with a counterexample:

| Run | The code | The claim |
|---|---|---|
| `totals` | the sum over the lines (`orders.go:949`) is taken before the order is locked: two first lines added at once leave the totals of one | `orders.go:934` |
| `closed` | the status is checked without a lock (`orders.go:360`): a line is added to an order that has been closed and invoiced | `orders.go:358`, `365` |
| `seed` | every start puts the default values of the plans back over what was edited (`seed.sql:53`, `main.go:82`) | `docs/seed.sql:21` |
| `login` | the check that a login is in no other account is made under the lock of one of them (`team.go:93`): two accounts get it | `docs/v-1.0.1/PROJECT_PLANNER.md:48` |

Four more disagreements are stated in the modules without a run of their own. To see
a counterexample, name the property as an INVARIANT or PROPERTY in a
configuration of the module: `OneLinePerItem` (`OrderLines`: two adds of one item
make two lines, `orders.go:378`), `AuditAppendOnly` (`OrderLines`: removing a
line cascades to the log of its discounts, `orders.go:449`),
`AnyLineCanBeComped` (`MCPricing`: the SQL formula overflows an INTEGER for a
line of 2147.48 BDT at 100 percent, `orders.go:940`), and `SeatedTableIsOccupied`
with all card statuses (`OrderLifecycle`: the card's check is stale when its
UPDATE comes, `tables.go:231`).

## 4. Why totals are exact with a common line

It is worth saying why `TotalsMatchLines` holds in `lines` and not in `totals`.
RecalculateOrderTotals locks nothing on purpose; but its first statement updates
every line of the order, and so two requests on an order with a line in common
run one after the other from there to their commits, and the second one's sum sees the
first one's lines. On an order without a common line (a new order, or one of
which the last common line is being removed) nothing holds them apart.
SetOrderDiscount locks the order first and so is exact if nothing else is:
`OrderDiscountExact`.

## 5. Fairness

`OrderLifecycle`, `OrderLines` and `Tenancy`: `SF(Step(c))` for every connection.
PostgreSQL runs a statement it has been sent, which would be weak fairness; it
is strong because a statement that waits for a row is enabled only while the
row is free, and PostgreSQL wakes the waiters of a row in the order of their
arrival, so that none starves. A deadlock is found after `deadlock_timeout`.
Nothing obliges a client to send a request (`Request` has no fairness) nor a
request to fail (`Abort` has none). In `Tenancy`, a request that finds no
connection for GetLimit does not wait: PostgreSQL refuses it, and that is why
`EveryTenantRequestEnds` holds.

`Startup`: the same for the statements of an instance, and `WF(Start(i))`
because the supervisor restarts what has failed (`Restart=on-failure`,
`docs/v-1.0.0/RUNBOOK.md:97`). `EveryInstanceServes` is "again and again"
because crashes are bounded. An instance without credentials finds no owner on a new
database, fails, lets go of the advisory lock and is started again, until another
has created the owner; `[]AtVersion` leaves out the behaviours in which the version
is taken back (section 2), and no others.

## 6. What is proved

With TLAPS, for every value of the constants.

### Orders

In `OrderLifecycle_proofs` and `OrderLifecycleLedger_proofs`, for any sets of connections, orders, tables and card statuses that satisfy
`ConstantAssumptions` (the null values are not members of the sets):

| Theorem | States |
|---|---|
| `TypeCorrect` | `[]TypeOK` |
| `OrdersAreBilledOnce` | `[]BilledOnce` |
| `InvoicesAreGapless` | `[]InvoiceNumbersGapless` |
| `OneOpenOrder` | `[]OneOpenOrderPerTable` |
| `IndexNeverObjects` | `[]TableLockSuffices` |
| `OnlyEmptyTablesAreFreed` | `CheckoutFreesOnlyEmptyTables` |
| `SeatedTablesAreOccupied` | `[]SeatedTableIsOccupied` if cards only seat guests (`CardStatus \subseteq {"occupied"}`); with all card statuses it does not hold (section 3) |
| `ImplementsLedger` | `Spec => LedgerSpec` |

`Invariance` establishes the inductive invariant `IInv`. None of the
properties is inductive: that an order is billed once depends on what a
CloseOrder read some statements ago still being so. `IInv` says when it is, by
the row locks. A transaction past its locking statement holds the lock
(`HoldsOrder`, `HoldsCounter`, `HoldsTable`); while it does, nobody else's
commit changes the row; so an order between `MarkClosed` and `Commit` is still open, the
number a CloseOrder took is still `counter + 1`, and a table for which
CreateOrder found no open order still has none (`FoundTableEmpty`). Each action is shown to keep
the statements of the transaction that takes it (`OwnStatement`), to leave those of
others alone (`OthersKeep`), and only `Commit` changes the database
(`NothingCommitted`), which leaves one action to look at for each property.

The refinement maps the invoices, read by their number, to the ledger's
sequence. A commit of CreateOrder is `Open`, or a stutter when it resumed an
order, a commit of CloseOrder is `Close`, every other step a stutter.

### Lines, totals and bills

In `OrderLines_proofs`, for any connections, items, prices, discounts, tax
settings and any set of lines that are kept, under `OrderLinesAssumptions`:

| Theorem | States |
|---|---|
| `DiscountsCurrent` | `[]LineDiscountsCurrent` |
| `DiscountsAudited` | `[]EveryDiscountAudited` |
| `DiscountExact` | `OrderDiscountExact` |
| `TotalsExact` | `[]TotalsMatchLines` if there is a line that nobody takes off (`Kept # {}`); without one it does not hold (run `totals`) |
| `BilledExactly` | `BilledAsServed` under the same condition |
| `TypesCorrect` | `[]TypeOK` |

They make section 4 an argument for every instance. `LinesInvariant` establishes
the inductive invariant `LinesInv`: what every request, by its next statement, has
written, holds and computed (`Sound`). Whatever it has written it holds
(`Holding`); past its UPDATE of the lines it has written every line that is kept
(`Recalculated`); at its commit it has written the order (`Taken`). So two
requests that commit one after the other have a row in common, and whoever has
summed under such a lock is alone until its own commit (`FirmAlone`): the sums,
totals and bill that it carries through four more statements are those of the rows
it will leave (`Figures`, `Billed`). A SetOrderDiscount has the row of the order
from its first write, hence it needs no kept line; that it leaves the lines as they
are (`LinesLeft`) rests on `LineDiscountsCurrent`. Up to here nothing is said about
what a sum is: the same lines have the same sum.

`TypesCorrect` does need to know: that totals are integers depends on sums over
lines being so. `Line` is finite, and the sum is a fold over its subsets; that such
a fold exists (`SumExists`) and is an integer (`SumIsInteger`) is shown by induction
on the number of lines, stated for a set of numbers (`NumbersByInduction`, from the
least number that is not in it). Its invariant, `TypesInv`, adds to `LinesInv`
the types of what is computed; among them that no audited amount is negative.

### Arithmetic

In `Pricing_proofs`, for any finite or infinite sets of inputs that satisfy
`InputsAllowed` (quantities from 1, prices from 0, at most 100 percent):

| Theorem | States |
|---|---|
| `NoNegativeBill` | `[]DiscountsWithinBase` |
| `SqlAndGoAgree` | `[]SqlAgreesWithGo`; where the SQL overflows, `AnyLineCanBeComped` is about |
| `BillsOnlyGrow` | `[]BillNeverFalls` |
| `AuditIsFair` | `[]AuditedPriceFair` |

They rest on two facts about rounding (`Quotient`, `QuotientAtMost`), on
`DiscountWithinBase` (a discount is between nothing and its base) and on
`ChargedMonotone` (what is left of a larger base is larger, whether the
discount is capped or rounded).

### Start-up

In `Startup_proofs`, for any number of instances, any last migration, any set of
repeatable ones and of versions found, under `StartupAssumptions`:

| Theorem | States |
|---|---|
| `TypeCorrect` | `[]TypeOK` |
| `OneOwner` | `[]AtMostOneOwner` |
| `SchemaSound` | `[]SchemaMatchesVersion` |
| `ReadyToServe` | `[]ServesWhenReady` |
| `VersionsOnlyGrow` | `VersionNeverFalls` |
| `ImplementsDeployment` | `Spec => DeploymentSpec` |

`StartupInvariant` establishes the inductive invariant `StartupInv`, of three
parts. `TypeInv`: types, and which local variables are set at which statement.
`OwnerInv`: whoever counts or creates an owner holds the advisory lock, and has
found none if he is to create one; so a commit of an owner finds none. It is
needed because `owners <= 1` says nothing of an instance that has counted and
not yet inserted. `SchemaInv`: the applied migrations are closed downwards
(`Closed`; `ClosedIsPrefix` makes `1 .. k` of it, by the least migration that is
not applied), every version in the table is applied, none is dirty, and every
instance past its reading has the predecessor of its next migration applied
(`Sound`). The lock of the migrations is not needed for it: `applied` only
grows, and so what an instance has read stays true of it, however late it is.
That is why `SchemaMatchesVersion` needs no `NoRepeatable`, and
`VersionNeverFalls` does.

For the latter `OneRow` says, while `NoRepeatable` holds, that the one row is the
last migration applied, and who may still replace it (`Fresh`): whoever runs a
migration that nobody has applied has deleted, or is about to delete, what row
there is, and past its content nobody has applied it. Two at that point would run
the same migration, the first that is not applied, and have inserted the same
primary key, which the second waits for (`NobodyElseCommits`). So a commit puts a
higher version in the place of the only row (`RowCommitted`), and makes everybody
else late: the late are refused by the primary key or by the content of their
migration, the point at which a repeatable one would let them through.

The refinement reads the version of `Deployment` off what is applied
(`Cardinality(applied)`, not the row of `schema_migrations`, which a repeatable
migration can take back), `seeded` off the plans, `up` off who serves, and needs
`StartupInv` only. A commit of a migration is `Migrate`, or a stutter when a late
instance repeats one (`CommitMigrates`); the first seed is `Seed`, every other a
stutter, as is an edit of the plans; `CommitOwner` is `CreateOwner`, finding an
owner is `Serve`, and whatever stops an instance that serves is `GoDown`.

### Accounts and their limits

In `Tenancy_proofs`, for any accounts, logins, connections, limits and mixes of
handlers, under `TenancyAssumptions`:

| Theorem | States |
|---|---|
| `TenancyTypeCorrect` | `[]TenancyTypeOK` |
| `RestaurantsWithinLimit` | `[]RestaurantLimitHolds` |
| `LoginsWithinLimit` | `[]UserLimitHolds` |
| `NoHalfAccounts` | `[]AccountsComplete`: owner's login, restaurant, membership, tax settings and a subscription (which may be canceled later), or no account |
| `TablesOvershoot` | `[]TablesOvershootAtMost`, if no override or plan of more tables is granted (`NotRaised`) |

The inductive invariant `TenancyInv` adds to these what protects a count between
its SELECT and the commit: a request that locks its account holds it from then on
(`Held`), is at a statement of its own handler (`Stages`), and is about an account
there is, which no account in creation can be (`Existing`, `Apart`). A request that
creates rows has written, by its next statement, just those of the statements before
it (`WrittenBefore`), and is at its commit only when all of them are there: this is what
makes an account whole, wherever a request stops.

AddTable holds no lock while it counts, and so its bound is one of numbers. What is
invariant is `Overshoot`: the tables of an account and the requests that may still
add one to it (`Adding`: they have counted and found room) are together at most the
limit and all connections but one. A request joins `Adding` only where it has found
fewer tables than its limit, which is at most `TableLimit` (`Granted`, `ToldAll`),
and it is not in it before; a request that inserts leaves it. `Client` must be
finite for there to be such a number. Without `NotRaised` there is no bound in terms
of the plan: the requests count against the higher one.

### Stock

In `Inventory_proofs`, for any items, connections, quantities and bounds, under
`InventoryAssumptions`:

| Theorem | States |
|---|---|
| `StockIsItsTrail` | `[]StockFollowsTrail` |
| `DeletionIsFinal` | `DeletedIsFinal` |

They are about `Inventory` on its own; `StockOfItsTrail` and `DeletionsAreFinal`
below carry them over to the composition. Balance and trail are written at a
commit, from what the UPDATE has computed before: `StockInv` says that the row is
still the one the UPDATE found, because it is held (`Holding`) or nobody else can
see it yet (`Creating`). `RoundingDrift` bounds what rounding the change and
rounding the balance can differ by.

### The back office

In `Office_proofs`, about the parts all at work, for any connections, browsers,
users, rows, keys, dates and mappings of them. `Office` assumes of its constants that
the null values are not members (`NobodyIsElse`), quantities are integers
(`QuantitiesAreIntegers`), and keys and dates numbers (`KeysAreOrdered`,
`DatesAreNumbers`).

| Theorem | States | What the inductive invariant of the part says |
|---|---|---|
| `OneSubscription` | `[]OneCurrentSubscription` | `SubInv`: a lock is on a current row and its holder is about to write it; a commit either holds its row, or inserts a row of its own, and the second current one is refused while another is there or under way (`InsertsAlone`) |
| `SuspensionsHold`, `OnlyMembersAct` | `[]BarredNeverActs`, `[]ActsAsMember` | `SessionInv`: what was suspended ever since a request began is suspended now; who has a session is a customer, whether or not the query of the roles succeeds; a restaurant to act in is one that the memberships, read in the same request, gave |
| `CopiesAreFresh` | `CopyIsFresh` | `MenuInv` (`Copying`): between the statements what has been read makes a moment with what is there now, whatever is edited (`MenuEdit`); once both are read the copy is fresh |
| `AssignmentsInTime` | `AssignedInTime` | `RosterInv`: what is open or active now has been so during every request under way (`Remembering`), so each check records a moment of the request, which the UPDATE does not look at again; the commit is that of the connection whose request it was (`RosterChange`) |
| `ReportsAddUp` | `[]ReportAddsUp` | `ReportInv`: what the revenue counts is still there, and what it misses was committed later (`RevenueFound`); so each query in between finds it, and at most the late orders too (`Figures`, `MoreSold`, `WhatIsListed`); an order is paid before it is closed (`OrderTimes`), and so what the payments miss was paid before the first day (`PaymentsFound`) |
| `PlansSavedWhole` | `[]PlanSavedWhole` | `CatalogInv`: a save holds the rows it has written, all of keys below those to come (`InKeyOrder`), so that two cannot wait for each other; their values fit the types they have looked at, except those changed since (`KindsFit`) |
| `StockOfItsTrail`, `DeletionsAreFinal` | `[]StockFollowsTrail`, `DeletedIsFinal` | the behaviours of `Office` are behaviours of `Inventory` (`StockIsInventory`, `StockOfOffice`), whose theorems are instantiated |

The parts share no variable: every step is one of a part or leaves its variables
alone (`StepsOfParts`), and `OfficeInvariant` joins the invariants.

### Not proved

Every invariant and every action property of the passing runs is stated by a theorem.
Only model-checked is liveness (`EveryRequestEnds`, `EveryTenantRequestEnds`,
`EveryInstanceServes`): it needs fairness and `ENABLED`, which are out of this
prover's reach. What a sum is worth, beyond that it is an integer, is not said by any
theorem either: none of the properties depends on it.

## 7. What is not modelled, and the plan

Left out for good: row level security (the database's own, bypassed by the
default connection, and its tests are in `internal/db/rls_test.go`), HMAC and
password hashes (taken as perfect), HTML, the CSV's layout, styles, pages that
only read, `models/models.go`. Not modelled of what is: the account and
restaurant statuses that no handler sets (`restaurants.status`), split payments
(the schema allows them, no handler makes them), and the time a browser keeps a
cookie of a surface (a token expires with it).

Next, in the order of what it is worth:

1. An abstract specification of a limit (a count that is admitted atomically), and
   `Tenancy` shown to implement it for restaurants and logins.
2. That the totals are those of the lines for the whole of an order's life if its
   requests come one after the other, and from this what `totals` needs to go wrong.
3. Whether two `dec` on one line (`orders.go:446`) can make an order that can never be
   closed, as a run of `OrderLines`.

The project keeps its runs few (at most a dozen), so that all of them are run
on every change: small modules are instantiated together by `Office`, and a
new disagreement worth a run takes the place of one that shows the same kind of
race.
