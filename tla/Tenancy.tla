------------------------------ MODULE Tenancy ------------------------------
(***************************************************************************)
(* The accounts of customers and what their plan limits: restaurants       *)
(* (internal/handlers/restaurants.go), logins (team.go) and tables         *)
(* (tables.go), the creation of an account (platform.go) and the platform's*)
(* changes of limits and subscriptions (platform_management.go).           *)
(*                                                                         *)
(* One action is one statement; transactions are those of module           *)
(* OrderLifecycle.  CreateRestaurant and the team handlers lock the row of *)
(* the account; AddTable locks nothing.  All of them call GetLimit, which  *)
(* asks for a second connection while the first one holds the transaction. *)
(* Of the restaurants of an account only the number matters, and tables    *)
(* are those of one of them.  Copying a menu is module MenuCopy.  What a   *)
(* transaction has inserted it keeps for itself until it commits, and an   *)
(* error at any of its statements leaves all of it behind.                 *)
(***************************************************************************)
EXTENDS Naturals, FiniteSets

CONSTANTS
    Account,     \* ids an INSERT INTO accounts may return (a bound)
    Established, \* accounts there are from the start
    Login,       \* usernames
    OwnerOf,     \* their owners, [Established -> Login]
    Client,      \* connections that serve requests
    Nobody,
    Unset,       \* no row in account_feature_overrides
    PlanLimits,  \* the limits of the plan, by feature
    Offered,     \* what the platform may change them to (a bound)
    Changeable,  \* features of which it changes the limit (a bound)
    MaxChanges,  \* changes by the platform (a bound)
    MaxConnections, \* PostgreSQL's max_connections; database/sql sets no limit
    Workloads    \* sets of handlers that are called together (a bound)

Feature == {"restaurants", "users", "tables"}

\* The rows of a new account besides its owner's login, by the table they go to.
Row == {"account", "restaurant", "membership", "subscription", "tax"}

ASSUME TenancyAssumptions ==
    /\ Account # {} /\ Login # {}
    /\ Established \subseteq Account
    /\ OwnerOf \in [Established -> Login]
    /\ Nobody \notin Client /\ Client # {} /\ IsFiniteSet(Client)
    /\ Unset \notin Nat
    /\ PlanLimits \in [Feature -> Nat]
    /\ Offered \subseteq Nat
    /\ Changeable \subseteq Feature
    /\ MaxChanges \in Nat
    /\ MaxConnections \in SUBSET Nat
    /\ Workloads \subseteq SUBSET {"restaurant", "new login", "login", "table", "account"}

VARIABLES
    accounts,    \* committed accounts
    owner,       \* accounts.owner_user_id
    users,       \* committed users
    restaurants, \* how many restaurants each account has
    taxed,       \* how many rows of restaurant_tax_settings they have
    members,     \* who is a member of one of them
    tables,      \* how many tables one restaurant of each account has
    override,    \* account_feature_overrides, by account and feature
    plan,        \* plan_features
    subscribed,  \* accounts with a current subscription
    billed,      \* accounts with any subscription, the canceled ones included
    planActive,  \* subscription_plans.is_active of the plan that is offered
    accountLock, \* the transaction that holds SELECT ... FOR UPDATE on an account
    pc, tx,
    changes,     \* of limits and subscriptions, so far
    connections, \* max_connections, fixed when the database is configured
    workload     \* the handlers that are called

business == <<accounts, owner, users, restaurants, taxed, members, tables>>
limits == <<override, plan, subscribed, billed, planActive>>
setting == <<connections, workload>>
tenancyVars == <<business, limits, accountLock, pc, tx, changes, setting>>

-----------------------------------------------------------------------------
(* Transactions                                                            *)

SomeAccount == CHOOSE a \in Account : TRUE
SomeLogin == CHOOSE u \in Login : TRUE

NoTx == [op |-> "none", account |-> SomeAccount, login |-> SomeLogin,
         count |-> 0, limit |-> 0, newUsers |-> {}, written |-> {}]

\* An established account may have been granted another limit.
TenancyInit ==
    /\ accounts = Established
    /\ owner = [a \in Account |-> IF a \in Established THEN OwnerOf[a] ELSE SomeLogin]
    /\ users = {OwnerOf[a] : a \in Established}
    /\ restaurants = [a \in Account |-> IF a \in Established THEN 1 ELSE 0]
    /\ taxed = restaurants
    /\ members = [a \in Account |-> IF a \in Established THEN {OwnerOf[a]} ELSE {}]
    /\ tables = [a \in Account |-> 0]
    /\ \E granted \in Offered \cup {Unset} :
         override = [a \in Account |-> [f \in Feature |->
                       IF a \in Established /\ f \in Changeable THEN granted ELSE Unset]]
    /\ plan = PlanLimits
    /\ subscribed = Established
    /\ billed = Established
    /\ planActive = TRUE
    /\ accountLock = [a \in Account |-> Nobody]
    /\ pc = [c \in Client |-> "idle"]
    /\ tx = [c \in Client |-> NoTx]
    /\ changes = 0
    /\ connections \in MaxConnections
    /\ workload \in Workloads

At(c, statement) == pc[c] = statement
Goto(c, statement) == pc' = [pc EXCEPT ![c] = statement]
Local(c, mine) == tx' = [tx EXCEPT ![c] = mine]

Busy == {c \in Client : ~At(c, "idle")}
ConnectionFree == Cardinality(Busy) < connections

Unlocked(c) == [a \in Account |-> IF accountLock[a] = c THEN Nobody ELSE accountLock[a]]

Begin(c, op, a, u, first) ==
    /\ op \in workload
    /\ At(c, "idle")
    /\ ConnectionFree
    /\ Local(c, [NoTx EXCEPT !.op = op, !.account = a, !.login = u])
    /\ Goto(c, first)
    /\ UNCHANGED <<business, limits, accountLock, changes, setting>>

End(c) ==
    /\ accountLock' = Unlocked(c)
    /\ Local(c, NoTx)
    /\ Goto(c, "idle")
    /\ UNCHANGED <<override, plan, planActive, changes, setting>>

RollbackKeepsLock(c) ==
    /\ Local(c, NoTx)
    /\ Goto(c, "idle")
    /\ UNCHANGED <<business, limits, accountLock, changes, setting>>

Rollback(c) == End(c) /\ UNCHANGED <<business, subscribed, billed>>

\* The browser goes away and the request context is cancelled.
Abort(c) == ~At(c, "idle") /\ Rollback(c)

\* A statement that only reads, or writes what nobody else sees as yet.
Reads(c, mine, next) ==
    /\ Local(c, mine)
    /\ Goto(c, next)
    /\ UNCHANGED <<business, limits, accountLock, changes, setting>>

-----------------------------------------------------------------------------
(* Requests.  restaurantAccount admits the owner of the account only.      *)

CreateRestaurant(c, a) == a \in accounts /\ Begin(c, "restaurant", a, owner[a], "lock")

CreateRestaurantLogin(c, a, u) == a \in accounts /\ Begin(c, "new login", a, u, "lock")

AddExistingRestaurantLogin(c, a, u) == a \in accounts /\ Begin(c, "login", a, u, "lock")

AddTable(c, a) == a \in accounts /\ Begin(c, "table", a, owner[a], "count")

Unused(a) == a \notin accounts /\ \A d \in Client : tx[d].op = "account" => tx[d].account # a

CreateCustomerAccount(c, a, u) == Unused(a) /\ Begin(c, "account", a, u, "user")

-----------------------------------------------------------------------------
(* The lock, and GetLimit                                                  *)

FeatureOf(op) ==
    CASE op = "restaurant" -> "restaurants"
      [] op = "table" -> "tables"
      [] OTHER -> "users"

AccountSelected(c) ==
    /\ At(c, "lock")
    /\ Reads(c, tx[c], "override")

\* SELECT id FROM accounts WHERE id = $1 FOR UPDATE
LockAccount(c) ==
    LET a == tx[c].account
    IN  /\ At(c, "lock")
        /\ accountLock[a] = Nobody
        /\ accountLock' = [accountLock EXCEPT ![a] = c]
        /\ Goto(c, "override")
        /\ UNCHANGED <<business, limits, tx, changes, setting>>

AfterLimit(op) ==
    CASE op = "restaurant" -> "count"
      [] op = "new login" -> "user"
      [] op = "login" -> "capacity"
      [] op = "table" -> "check"

WithLimit(c, limit) == Reads(c, [tx[c] EXCEPT !.limit = limit], AfterLimit(tx[c].op))

\* Both SELECTs of GetLimit run on a connection of their own.  When there is
\* none left the query fails, the error of the first is taken for "no
\* override", and that of the second ends the request.
WaitForConnection(c) ==
    LET granted == override[tx[c].account][FeatureOf(tx[c].op)]
    IN  /\ At(c, "override")
        /\ ConnectionFree
        /\ \/ granted # Unset /\ WithLimit(c, granted)
           \/ granted = Unset /\ Reads(c, tx[c], "plan")

ReadOverride(c) ==
    LET granted == override[tx[c].account][FeatureOf(tx[c].op)]
    IN  /\ At(c, "override")
        /\ \/ ConnectionFree /\ granted # Unset /\ WithLimit(c, granted)
           \/ (~ConnectionFree \/ granted = Unset) /\ Reads(c, tx[c], "plan")

ReadPlan(c) ==
    /\ At(c, "plan")
    /\ \/ /\ ConnectionFree /\ tx[c].account \in subscribed
          /\ WithLimit(c, plan[FeatureOf(tx[c].op)])
       \/ ~ConnectionFree /\ Rollback(c)
       \/ tx[c].account \notin subscribed /\ Rollback(c)

-----------------------------------------------------------------------------
(* What is counted against the limit                                       *)

\* SELECT count(*) FROM restaurants
CountRestaurants(c) ==
    LET count == restaurants[tx[c].account]
    IN  /\ At(c, "count") /\ tx[c].op = "restaurant"
        /\ \/ count < tx[c].limit /\ Reads(c, [tx[c] EXCEPT !.count = count], "restaurant")
           \/ count >= tx[c].limit /\ Rollback(c)

\* SELECT count(*) FROM tables comes before GetLimit, and nothing is locked.
CountTables(c) ==
    /\ At(c, "count") /\ tx[c].op = "table"
    /\ Reads(c, [tx[c] EXCEPT !.count = tables[tx[c].account]], "override")

InsertTableAnyway(c) == At(c, "check") /\ Reads(c, tx[c], "commit")

InsertTable(c) ==
    /\ At(c, "check")
    /\ \/ tx[c].count < tx[c].limit /\ Reads(c, tx[c], "commit")
       \/ tx[c].count >= tx[c].limit /\ Rollback(c)

\* INSERT INTO users: it waits for an uncommitted row of this name and fails on
\* a committed one (users_username_unique).
InsertUser(c) ==
    LET u == tx[c].login
        next == IF tx[c].op = "account" THEN "account" ELSE "capacity"
    IN  /\ At(c, "user")
        /\ \A d \in Client \ {c} : u \notin tx[d].newUsers
        /\ \/ u \notin users /\ Reads(c, [tx[c] EXCEPT !.newUsers = {u}], next)
           \/ u \in users /\ Rollback(c)

ElsewhereIsSeen(u, a) == \E b \in accounts \ {a} : u \in members[b]

CapacityIgnored(c) ==
    /\ At(c, "capacity")
    /\ tx[c].login \in users \cup tx[c].newUsers
    /\ Reads(c, tx[c], "commit")

\* ensureAccountUserCapacity: three SELECTs, of which only the second reads
\* rows that the lock of the account does not protect.
EnsureCapacity(c) ==
    LET a == tx[c].account
        u == tx[c].login
        allowed == \/ u \in members[a]
                   \/ ~ElsewhereIsSeen(u, a) /\ Cardinality(members[a]) < tx[c].limit
    IN  /\ At(c, "capacity")
        /\ \/ u \in users \cup tx[c].newUsers /\ allowed /\ Reads(c, tx[c], "commit")
           \/ ~(u \in users \cup tx[c].newUsers /\ allowed) /\ Rollback(c)

-----------------------------------------------------------------------------
(* The rows of a restaurant, and of an account with its first one          *)

\* The id of the subscription plan, before anything refers to it: when the plan
\* is not offered any more, no row is found, and all that was written is undone.
SelectPlanUnchecked(c) ==
    /\ At(c, "choose plan")
    /\ \/ planActive /\ Reads(c, tx[c], "restaurant")
       \/ ~planActive /\ Reads(c, tx[c], "commit")

SelectPlan(c) ==
    /\ At(c, "choose plan")
    /\ \/ planActive /\ Reads(c, tx[c], "restaurant")
       \/ ~planActive /\ Rollback(c)

AfterInsert(op, row) ==
    CASE row = "account" -> "choose plan"
      [] row = "restaurant" -> "membership"
      [] row = "membership" -> IF op = "account" THEN "subscription" ELSE "tax"
      [] row = "subscription" -> "tax"
      [] row = "tax" -> "commit"

\* INSERT INTO accounts, restaurants, restaurant_users, account_subscriptions
\* or restaurant_tax_settings.
InsertRow(c) ==
    /\ pc[c] \in Row
    /\ Reads(c, [tx[c] EXCEPT !.written = @ \cup {pc[c]}], AfterInsert(tx[c].op, pc[c]))

-----------------------------------------------------------------------------
(* COMMIT                                                                  *)

\* Whatever rows have been inserted, and no others.
CommitRows(c) ==
    LET a == tx[c].account
        Rows(row) == IF row \in tx[c].written THEN 1 ELSE 0
        Into(row, S, x) == IF row \in tx[c].written THEN S \cup {x} ELSE S
    IN  /\ tx[c].op \in {"restaurant", "account"}
        /\ users' = users \cup tx[c].newUsers
        /\ accounts' = Into("account", accounts, a)
        /\ owner' = [owner EXCEPT ![a] = IF "account" \in tx[c].written THEN tx[c].login ELSE @]
        /\ restaurants' = [restaurants EXCEPT ![a] = @ + Rows("restaurant")]
        /\ taxed' = [taxed EXCEPT ![a] = @ + Rows("tax")]
        /\ members' = [members EXCEPT ![a] = Into("membership", @, tx[c].login)]
        /\ subscribed' = Into("subscription", subscribed, a)
        /\ billed' = Into("subscription", billed, a)
        /\ UNCHANGED tables

CommitLogin(c) ==
    /\ tx[c].op \in {"new login", "login"}
    /\ users' = users \cup tx[c].newUsers
    /\ members' = [members EXCEPT ![tx[c].account] = @ \cup {tx[c].login}]
    /\ UNCHANGED <<accounts, owner, restaurants, taxed, tables, subscribed, billed>>

CommitTable(c) ==
    /\ tx[c].op = "table"
    /\ tables' = [tables EXCEPT ![tx[c].account] = @ + 1]
    /\ UNCHANGED <<accounts, owner, users, restaurants, taxed, members, subscribed, billed>>

Commit(c) ==
    /\ At(c, "commit")
    /\ End(c)
    /\ CommitRows(c) \/ CommitLogin(c) \/ CommitTable(c)

-----------------------------------------------------------------------------
(* The platform: single transactions on rows of their own                  *)

Change ==
    /\ changes < MaxChanges
    /\ changes' = changes + 1
    /\ UNCHANGED <<accounts, owner, restaurants, taxed, members, tables, billed,
                   accountLock, pc, tx, setting>>

\* A new override refers to the account and so waits while its row is locked;
\* the UPDATE of one that is there does not.
SetAccountFeatureOverride(a, f, n) ==
    /\ Change
    /\ a \in accounts
    /\ override[a][f] # Unset \/ accountLock[a] = Nobody
    /\ override' = [override EXCEPT ![a][f] = n]
    /\ UNCHANGED <<users, plan, subscribed, planActive>>

DeleteAccountFeatureOverride(a, f) ==
    /\ Change
    /\ override[a][f] # Unset
    /\ override' = [override EXCEPT ![a][f] = Unset]
    /\ UNCHANGED <<users, plan, subscribed, planActive>>

UpdatePlanFeatures(f, n) ==
    /\ Change
    /\ plan' = [plan EXCEPT ![f] = n]
    /\ UNCHANGED <<users, override, subscribed, planActive>>

\* UpdateSubscriptionPlan: a plan that is no longer offered, or offered again.
UpdateSubscriptionPlan ==
    /\ Change
    /\ planActive' = ~planActive
    /\ UNCHANGED <<users, override, plan, subscribed>>

\* UpdateAccountSubscription with status "canceled": no handler waits for it.
CancelSubscription(a) ==
    /\ Change
    /\ subscribed' = subscribed \ {a}
    /\ UNCHANGED <<users, override, plan, planActive>>

\* CreatePlatformSupport: a user who is a member of no account.
CreatePlatformSupport(u) ==
    /\ Change
    /\ u \notin users
    /\ \A c \in Client : u \notin tx[c].newUsers
    /\ users' = users \cup {u}
    /\ UNCHANGED <<override, plan, subscribed, planActive>>

-----------------------------------------------------------------------------
(* The specification                                                       *)

Request(c) ==
    \E a \in Account :
        \/ CreateRestaurant(c, a)
        \/ AddTable(c, a)
        \/ \E u \in Login : \/ CreateRestaurantLogin(c, a, u)
                            \/ AddExistingRestaurantLogin(c, a, u)
                            \/ CreateCustomerAccount(c, a, u)

Step(c) ==
    \/ LockAccount(c) \/ ReadOverride(c) \/ ReadPlan(c)
    \/ CountRestaurants(c) \/ CountTables(c) \/ InsertTable(c)
    \/ InsertUser(c) \/ EnsureCapacity(c)
    \/ SelectPlan(c) \/ InsertRow(c)
    \/ Commit(c)

Platform ==
    \/ \E a \in Account, f \in Changeable, n \in Offered : SetAccountFeatureOverride(a, f, n)
    \/ \E a \in Account, f \in Changeable : DeleteAccountFeatureOverride(a, f)
    \/ \E f \in Changeable, n \in Offered : UpdatePlanFeatures(f, n)
    \/ UpdateSubscriptionPlan
    \/ \E a \in Account : CancelSubscription(a)
    \/ \E u \in Login : CreatePlatformSupport(u)

TenancyNext == Platform \/ \E c \in Client : Request(c) \/ Step(c) \/ Abort(c)

TenancySpec == TenancyInit /\ [][TenancyNext]_tenancyVars

-----------------------------------------------------------------------------
(* Properties                                                              *)

Statement == {"idle", "lock", "override", "plan", "count", "check", "user",
              "capacity", "choose plan", "commit"} \cup Row

TenancyTx == [op : {"none", "restaurant", "new login", "login", "table", "account"},
              account : Account, login : Login, count : Nat, limit : Nat,
              newUsers : SUBSET Login, written : SUBSET Row]

\* Rows and local variables have their types, and no lock outlives its request.
TenancyTypeOK ==
    /\ accounts \subseteq Account /\ owner \in [Account -> Login] /\ users \subseteq Login
    /\ restaurants \in [Account -> Nat] /\ taxed \in [Account -> Nat]
    /\ tables \in [Account -> Nat]
    /\ members \in [Account -> SUBSET Login]
    /\ override \in [Account -> [Feature -> Nat \cup {Unset}]]
    /\ plan \in [Feature -> Nat]
    /\ subscribed \subseteq Account /\ billed \subseteq Account /\ planActive \in BOOLEAN
    /\ accountLock \in [Account -> Client \cup {Nobody}]
    /\ \A a \in Account, c \in Client : accountLock[a] = c => tx[c].account = a /\ ~At(c, "idle")
    /\ pc \in [Client -> Statement] /\ tx \in [Client -> TenancyTx]
    /\ changes \in Nat /\ connections \in Nat /\ workload \in Workloads

\* The limit that CreateRestaurant has compared the count with is not exceeded
\* by its commit: nobody adds a restaurant before or between its INSERTs
\* (restaurants.go:95).
RestaurantLimitHolds ==
    \A c \in Client :
        pc[c] \in Row \cup {"commit"} /\ tx[c].op = "restaurant" =>
            restaurants[tx[c].account] + 1 <= tx[c].limit

\* A login that is new to an account is one of at most as many as its limit
\* said, although count and INSERT are two statements (team.go:104).
UserLimitHolds ==
    \A c \in Client :
        At(c, "commit") /\ tx[c].op \in {"new login", "login"} =>
            \/ tx[c].login \in members[tx[c].account]
            \/ Cardinality(members[tx[c].account]) < tx[c].limit

\* AddTable counts without a lock (tables.go:174), and so the limit is exceeded
\* by as many tables as there are other requests, and by no more.
TablesOvershootAtMost ==
    \A a \in Account : tables[a] <= PlanLimits["tables"] + Cardinality(Client) - 1

\* Whichever of the statements of CreateCustomerAccount is the last one to
\* succeed, an account is there with its owner's login, with a restaurant of
\* which the owner is a member (without which he could not sign in), with the tax
\* settings of all its restaurants and with a subscription, current or canceled,
\* or not at all (platform.go:329).
AccountsComplete ==
    \A a \in accounts :
        /\ owner[a] \in users /\ owner[a] \in members[a]
        /\ restaurants[a] >= 1 /\ taxed[a] = restaurants[a]
        /\ a \in billed

\* Every request ends, at the limit of connections too, where all of them hold
\* one and need another for GetLimit (tables.go:37).
EveryTenantRequestEnds == \A c \in Client : ~At(c, "idle") ~> At(c, "idle")

\* D25: a login is attached to one customer account at most (team.go:102).
LoginInOneAccount ==
    \A a, b \in accounts : a # b => members[a] \cap members[b] = {}

=============================================================================
