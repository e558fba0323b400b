------------------------------- MODULE Office -------------------------------
(***************************************************************************)
(* The back office: the parts beside orders and limits, composed.  They    *)
(* share no row but those that a module names as external to it, and each  *)
(* serves its own requests whatever the others do.                         *)
(***************************************************************************)
EXTENDS Integers

CONSTANTS
    Client, Nobody,
    Row, Plan, NoRow,                                          \* Subscriptions
    Browser, User, Account, Restaurant, AccountOf, MemberOf, RoleOf, Lifetime, \* Access
    StockItem, Opening, Change, Limit, MaxEntries,             \* Inventory
    Category, Dish,                                            \* MenuCopy
    Order, Staff,                                              \* StaffRoster
    Reported, Quantity, Categorised, TopItems,                 \* Reports: its orders
    Feature, Forms,                                            \* Catalog
    MaxTime                                                    \* of Access and Reports

\* Nobody also stands for no staff, no category and no cookie.
ASSUME NobodyIsElse ==
    /\ Nobody \notin Client
    /\ NoRow \notin Row
ASSUME QuantitiesAreIntegers ==
    StockItem # {} /\ Opening \subseteq Int /\ Change \subseteq Int
ASSUME KeysAreOrdered == Feature \subseteq Nat
ASSUME DatesAreNumbers == MaxTime \in Nat

VARIABLES
    subscriptions, payments, rowLock, subPc, subTx,
    now, suspended, cookies, accessPc, req, barred,
    stock, trail, untracked, stockLock, stockPc, stockTx,
    categories, retired, menu, withdrawn, categoryOf, created, menuPc, copy, moments,
    open, assigned, staff, orderLock, rosterPc, rosterTx,
    clock, orders, closing, exports, reportPc, report,
    featureType, plan, grants, grantLock, catalogPc, catalogTx, saved, retyped

subVars == <<subscriptions, payments, rowLock, subPc, subTx>>
accessVars == <<now, suspended, cookies, accessPc, req, barred>>
stockVars == <<stock, trail, untracked, stockLock, stockPc, stockTx>>
menuVars == <<categories, retired, menu, withdrawn, categoryOf, created, menuPc, copy, moments>>
rosterVars == <<open, assigned, staff, orderLock, rosterPc, rosterTx>>
reportVars == <<clock, orders, closing, exports, reportPc, report>>
catalogVars == <<featureType, plan, grants, grantLock, catalogPc, catalogTx, saved, retyped>>

-----------------------------------------------------------------------------
(* The parts                                                               *)

Subs == INSTANCE Subscriptions WITH pc <- subPc, tx <- subTx

Sessions == INSTANCE Access WITH None <- Nobody, pc <- accessPc

Stock == INSTANCE Inventory WITH
    Item <- StockItem, items <- stock, itemLock <- stockLock, pc <- stockPc, tx <- stockTx

Menus == INSTANCE MenuCopy WITH Item <- Dish, Uncategorised <- Nobody, pc <- menuPc

Roster == INSTANCE StaffRoster WITH Unassigned <- Nobody, pc <- rosterPc, tx <- rosterTx

Report == INSTANCE Reports WITH Order <- Reported, now <- clock, pc <- reportPc

Plans == INSTANCE Catalog WITH type <- featureType, pc <- catalogPc, tx <- catalogTx

-----------------------------------------------------------------------------
(* The specification                                                       *)

Init ==
    /\ Subs!Init
    /\ Sessions!Init
    /\ Stock!Init
    /\ Menus!Init
    /\ Roster!Init
    /\ Report!Init
    /\ Plans!Init

SubscriptionPart ==
    /\ Subs!Next
    /\ UNCHANGED <<accessVars, stockVars, menuVars, rosterVars, reportVars, catalogVars>>

AccessPart ==
    /\ Sessions!Next
    /\ UNCHANGED <<subVars, stockVars, menuVars, rosterVars, reportVars, catalogVars>>

StockPart ==
    /\ Stock!Next
    /\ UNCHANGED <<subVars, accessVars, menuVars, rosterVars, reportVars, catalogVars>>

MenuPart ==
    /\ Menus!Next
    /\ UNCHANGED <<subVars, accessVars, stockVars, rosterVars, reportVars, catalogVars>>

RosterPart ==
    /\ Roster!Next
    /\ UNCHANGED <<subVars, accessVars, stockVars, menuVars, reportVars, catalogVars>>

ReportPart ==
    /\ Report!Next
    /\ UNCHANGED <<subVars, accessVars, stockVars, menuVars, rosterVars, catalogVars>>

CatalogPart ==
    /\ Plans!Next
    /\ UNCHANGED <<subVars, accessVars, stockVars, menuVars, rosterVars, reportVars>>

Next ==
    \/ SubscriptionPart \/ AccessPart \/ StockPart
    \/ MenuPart \/ RosterPart \/ ReportPart \/ CatalogPart

vars == <<subVars, accessVars, stockVars, menuVars, rosterVars, reportVars, catalogVars>>

Spec == Init /\ [][Next]_vars

-----------------------------------------------------------------------------
(* Properties of the parts                                                 *)

\* One current subscription per account, the one GetLimit reads.
OneCurrentSubscription == Subs!OneCurrentSubscription

\* Nobody acts in an account suspended ever since his request began.
BarredNeverActs == Sessions!BarredNeverActs

\* Whoever acts in a restaurant is a member of it, whatever the cookies say.
ActsAsMember == Sessions!ActsAsMember

\* The stock is the sum of the trail, and what it was created with.
StockFollowsTrail == Stock!StockFollowsTrail

\* No adjustment under way changes a deleted item or its trail.
DeletedIsFinal == Stock!DeletedIsFinal

\* A copied menu has all categories of one moment of the request, and all items
\* of the same or a later one.
CopyIsFresh == Menus!CopyIsFresh

\* Who is assigned was active, and the order open, during the request.
AssignedInTime == Roster!AssignedInTime

\* The figures of a report differ only by orders closed meanwhile or at the edges
\* of its range, by dishes without a category, and by those not among the top.
ReportAddsUp == Report!ReportAddsUp

\* A plan grants what was saved last, and saves do not wait for each other.
PlanSavedWhole == Plans!PlanSavedWhole

=============================================================================
