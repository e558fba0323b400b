------------------------------ MODULE Reports ------------------------------
(***************************************************************************)
(* A report of a restaurant (ShowReports, ExportReportsCSV and             *)
(* ShowDashboard, internal/handlers/dashboard.go) that is compiled while   *)
(* orders are closed.  It is one transaction, but READ COMMITTED: each of  *)
(* its statements reads what is committed when it starts.                  *)
(*                                                                         *)
(* An order is counted in the revenue by closed_at, which CloseOrder takes *)
(* from Go's clock, and in the payments by created_at, which is PostgreSQL's*)
(* now(): the time its transaction began.  Both clocks are one here.  The  *)
(* figure of a query is the set of orders it adds up, or of the dishes it  *)
(* lists.  What is on a closed order is fixed: that AddOrderItem may still *)
(* add to one that is being closed is in module OrderLines.                *)
(***************************************************************************)
EXTENDS Naturals, Sequences, FiniteSetsExt

CONSTANTS
    Order,
    Dish,        \* names of menu_items, which stay when an item is deleted
    Quantity,    \* how many of each dish are on an order
    Categorised, \* dishes that have a category, deleted or not
    TopItems,    \* LIMIT 5
    MaxTime      \* a bound

VARIABLES
    now,
    orders,   \* committed rows, with closed_at and the payment's created_at
    closing,  \* the variables of the CloseOrder of an order, uncommitted
    exports,  \* GetLimit(account, "data_export") = 1
    pc,       \* the next query of the report
    report

vars == <<now, orders, closing, exports, pc, report>>

Time == 0 .. MaxTime

NotClosed == [status |-> "open", closedAt |-> 0, paidAt |-> 0]
NotClosing == [step |-> "idle", began |-> 0, closedAt |-> 0]

\* The queries whose figures are compared, in their order.
Query == <<"revenue", "discounts", "items", "categories", "payments">>

Nothing == [n \in 1 .. Len(Query) |-> {}]
NoReport == [kind |-> "none", from |-> 0, to |-> 0, found |-> Nothing, late |-> {}]

Init ==
    /\ now = 0
    /\ orders = [o \in Order |-> NotClosed]
    /\ closing = [o \in Order |-> NotClosing]
    /\ exports \in BOOLEAN
    /\ pc = 0
    /\ report = NoReport

DishesOf(o) == {d \in Dish : Quantity[o][d] > 0}
SoldIn(S) == UNION {DishesOf(o) : o \in S}
WithCategory(S) == {o \in S : DishesOf(o) \cap Categorised # {}}

Tick == now < MaxTime /\ now' = now + 1 /\ UNCHANGED <<orders, closing, exports, pc, report>>

-----------------------------------------------------------------------------
(* CloseOrder: module OrderLifecycle has its locks, here are its times     *)

BeginClose(o) ==
    /\ orders[o].status = "open" /\ closing[o].step = "idle"
    /\ closing' = [closing EXCEPT ![o] = [NotClosing EXCEPT !.step = "close", !.began = now]]
    /\ UNCHANGED <<now, orders, exports, pc, report>>

MarkClosed(o) ==
    /\ closing[o].step = "close"
    /\ closing' = [closing EXCEPT ![o].step = "commit", ![o].closedAt = now]
    /\ UNCHANGED <<now, orders, exports, pc, report>>

PaidOnCommit(o) == now

\* created_at DEFAULT now()
PaidAt(o) == closing[o].began

CommitClose(o) ==
    /\ closing[o].step = "commit"
    /\ orders' = [orders EXCEPT ![o] = [status |-> "closed", closedAt |-> closing[o].closedAt,
                                        paidAt |-> PaidAt(o)]]
    /\ closing' = [closing EXCEPT ![o] = NotClosing]
    /\ report' = IF pc = 0 THEN report ELSE [report EXCEPT !.late = @ \cup {o}]
    /\ UNCHANGED <<now, exports, pc>>

AbortClose(o) ==
    /\ closing[o].step # "idle"
    /\ closing' = [closing EXCEPT ![o] = NotClosing]
    /\ UNCHANGED <<now, orders, exports, pc, report>>

-----------------------------------------------------------------------------
(* The report                                                              *)

\* UpdatePlanFeatures, SetAccountFeatureOverride: module Tenancy has them.
ChangeFeature ==
    /\ exports' = ~exports
    /\ UNCHANGED <<now, orders, closing, pc, report>>

\* Dates come from the form, or are the last 30 days; the dashboard shows a day.
BeginReport(kind, from, to) ==
    /\ pc = 0
    /\ kind = "export" => exports
    /\ report' = [NoReport EXCEPT !.kind = kind, !.from = from, !.to = to]
    /\ pc' = 1
    /\ UNCHANGED <<now, orders, closing, exports>>

InRange(time) == report.from <= time /\ time < report.to

ClosedInRange == {o \in Order : orders[o].status = "closed" /\ InRange(orders[o].closedAt)}

PaidInRange == {o \in Order : orders[o].status = "closed" /\ InRange(orders[o].paidAt)}

\* The dashboard asks for the revenue only.
LastQuery == IF report.kind = "dashboard" THEN 1 ELSE Len(Query)

\* Without a limit all dishes sold, on the screen those sold most.
Sales(d) == MapThenSumSet(LAMBDA o : Quantity[o][d], ClosedInRange)

IsFull(listed) == report.kind = "screen" /\ Cardinality(listed) = TopItems

Listings ==
    LET sold == SoldIn(ClosedInRange)
    IN  {listed \in SUBSET sold :
            /\ IF report.kind = "screen" /\ Cardinality(sold) > TopItems
               THEN IsFull(listed) ELSE listed = sold
            /\ \A d \in listed, e \in sold \ listed : Sales(d) >= Sales(e)}

\* What a query may find.  That by category joins menu_categories, and so leaves
\* out dishes without one, and with them orders of nothing else.
Results(query) ==
    CASE query = "items" -> Listings
      [] query = "categories" -> {WithCategory(ClosedInRange)}
      [] query = "payments" -> {PaidInRange}
      [] OTHER -> {ClosedInRange}

RunQuery ==
    /\ pc \in 1 .. LastQuery
    /\ \E result \in Results(Query[pc]) : report' = [report EXCEPT !.found[pc] = result]
    /\ pc' = pc + 1
    /\ UNCHANGED <<now, orders, closing, exports>>

Complete == report.kind # "none" /\ pc = LastQuery + 1

\* It is shown, or given up: a query that fails fails those after it and COMMIT.
EndReport == pc # 0 /\ pc' = 0 /\ report' = NoReport /\ UNCHANGED <<now, orders, closing, exports>>

-----------------------------------------------------------------------------
(* The specification                                                       *)

Next ==
    \/ Tick
    \/ \E o \in Order : BeginClose(o) \/ MarkClosed(o) \/ CommitClose(o) \/ AbortClose(o)
    \/ ChangeFeature
    \/ \E kind \in {"screen", "export", "dashboard"}, from, to \in Time : BeginReport(kind, from, to)
    \/ RunQuery \/ EndReport

-----------------------------------------------------------------------------
(* Properties                                                              *)

\* The figures of a report, each from a query of its own, differ only for
\* reasons it can give (dashboard.go:187-260).  Discounts and categories count what
\* the revenue counts, but for orders closed while the report was compiled, and
\* the categories only dishes that have one.  All dishes of the revenue are listed,
\* or as many as there is room for, and no others but of those late orders.  An
\* order of the revenue is missing in the payments when its CloseOrder began before
\* the first day; one of the payments in the revenue when it is late, or was closed
\* after the last day.
ReportAddsUp ==
    Complete /\ report.kind # "dashboard" =>
        LET found(query) == report.found[CHOOSE n \in 1 .. Len(Query) : Query[n] = query]
            revenue == found("revenue")
            known == revenue \cup report.late
        IN  /\ revenue \subseteq found("discounts") /\ found("discounts") \subseteq known
            /\ WithCategory(revenue) \subseteq found("categories")
            /\ found("categories") \subseteq WithCategory(known)
            /\ SoldIn(revenue) \subseteq found("items") \/ IsFull(found("items"))
            /\ found("items") \subseteq SoldIn(known)
            /\ \A o \in revenue \ found("payments") : orders[o].paidAt < report.from
            /\ \A o \in found("payments") \ revenue :
                  o \in report.late \/ orders[o].closedAt >= report.to

=============================================================================
