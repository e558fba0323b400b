----------------------------- MODULE OrderLines -----------------------------
(***************************************************************************)
(* What is on an order: its lines, the discounts of lines and order, the   *)
(* audit rows of discounts, the totals on the order row, and the invoice   *)
(* (internal/handlers/orders.go).  One takeaway order, opened by           *)
(* CreateOrder; several connections work on it at once.                    *)
(*                                                                         *)
(* Transactions are those of module OrderLifecycle: a statement reads the  *)
(* rows committed when it starts and the rows its own transaction wrote; a *)
(* write waits for the row's lock and then works on the newest version.    *)
(* RecalculateOrderTotals is five statements, between which others commit. *)
(* The invoice counter and the release of a table are in OrderLifecycle.   *)
(***************************************************************************)
EXTENDS Pricing, FiniteSetsExt

CONSTANTS
    Client,      \* connections that serve requests
    Item,        \* menu_items
    Line,        \* ids an INSERT INTO order_items may return (a bound)
    NoItem, NoLine,
    Nobody,      \* the holder of a free row lock
    Price,       \* menu_items.price, which no handler changes
    Kept,        \* lines the order has already, which nobody takes off
    MaxQuantity, \* nobody asks for more of a line (a bound)
    Asked,       \* discounts that are asked for
    Requests,    \* handlers that are called
    Tax          \* restaurant_tax_settings

ASSUME OrderLinesAssumptions ==
    /\ NoItem \notin Item /\ NoLine \notin Line /\ Nobody \notin Client
    /\ Price \in [Item -> Nat]
    /\ Kept \subseteq Line /\ IsFiniteSet(Line)
    /\ MaxQuantity \in Nat
    /\ Asked \subseteq ParsedDiscount
    /\ Requests \subseteq {"add", "quantity", "override", "discount", "close"}
    /\ Tax \in TaxSettings

VARIABLES
    order,       \* the committed row of orders
    lines,       \* committed order_items, by id
    adjustments, \* committed order_item_price_adjustments
    discounts,   \* committed order_discount_adjustments
    invoices,    \* the amounts of the committed invoices and payments
    orderLock,   \* the transaction that holds the row lock of the order
    lineLock,    \* ... of a line
    pc,          \* the next statement of each connection
    tx           \* request parameters, local variables, uncommitted writes

database == <<order, lines, adjustments, discounts, invoices>>
locks == <<orderLock, lineLock>>
vars == <<database, locks, pc, tx>>

-----------------------------------------------------------------------------
(* Rows and the initial state                                              *)

\* A row is "unwritten" in tx[c] when the transaction has not touched it.
LineState == {"none", "present", "deleted", "unwritten"}
LineRow == [state : LineState, item : Item \cup {NoItem}, quantity : Int,
            discount : Discount \cup {NoDiscount}, amount : Int]
OrderRow == [status : {"open", "closed", "unwritten"},
             chosen : Discount \cup {NoDiscount},
             subtotal : Int, discount : Int, tax : Int, total : Int]
AmountsRow == [subtotal : Int, discount : Int, tax : Int, total : Int]

Blank(state) == [state |-> state, item |-> NoItem, quantity |-> 0,
                 discount |-> NoDiscount, amount |-> 0]
NewLine(i) == [Blank("present") EXCEPT !.item = i, !.quantity = 1]
Present(row) == row.state = "present"

Amounts(row) == [subtotal |-> row.subtotal, discount |-> row.discount,
                 tax |-> row.tax, total |-> row.total]
WithAmounts(row, a) == [row EXCEPT !.subtotal = a.subtotal, !.discount = a.discount,
                                   !.tax = a.tax, !.total = a.total]

OrderIn(status) == [status |-> status, chosen |-> NoDiscount,
                    subtotal |-> 0, discount |-> 0, tax |-> 0, total |-> 0]

NoTx == [op |-> "none", line |-> NoLine, item |-> NoItem, action |-> "none",
         choice |-> NoDiscount, quantity |-> 0, todo |-> {}, subtotal |-> 0,
         lineDiscount |-> 0, totals |-> Amounts(OrderIn("unwritten")),
         order |-> OrderIn("unwritten"), lines |-> [l \in Line |-> Blank("unwritten")],
         adjusted |-> {}, audited |-> {}, invoiced |-> {}]

PresentIn(rows) == {l \in Line : Present(rows[l])}
Subtotal(rows) ==
    MapThenSumSet(LAMBDA l : rows[l].quantity * Price[rows[l].item], PresentIn(rows))
LineDiscounts(rows) == MapThenSumSet(LAMBDA l : rows[l].amount, PresentIn(rows))

\* The amounts of an order with these lines and this discount of its own.
TotalsOf(rows, chosen) == Totals(Subtotal(rows), LineDiscounts(rows), chosen, Tax)

\* The order is new, or has one line of each of some items.
Init ==
    /\ \E item \in [Kept -> Item] :
         /\ \A k, l \in Kept : item[k] = item[l] => k = l
         /\ lines = [l \in Line |-> IF l \in Kept THEN NewLine(item[l]) ELSE Blank("none")]
    /\ order = WithAmounts(OrderIn("open"), TotalsOf(lines, NoDiscount))
    /\ adjustments = {}
    /\ discounts = {}
    /\ invoices = {}
    /\ orderLock = Nobody
    /\ lineLock = [l \in Line |-> Nobody]
    /\ pc = [c \in Client |-> "idle"]
    /\ tx = [c \in Client |-> NoTx]

-----------------------------------------------------------------------------
(* Transactions and row locks                                              *)

At(c, statement) == pc[c] = statement
Goto(c, statement) == pc' = [pc EXCEPT ![c] = statement]

Grants(holder, c) == holder \in {Nobody, c}

OwnWrite(c, l) == tx[c].lines[l]

\* What c reads: the rows it wrote itself, else the committed ones.
Newest(c, l) == IF tx[c].lines[l].state # "unwritten" THEN tx[c].lines[l] ELSE lines[l]
Seen(c) == [l \in Line |-> Newest(c, l)]
SeenOrder(c) == IF tx[c].order.status # "unwritten" THEN tx[c].order ELSE order

Begin(c, op, request, first) ==
    /\ op \in Requests
    /\ At(c, "idle")
    /\ tx' = [tx EXCEPT ![c] = [request EXCEPT !.op = op]]
    /\ Goto(c, first)
    /\ UNCHANGED <<database, locks>>

End(c) ==
    /\ orderLock' = IF orderLock = c THEN Nobody ELSE orderLock
    /\ lineLock' = [l \in Line |-> IF lineLock[l] = c THEN Nobody ELSE lineLock[l]]
    /\ tx' = [tx EXCEPT ![c] = NoTx]
    /\ Goto(c, "idle")

RollbackKeepsLocks(c) ==
    /\ tx' = [tx EXCEPT ![c] = NoTx]
    /\ Goto(c, "idle")
    /\ UNCHANGED <<database, locks>>

\* The deferred tx.Rollback() of WithTx, after an error or when the request
\* context is cancelled.
Rollback(c) == End(c) /\ UNCHANGED database

Abort(c) == ~At(c, "idle") /\ Rollback(c)

\* Read only: the statement changes local variables.
Local(c, mine) == tx' = [tx EXCEPT ![c] = mine] /\ UNCHANGED <<database, locks>>

\* Write line l under its lock; mine is what else the transaction remembers.
WriteLine(c, l, row, mine) ==
    /\ Grants(lineLock[l], c)
    /\ lineLock' = [lineLock EXCEPT ![l] = c]
    /\ tx' = [tx EXCEPT ![c] = [mine EXCEPT !.lines[l] = row]]
    /\ UNCHANGED <<database, orderLock>>

\* Write the order row under its lock.
WriteOrder(c, row, mine) ==
    /\ Grants(orderLock, c)
    /\ orderLock' = c
    /\ tx' = [tx EXCEPT ![c] = [mine EXCEPT !.order = row]]
    /\ UNCHANGED <<database, lineLock>>

\* SELECT status FROM orders, without a lock.
OrderIsOpen == order.status = "open"

-----------------------------------------------------------------------------
(* AddOrderItem                                                            *)

Fresh(l) == lines[l].state = "none" /\ \A d \in Client : tx[d].line # l

LineOf(i) == {l \in Line : Present(lines[l]) /\ lines[l].item = i}

\* l is the id of the line, if it comes to an INSERT.
AddOrderItem(c, i, l) ==
    /\ OrderIsOpen
    /\ Fresh(l)
    /\ \A k \in LineOf(i) : lines[k].quantity < MaxQuantity
    /\ Begin(c, "add", [NoTx EXCEPT !.item = i, !.line = l], "findLine")

\* SELECT id, quantity FROM order_items ... AND menu_item_id: a line or none.
FindLine(c) ==
    /\ At(c, "findLine")
    /\ \/ LineOf(tx[c].item) = {} /\ Local(c, tx[c])
       \/ \E l \in LineOf(tx[c].item) : Local(c, [tx[c] EXCEPT !.line = l])
    /\ Goto(c, "addToLine")

\* UPDATE quantity = quantity + 1, which affects no row if the line has been
\* deleted meanwhile, or INSERT.
AddToLine(c) ==
    LET l == tx[c].line
        row == Newest(c, l)
    IN  /\ At(c, "addToLine")
        /\ \/ row.state = "none" /\ WriteLine(c, l, NewLine(tx[c].item), tx[c])
           \/ Present(row) /\ WriteLine(c, l, [row EXCEPT !.quantity = @ + 1], tx[c])
           \/ row.state = "deleted" /\ Local(c, tx[c])
        /\ Goto(c, "startLines")

-----------------------------------------------------------------------------
(* UpdateItemQty                                                           *)

UpdateItemQty(c, l, action) ==
    /\ OrderIsOpen
    /\ lines[l].state # "none"
    /\ l \in Kept => action = "inc"
    /\ action = "inc" => lines[l].quantity < MaxQuantity
    /\ Begin(c, "quantity", [NoTx EXCEPT !.line = l, !.action = action], "readQuantity")

ReadQuantity(c) ==
    /\ At(c, "readQuantity")
    /\ \/ /\ Present(lines[tx[c].line])
          /\ Local(c, [tx[c] EXCEPT !.quantity = lines[tx[c].line].quantity])
          /\ Goto(c, "writeQuantity")
       \/ ~Present(lines[tx[c].line]) /\ Rollback(c)

\* The choice between the statements rests on the quantity read before; the
\* statements work on the newest row.  DELETE cascades to the adjustments.
WriteQuantity(c) ==
    LET l == tx[c].line
        row == lines[l]
    IN  /\ At(c, "writeQuantity")
        /\ \/ /\ Present(row)
              /\ tx[c].action = "inc"
              /\ WriteLine(c, l, [row EXCEPT !.quantity = @ + 1], tx[c])
           \/ /\ Present(row)
              /\ tx[c].action = "dec" /\ tx[c].quantity > 1
              /\ WriteLine(c, l, [row EXCEPT !.quantity = @ - 1], tx[c])
           \/ /\ Present(row)
              /\ tx[c].action = "remove" \/ (tx[c].action = "dec" /\ tx[c].quantity <= 1)
              /\ WriteLine(c, l, Blank("deleted"), tx[c])
           \/ ~Present(row) /\ Local(c, tx[c])
        /\ Goto(c, "startLines")

-----------------------------------------------------------------------------
(* OverrideItemPrice                                                       *)

\* One SELECT joins line and order.  A quantity of 0 panics in the division.
OverrideItemPrice(c, l, d) ==
    /\ OrderIsOpen
    /\ Present(lines[l]) /\ lines[l].quantity # 0
    /\ Begin(c, "override", [NoTx EXCEPT !.line = l, !.choice = d,
                                         !.quantity = lines[l].quantity], "writeDiscount")

NotAudited(l, d) == {}
AuditedBlank(l, d) == {[line |-> l, discount |-> NoDiscount]}

Audited(l, d) == {[line |-> l, discount |-> d]}

\* The UPDATE of the line and the INSERT of the audit row, which fails on its
\* foreign key when the line has been deleted meanwhile.
WriteDiscount(c) ==
    LET l == tx[c].line
        row == lines[l]
        amount == CalculateDiscount(tx[c].quantity * Price[row.item], tx[c].choice)
    IN  /\ At(c, "writeDiscount")
        /\ \/ /\ Present(row)
              /\ WriteLine(c, l, [row EXCEPT !.discount = tx[c].choice, !.amount = amount],
                           [tx[c] EXCEPT !.adjusted = Audited(l, tx[c].choice)])
              /\ Goto(c, "startLines")
           \/ ~Present(row) /\ Rollback(c)

-----------------------------------------------------------------------------
(* SetOrderDiscount: NoDiscount clears it                                  *)

SetOrderDiscount(c, d) ==
    /\ OrderIsOpen
    /\ Begin(c, "discount", [NoTx EXCEPT !.choice = d], "writeChoice")

WriteChoice(c) ==
    /\ At(c, "writeChoice")
    /\ WriteOrder(c, [SeenOrder(c) EXCEPT !.chosen = tx[c].choice], tx[c])
    /\ Goto(c, "startLines")

\* After RecalculateOrderTotals: the order's share of the discount, which has
\* a CHECK (>= 0), goes to the audit row.
AuditDiscount(c) ==
    LET amount == SeenOrder(c).discount - LineDiscounts(Seen(c))
    IN  /\ At(c, "audit")
        /\ amount >= 0
        /\ Local(c, [tx[c] EXCEPT !.audited = {[discount |-> tx[c].choice, amount |-> amount]}])
        /\ Goto(c, "commit")

-----------------------------------------------------------------------------
(* CloseOrder                                                              *)

CloseOrder(c) == Begin(c, "close", NoTx, "startLines")

\* After RecalculateOrderTotals, and so with the lock of the order: its
\* status and amounts are read, tax and total computed again, the order
\* closed, payment and invoice inserted.
CloseAndInvoice(c) ==
    LET row == SeenOrder(c)
        taxable == row.subtotal - row.discount
        closed == [row EXCEPT !.status = "closed", !.tax = TaxAmount(taxable, Tax),
                              !.total = TotalAmount(taxable, Tax)]
    IN  /\ At(c, "close")
        /\ \/ /\ row.status = "open"
              /\ WriteOrder(c, closed, [tx[c] EXCEPT !.invoiced = {Amounts(closed)}])
              /\ Goto(c, "commit")
           \/ row.status # "open" /\ Rollback(c)

-----------------------------------------------------------------------------
(* RecalculateOrderTotals                                                  *)

StartNoLines(c) ==
    /\ At(c, "startLines")
    /\ Local(c, tx[c])
    /\ Goto(c, "sum")

\* UPDATE order_items ... WHERE order_id: the lines there are when it starts.
StartLines(c) ==
    /\ At(c, "startLines")
    /\ Local(c, [tx[c] EXCEPT !.todo = PresentIn(Seen(c))])
    /\ Goto(c, IF PresentIn(Seen(c)) = {} THEN "sum" ELSE "updateLines")

KeptAmount(row) == row.amount

CurrentAmount(row) == LineDiscount(row.quantity, Price[row.item], row.discount)

\* discount_amount has a CHECK (>= 0), and the arithmetic is that of int4.
Computable(row) ==
    /\ CurrentAmount(row) >= 0
    /\ LineDiscountFits(row.quantity, Price[row.item], row.discount)

\* It locks and updates one of them after the other, in no particular order,
\* and skips those that have been deleted since.  A row it cannot compute is
\* an error, and so an Abort.
UpdateLine(c, l) ==
    LET row == Newest(c, l)
        updated == [row EXCEPT !.amount = CurrentAmount(row)]
        rest == [tx[c] EXCEPT !.todo = @ \ {l}]
    IN  /\ At(c, "updateLines")
        /\ l \in tx[c].todo
        /\ \/ Present(row) /\ Computable(row) /\ WriteLine(c, l, updated, rest)
           \/ ~Present(row) /\ Local(c, rest)
        /\ Goto(c, IF rest.todo = {} THEN "sum" ELSE "updateLines")

\* SELECT SUM(quantity * unit_price), SUM(discount_amount)
Sum(c) ==
    /\ At(c, "sum")
    /\ Local(c, [tx[c] EXCEPT !.subtotal = Subtotal(Seen(c)),
                              !.lineDiscount = LineDiscounts(Seen(c))])
    /\ Goto(c, "readChoice")

ReadCommittedChoice(c) ==
    /\ At(c, "readChoice")
    /\ Local(c, [tx[c] EXCEPT !.totals = Totals(tx[c].subtotal, tx[c].lineDiscount,
                                                order.chosen, Tax)])
    /\ Goto(c, "writeTotals")

\* SELECT discount_type, discount_value FROM orders, and the arithmetic.
ReadChoice(c) ==
    /\ At(c, "readChoice")
    /\ Local(c, [tx[c] EXCEPT !.totals = Totals(tx[c].subtotal, tx[c].lineDiscount,
                                                SeenOrder(c).chosen, Tax)])
    /\ Goto(c, "writeTotals")

\* UPDATE orders SET subtotal, discount_amount, tax_amount, total_amount
WriteTotals(c) ==
    /\ At(c, "writeTotals")
    /\ WriteOrder(c, WithAmounts(SeenOrder(c), tx[c].totals), tx[c])
    /\ Goto(c, CASE tx[c].op = "discount" -> "audit"
                 [] tx[c].op = "close" -> "close"
                 [] OTHER -> "commit")

-----------------------------------------------------------------------------
(* COMMIT, and the deadlock detector                                       *)

Commit(c) ==
    /\ At(c, "commit")
    /\ order' = SeenOrder(c)
    /\ lines' = Seen(c)
    /\ adjustments' = {a \in adjustments \cup tx[c].adjusted :
                         Newest(c, a.line).state # "deleted"}
    /\ discounts' = discounts \cup tx[c].audited
    /\ invoices' = invoices \cup tx[c].invoiced
    /\ End(c)

WantedLines(c) ==
    CASE pc[c] \in {"addToLine", "writeQuantity", "writeDiscount"} -> {tx[c].line}
      [] At(c, "updateLines") -> tx[c].todo
      [] OTHER -> {}

WaitsFor(c, d) ==
    /\ c # d
    /\ \/ \E l \in WantedLines(c) : lineLock[l] = d
       \/ pc[c] \in {"writeChoice", "writeTotals"} /\ orderLock = d

\* PostgreSQL aborts one of the transactions that wait for each other.
DeadlockVictim(c) ==
    /\ \E S \in SUBSET Client :
         c \in S /\ \A d \in S : \E e \in S : WaitsFor(d, e)
    /\ Rollback(c)

-----------------------------------------------------------------------------
(* The specification                                                       *)

Request(c) ==
    \/ \E i \in Item, l \in Line : AddOrderItem(c, i, l)
    \/ \E l \in Line, action \in {"inc", "dec", "remove"} : UpdateItemQty(c, l, action)
    \/ \E l \in Line, d \in Asked : OverrideItemPrice(c, l, d)
    \/ \E d \in Asked \cup {NoDiscount} : SetOrderDiscount(c, d)
    \/ CloseOrder(c)

Step(c) ==
    \/ FindLine(c) \/ AddToLine(c)
    \/ ReadQuantity(c) \/ WriteQuantity(c)
    \/ WriteDiscount(c)
    \/ WriteChoice(c) \/ AuditDiscount(c)
    \/ CloseAndInvoice(c)
    \/ StartLines(c) \/ (\E l \in Line : UpdateLine(c, l))
    \/ Sum(c) \/ ReadChoice(c) \/ WriteTotals(c)
    \/ Commit(c)
    \/ DeadlockVictim(c)

Next == \E c \in Client : Request(c) \/ Step(c) \/ Abort(c)

Spec == Init /\ [][Next]_vars

\* As in OrderLifecycle: the waiters of a row are woken in their order, and a
\* deadlock is detected (deadlock_timeout).
Fairness == \A c \in Client : SF_vars(Step(c))

FairSpec == Spec /\ Fairness

-----------------------------------------------------------------------------
(* Properties                                                              *)

\* Rows, locks and statements keep their types.
TypeOK ==
    /\ order \in OrderRow /\ order.status # "unwritten"
    /\ lines \in [Line -> LineRow] /\ \A l \in Line : lines[l].state # "unwritten"
    /\ adjustments \subseteq [line : Line, discount : Discount]
    /\ discounts \subseteq [discount : Discount \cup {NoDiscount}, amount : Nat]
    /\ invoices \subseteq AmountsRow
    /\ orderLock \in Client \cup {Nobody}
    /\ lineLock \in [Line -> Client \cup {Nobody}]
    /\ \A c \in Client : tx[c].order \in OrderRow /\ tx[c].lines \in [Line -> LineRow]

\* The committed discount of every line is the one its quantity, price and
\* discount give: no change of a quantity leaves a stale discount behind.
LineDiscountsCurrent ==
    \A l \in PresentIn(lines) :
        lines[l].amount = LineDiscount(lines[l].quantity, Price[lines[l].item],
                                       lines[l].discount)

\* Every discount on a line or on the order has its audit row.
EveryDiscountAudited ==
    /\ \A l \in PresentIn(lines) :
         lines[l].discount # NoDiscount =>
             [line |-> l, discount |-> lines[l].discount] \in adjustments
    /\ order.chosen # NoDiscount => \E a \in discounts : a.discount = order.chosen

\* "RecalculateOrderTotals aggregates order_items prices to orders summary":
\* the committed totals are those of the committed lines and discounts.
TotalsMatchLines == Amounts(order) = TotalsOf(lines, order.chosen)

\* What a CloseOrder invoices is what is on the order when it commits.
BilledAsServed ==
    [][\A i \in invoices' \ invoices : i = TotalsOf(lines, order.chosen)']_vars

\* A SetOrderDiscount leaves exact totals, and its audit row holds the share of
\* the order in the discount, whatever runs beside it: it locks the order
\* before it reads the lines.
OrderDiscountExact ==
    [][\A c \in Client :
         tx[c].op = "discount" /\ At(c, "commit") /\ orderLock' = Nobody /\ order' = tx[c].order
         => /\ TotalsMatchLines'
            /\ \A a \in tx[c].audited : a.amount = order'.discount - LineDiscounts(lines')]_vars

\* Every request ends: when two of them wait for each other's rows, one is
\* rolled back and the other goes on.
EveryRequestEnds == \A c \in Client : ~At(c, "idle") ~> At(c, "idle")

\* "order is already closed": nothing changes the amounts of a closed order,
\* which are those of its invoice.
ClosedOrderFrozen == order.status = "closed" => Amounts(order) \in invoices

\* "Check if item already in order": one line per item.
OneLinePerItem == \A i \in Item : Cardinality(LineOf(i)) <= 1

\* "append-only audit log ... Nothing is overwritten or deleted".
AuditAppendOnly == [][adjustments \subseteq adjustments']_vars

=============================================================================
