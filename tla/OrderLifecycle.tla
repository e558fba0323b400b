--------------------------- MODULE OrderLifecycle ---------------------------
(***************************************************************************)
(* The life of a dine-in or takeaway order of one restaurant: how an order *)
(* is opened on a table, closed, invoiced, and how its table is taken and  *)
(* released (internal/handlers/orders.go, tables.go).                      *)
(*                                                                         *)
(* Every handler runs in one database transaction (db.WithTx) under        *)
(* PostgreSQL's READ COMMITTED level.  One action is one statement, or a   *)
(* run of statements that touch only rows the transaction has locked:      *)
(*   - a statement reads what is committed when it starts;                 *)
(*   - a write, or SELECT ... FOR UPDATE, takes the row's lock, waits while*)
(*     another transaction holds it and keeps it to the end;               *)
(*   - writes become visible at COMMIT.  Until then this module keeps them *)
(*     in tx[c], so that a rollback only has to forget them.               *)
(* The amounts of an order, its lines and discounts are the business of    *)
(* module OrderLines.                                                      *)
(***************************************************************************)
EXTENDS Naturals

CONSTANTS
    Client,     \* connections that serve requests, one transaction at a time
    Order,      \* ids an INSERT INTO orders may return (bounds the history)
    Table,      \* dining tables of the restaurant
    NoTable,    \* table_id IS NULL: a takeaway order
    NoOrder,
    Nobody,     \* the holder of a free row lock
    CardStatus  \* statuses the table card asks UpdateTableStatus for

TableStatus == {"available", "occupied", "reserved"}

ASSUME ConstantAssumptions ==
    /\ NoTable \notin Table
    /\ NoOrder \notin Order
    /\ Nobody \notin Client
    /\ CardStatus \subseteq TableStatus

VARIABLES
    orders,      \* committed rows of orders
    tables,      \* committed tables.status
    counter,     \* restaurant_invoice_counters.last_number, 0 without a row
    invoices,    \* committed invoices
    payments,    \* number of committed order_payments rows of an order
    orderLock,   \* the transaction that holds the row lock of an order
    tableLock,   \* ... of a table
    counterLock, \* ... of the invoice counter
    pc,          \* the next statement of each connection
    tx           \* request parameters, local variables, uncommitted writes

database == <<orders, tables, counter, invoices, payments>>
locks == <<orderLock, tableLock, counterLock>>
vars == <<database, locks, pc, tx>>

-----------------------------------------------------------------------------
(* Row types and the initial state                                         *)

OrderRow == [status : {"none", "open", "closed"}, table : Table \cup {NoTable}]
InvoiceRow == [order : Order, number : Nat]
Holder == Client \cup {Nobody}

CreateStatement == {"lockTable", "findOpen", "occupy", "insertOrder"}
CloseStatement == {"recalculate", "markClosed", "takeNumber", "findOther", "releaseTable"}
CardStatement == {"checkTable", "setTable"}
Statement == CreateStatement \cup CloseStatement \cup CardStatement \cup {"commit"}

TxState ==
    [op     : {"none", "create", "close", "card"},
     order  : Order \cup {NoOrder},
     table  : Table \cup {NoTable},
     write  : TableStatus \cup {"keep"}, \* tables.status to commit
     number : Nat]                       \* invoice number taken

NoTx == [op |-> "none", order |-> NoOrder, table |-> NoTable,
         write |-> "keep", number |-> 0]

Init ==
    /\ orders = [o \in Order |-> [status |-> "none", table |-> NoTable]]
    /\ tables = [t \in Table |-> "available"]
    /\ counter = 0
    /\ invoices = {}
    /\ payments = [o \in Order |-> 0]
    /\ orderLock = [o \in Order |-> Nobody]
    /\ tableLock = [t \in Table |-> Nobody]
    /\ counterLock = Nobody
    /\ pc = [c \in Client |-> "idle"]
    /\ tx = [c \in Client |-> NoTx]

-----------------------------------------------------------------------------
(* Transactions and row locks                                              *)

\* A writer waits for a row that another transaction has locked.
Grants(holder, c) == holder \in {Nobody, c}

At(c, statement) == pc[c] = statement
Goto(c, statement) == pc' = [pc EXCEPT ![c] = statement]

Begin(c, request, first) ==
    /\ At(c, "idle")
    /\ tx' = [tx EXCEPT ![c] = request]
    /\ Goto(c, first)
    /\ UNCHANGED <<database, locks>>

\* The end of a transaction: its row locks are released.
End(c) ==
    /\ orderLock' = [o \in Order |-> IF orderLock[o] = c THEN Nobody ELSE orderLock[o]]
    /\ tableLock' = [t \in Table |-> IF tableLock[t] = c THEN Nobody ELSE tableLock[t]]
    /\ counterLock' = IF counterLock = c THEN Nobody ELSE counterLock
    /\ tx' = [tx EXCEPT ![c] = NoTx]
    /\ Goto(c, "idle")

RollbackKeepsLocks(c) ==
    /\ tx' = [tx EXCEPT ![c] = NoTx]
    /\ Goto(c, "idle")
    /\ UNCHANGED <<database, locks>>

\* The deferred tx.Rollback() of WithTx.
Rollback(c) == End(c) /\ UNCHANGED database

\* Any statement may fail, and the request context is cancelled when the
\* browser goes away: the transaction is rolled back wherever it is.
Abort(c) == ~At(c, "idle") /\ Rollback(c)

TakeTableLock(c) ==
    /\ Grants(tableLock[tx[c].table], c)
    /\ tableLock' = [tableLock EXCEPT ![tx[c].table] = c]
    /\ UNCHANGED <<orderLock, counterLock>>

OpenAt(o, t) == orders[o].status = "open" /\ orders[o].table = t

-----------------------------------------------------------------------------
(* CreateOrder                                                             *)

\* gen_random_uuid() returns an id no other row or transaction has.
Fresh(o) == orders[o].status = "none" /\ \A d \in Client : tx[d].order # o

CreateOrder(c, t, o) ==
    /\ Fresh(o)
    /\ Begin(c, [NoTx EXCEPT !.op = "create", !.order = o, !.table = t],
             IF t = NoTable THEN "insertOrder" ELSE "lockTable")

LockTableWithoutForUpdate(c) ==
    /\ At(c, "lockTable")
    /\ Goto(c, "findOpen")
    /\ UNCHANGED <<database, locks, tx>>

\* SELECT id FROM tables ... FOR UPDATE
LockTable(c) ==
    /\ At(c, "lockTable")
    /\ TakeTableLock(c)
    /\ Goto(c, "findOpen")
    /\ UNCHANGED <<database, tx>>

\* SELECT id FROM orders ... AND status = 'open': an open order is resumed.
FindOpenOrder(c) ==
    /\ At(c, "findOpen")
    /\ LET found == {o \in Order : OpenAt(o, tx[c].table)}
       IN  \/ found = {} /\ UNCHANGED tx
           \/ \E o \in found : tx' = [tx EXCEPT ![c].order = o]
    /\ Goto(c, "occupy")
    /\ UNCHANGED <<database, locks>>

OccupyingNothing(c) == tx[c]
OccupyingUnknown(c) == [tx[c] EXCEPT !.write = "seated"]

Occupying(c) == [tx[c] EXCEPT !.write = "occupied"]

\* UPDATE tables SET status = 'occupied'
OccupyTable(c) ==
    /\ At(c, "occupy")
    /\ TakeTableLock(c)
    /\ tx' = [tx EXCEPT ![c] = Occupying(c)]
    /\ Goto(c, IF orders[tx[c].order].status = "none" THEN "insertOrder" ELSE "commit")
    /\ UNCHANGED database

\* The order that c has inserted and not committed.
Inserting(c, t) ==
    /\ At(c, "commit")
    /\ tx[c].op = "create"
    /\ tx[c].table = t
    /\ orders[tx[c].order].status = "none"

\* An order the unique index one_open_order_per_table has for table t.
Indexed(c, t) ==
    \/ \E o \in Order : OpenAt(o, t)
    \/ \E d \in Client \ {c} : Inserting(d, t)

\* INSERT INTO orders: the index makes it wait, or fail (an Abort).
InsertOrder(c) ==
    /\ At(c, "insertOrder")
    /\ tx[c].table # NoTable => ~Indexed(c, tx[c].table)
    /\ Goto(c, "commit")
    /\ UNCHANGED <<database, locks, tx>>

-----------------------------------------------------------------------------
(* CloseOrder                                                              *)

CloseOrder(c, o) ==
    /\ orders[o].status # "none"
    /\ Begin(c, [NoTx EXCEPT !.op = "close", !.order = o], "recalculate")

\* RecalculateOrderTotals ends with UPDATE orders: the order row is locked.
Recalculate(c) ==
    /\ At(c, "recalculate")
    /\ Grants(orderLock[tx[c].order], c)
    /\ orderLock' = [orderLock EXCEPT ![tx[c].order] = c]
    /\ Goto(c, "markClosed")
    /\ UNCHANGED <<database, tableLock, counterLock, tx>>

AcceptAnyStatus(c) == TRUE

StillOpen(c) == orders[tx[c].order].status = "open"

\* SELECT table_id, ..., status, then the UPDATE to 'closed' and the INSERT
\* of the payment: one action, for the row they depend on is locked by c.
MarkClosed(c) ==
    /\ At(c, "markClosed")
    /\ StillOpen(c)
    /\ tx' = [tx EXCEPT ![c].table = orders[tx[c].order].table]
    /\ Goto(c, "takeNumber")
    /\ UNCHANGED <<database, locks>>

\* "order is already closed"
RejectClosed(c) == At(c, "markClosed") /\ ~StillOpen(c) /\ Rollback(c)

TakeNumberWithoutLock(c) ==
    /\ At(c, "takeNumber")
    /\ tx' = [tx EXCEPT ![c].number = counter + 1]
    /\ Goto(c, IF tx[c].table = NoTable THEN "commit" ELSE "findOther")
    /\ UNCHANGED <<database, locks>>

\* The upsert of the invoice counter, which takes the lock of its row, and
\* the INSERT of the invoice with the number it returned.
TakeNumber(c) ==
    /\ At(c, "takeNumber")
    /\ Grants(counterLock, c)
    /\ counterLock' = c
    /\ tx' = [tx EXCEPT ![c].number = counter + 1]
    /\ Goto(c, IF tx[c].table = NoTable THEN "commit" ELSE "findOther")
    /\ UNCHANGED <<database, orderLock, tableLock>>

\* NOT EXISTS (another open order of the table), as of the UPDATE's start.
FindOther(c) ==
    /\ At(c, "findOther")
    /\ Goto(c, IF \E o \in Order \ {tx[c].order} : OpenAt(o, tx[c].table)
               THEN "commit" ELSE "releaseTable")
    /\ UNCHANGED <<database, locks, tx>>

\* UPDATE tables SET status = 'available'.  If it waited for the row, the
\* subquery is evaluated again on the same snapshot.
ReleaseTable(c) ==
    /\ At(c, "releaseTable")
    /\ TakeTableLock(c)
    /\ tx' = [tx EXCEPT ![c].write = "available"]
    /\ Goto(c, "commit")
    /\ UNCHANGED database

-----------------------------------------------------------------------------
(* UpdateTableStatus                                                       *)

UpdateTableStatus(c, t, status) ==
    Begin(c, [NoTx EXCEPT !.op = "card", !.table = t, !.write = status],
          IF status = "available" THEN "checkTable" ELSE "setTable")

\* SELECT EXISTS (an open order of the table): it stays occupied then.
CheckTable(c) ==
    /\ At(c, "checkTable")
    /\ tx' = IF \E o \in Order : OpenAt(o, tx[c].table)
             THEN [tx EXCEPT ![c].write = "occupied"]
             ELSE tx
    /\ Goto(c, "setTable")
    /\ UNCHANGED <<database, locks>>

SetTable(c) ==
    /\ At(c, "setTable")
    /\ TakeTableLock(c)
    /\ Goto(c, "commit")
    /\ UNCHANGED <<database, tx>>

-----------------------------------------------------------------------------
(* COMMIT                                                                  *)

WriteTable(c) ==
    tables' = IF tx[c].write = "keep" THEN tables
              ELSE [tables EXCEPT ![tx[c].table] = tx[c].write]

\* A resumed order keeps its row, whatever became of it in the meantime.
CommitCreate(c) ==
    /\ tx[c].op = "create"
    /\ orders' = IF orders[tx[c].order].status # "none" THEN orders
                 ELSE [orders EXCEPT ![tx[c].order] =
                         [status |-> "open", table |-> tx[c].table]]
    /\ UNCHANGED <<counter, invoices, payments>>

CommitClose(c) ==
    /\ tx[c].op = "close"
    /\ orders' = [orders EXCEPT ![tx[c].order].status = "closed"]
    /\ counter' = tx[c].number
    /\ invoices' = invoices \cup {[order |-> tx[c].order, number |-> tx[c].number]}
    /\ payments' = [payments EXCEPT ![tx[c].order] = @ + 1]

CommitCard(c) == tx[c].op = "card" /\ UNCHANGED <<orders, counter, invoices, payments>>

Commit(c) ==
    /\ At(c, "commit")
    /\ CommitCreate(c) \/ CommitClose(c) \/ CommitCard(c)
    /\ WriteTable(c)
    /\ End(c)

-----------------------------------------------------------------------------
(* The specification                                                       *)

Request(c) ==
    \/ \E t \in Table \cup {NoTable}, o \in Order : CreateOrder(c, t, o)
    \/ \E o \in Order : CloseOrder(c, o)
    \/ \E t \in Table, status \in CardStatus : UpdateTableStatus(c, t, status)

Step(c) ==
    \/ LockTable(c) \/ FindOpenOrder(c) \/ OccupyTable(c) \/ InsertOrder(c)
    \/ Recalculate(c) \/ MarkClosed(c) \/ RejectClosed(c) \/ TakeNumber(c)
    \/ FindOther(c) \/ ReleaseTable(c)
    \/ CheckTable(c) \/ SetTable(c)
    \/ Commit(c)

Next == \E c \in Client : Request(c) \/ Step(c) \/ Abort(c)

Spec == Init /\ [][Next]_vars

\* PostgreSQL runs the statement a connection has sent, and wakes the waiters
\* of a row lock in the order of their arrival: no waiter starves.  Nothing
\* obliges a client to send a request or to go away.
Fairness == \A c \in Client : SF_vars(Step(c))

FairSpec == Spec /\ Fairness

-----------------------------------------------------------------------------
(* Properties                                                              *)

\* Rows, locks and local variables keep their types.
TypeOK ==
    /\ orders \in [Order -> OrderRow]
    /\ tables \in [Table -> TableStatus]
    /\ counter \in Nat
    /\ invoices \subseteq InvoiceRow
    /\ payments \in [Order -> Nat]
    /\ orderLock \in [Order -> Holder]
    /\ tableLock \in [Table -> Holder]
    /\ counterLock \in Holder
    /\ pc \in [Client -> Statement \cup {"idle"}]
    /\ tx \in [Client -> TxState]

InvoicesOf(o) == {i \in invoices : i.order = o}

\* An order is billed when it is closed, once: two CloseOrder requests for
\* the same order never both charge it, and a closed order always has its
\* invoice and its payment.
BilledOnce ==
    \A o \in Order :
        /\ payments[o] = IF orders[o].status = "closed" THEN 1 ELSE 0
        /\ \A i, j \in InvoicesOf(o) : i = j
        /\ InvoicesOf(o) # {} <=> orders[o].status = "closed"

\* The committed invoice numbers of the restaurant are 1, 2, ..., counter
\* without a gap or a duplicate, although transactions that had taken a
\* number are rolled back.
InvoiceNumbersGapless ==
    /\ {i.number : i \in invoices} = 1 .. counter
    /\ \A i, j \in invoices : i.number = j.number => i = j

\* The FOR UPDATE lock on the table alone keeps a second open order out: when
\* CreateOrder comes to its INSERT, the unique index has nothing to object.
TableLockSuffices ==
    \A c \in Client :
        At(c, "insertOrder") /\ tx[c].table # NoTable => ~Indexed(c, tx[c].table)

\* At most one committed open order per table.
OneOpenOrderPerTable ==
    \A t \in Table : \A o, p \in Order : OpenAt(o, t) /\ OpenAt(p, t) => o = p

\* When a CloseOrder commits the release of its table, no open order is left
\* on the table, although it looked for one before it waited for the row.
CheckoutFreesOnlyEmptyTables ==
    [][\A c \in Client, t \in Table :
         /\ tx[c].op = "close" /\ At(c, "commit") /\ ~At(c, "commit")'
         /\ tables[t] # "available" /\ tables'[t] = "available"
         => ~\E o \in Order : OpenAt(o, t)']_vars

\* A table with a committed open order is shown as occupied.
SeatedTableIsOccupied ==
    \A o \in Order, t \in Table : OpenAt(o, t) => tables[t] = "occupied"

\* Every request ends, with a commit or a rollback: no handler waits for ever
\* for a row, and no two of them wait for each other.
EveryRequestEnds == \A c \in Client : ~At(c, "idle") ~> At(c, "idle")

=============================================================================
