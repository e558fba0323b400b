------------------------ MODULE OrderLifecycle_proofs ------------------------
(***************************************************************************)
(* Theorems about OrderLifecycle, for any number of clients, orders and    *)
(* tables.  The argument is one about row locks: what a transaction has    *)
(* read of a row it holds the lock of is still so when it commits, because *)
(* every write of the row needs the lock.  For the status of an order, the *)
(* invoice counter and the orders of a table this is part of IInv below.   *)
(***************************************************************************)
EXTENDS OrderLifecycle, TLAPS

-----------------------------------------------------------------------------
(* Types                                                                   *)

\* A request's local variables name an order and a table when the statement
\* that is next uses them.
Routed ==
    \A c \in Client :
        /\ pc[c] \in CreateStatement => tx[c].op = "create"
        /\ pc[c] \in CloseStatement => tx[c].op = "close"
        /\ pc[c] \in CardStatement => tx[c].op = "card"
        /\ tx[c].op \in {"create", "close"} => tx[c].order \in Order
        /\ pc[c] \in {"lockTable", "findOpen", "occupy", "findOther",
                      "releaseTable", "checkTable", "setTable"} => tx[c].table \in Table
        /\ tx[c].write # "keep" => tx[c].table \in Table
        /\ pc[c] \in {"recalculate", "markClosed", "takeNumber", "findOther"} =>
               tx[c].write = "keep"

TypeInv == TypeOK /\ Routed

\* The initial rows and local variables have their types.
LEMMA InitType == Init => TypeInv
<1> SUFFICES ASSUME Init PROVE TypeInv
  OBVIOUS
<1>1. NoTx \in TxState
  BY DEF NoTx, TxState
<1>2. TypeOK
  BY <1>1 DEF Init, TypeOK, OrderRow, Holder, TableStatus, Statement
<1>3. Routed
  BY DEF Init, Routed, NoTx, CreateStatement, CloseStatement, CardStatement
<1> QED
  BY <1>2, <1>3 DEF TypeInv

\* A request starts with well-typed parameters.
LEMMA RequestType ==
    ASSUME TypeInv, NEW c \in Client, Request(c)
    PROVE  TypeInv'
<1> USE ConstantAssumptions DEF TypeInv
<1>1. CASE \E t \in Table \cup {NoTable}, o \in Order : CreateOrder(c, t, o)
  <2>1. PICK t \in Table \cup {NoTable}, o \in Order : CreateOrder(c, t, o)
    BY <1>1
  <2>2. TypeOK'
    BY <2>1 DEF TypeOK, CreateOrder, Begin, Goto, NoTx, TxState, Statement, CreateStatement, database, locks
  <2>3. Routed'
    BY <2>1 DEF TypeOK, Routed, CreateOrder, Begin, Goto, NoTx, TxState, Statement, CreateStatement, CloseStatement, CardStatement
  <2> QED
    BY <2>2, <2>3
<1>2. CASE \E o \in Order : CloseOrder(c, o)
  <2>1. PICK o \in Order : CloseOrder(c, o)
    BY <1>2
  <2>2. TypeOK'
    BY <2>1 DEF TypeOK, CloseOrder, Begin, Goto, NoTx, TxState, Statement, CloseStatement, database, locks
  <2>3. Routed'
    BY <2>1 DEF TypeOK, Routed, CloseOrder, Begin, Goto, NoTx, TxState, Statement, CreateStatement, CloseStatement, CardStatement
  <2> QED
    BY <2>2, <2>3
<1>3. CASE \E t \in Table, s \in CardStatus : UpdateTableStatus(c, t, s)
  <2>1. PICK t \in Table, s \in CardStatus : UpdateTableStatus(c, t, s)
    BY <1>3
  <2>2. TypeOK'
    BY <2>1 DEF TypeOK, UpdateTableStatus, Begin, Goto, NoTx, TxState, Statement, CardStatement, database, locks
  <2>3. Routed'
    BY <2>1 DEF TypeOK, Routed, UpdateTableStatus, Begin, Goto, NoTx, TxState, Statement, CreateStatement, CloseStatement, CardStatement
  <2> QED
    BY <2>2, <2>3
<1> QED
  BY <1>1, <1>2, <1>3 DEF Request

\* The end of a transaction, by COMMIT or ROLLBACK, leaves well-typed locks
\* and local variables.
LEMMA EndType ==
    ASSUME TypeInv, NEW c \in Client, End(c)
    PROVE  /\ orderLock' \in [Order -> Holder]
           /\ tableLock' \in [Table -> Holder]
           /\ counterLock' \in Holder
           /\ pc' \in [Client -> Statement \cup {"idle"}]
           /\ tx' \in [Client -> TxState]
           /\ Routed'
<1>1. NoTx \in TxState
  BY DEF NoTx, TxState
<1>2. /\ orderLock' \in [Order -> Holder]
      /\ tableLock' \in [Table -> Holder]
      /\ counterLock' \in Holder
  BY DEF TypeInv, TypeOK, End, Holder
<1>3. /\ pc' \in [Client -> Statement \cup {"idle"}]
      /\ tx' \in [Client -> TxState]
  BY <1>1 DEF TypeInv, TypeOK, End, Goto
<1>4. Routed'
  BY DEF TypeInv, TypeOK, Routed, End, Goto, NoTx, CreateStatement, CloseStatement, CardStatement
<1> QED
  BY <1>2, <1>3, <1>4

\* Every statement, COMMIT and ROLLBACK keeps the types.
LEMMA StepType ==
    ASSUME TypeInv, NEW c \in Client, Step(c) \/ Abort(c)
    PROVE  TypeInv'
<1> USE ConstantAssumptions DEF TypeInv
<1>1. CASE LockTable(c)
  BY <1>1 DEF LockTable, TypeOK, Routed, At, Goto, TakeTableLock, Holder, Statement, CreateStatement, CloseStatement, CardStatement, database
<1>2. CASE FindOpenOrder(c)
  BY <1>2 DEF FindOpenOrder, TypeOK, Routed, At, Goto, TxState, Statement, CreateStatement, CloseStatement, CardStatement, database, locks
<1>3. CASE OccupyTable(c)
  BY <1>3 DEF OccupyTable, Occupying, TypeOK, Routed, At, Goto, TakeTableLock, Holder, TxState, TableStatus, Statement, CreateStatement, CloseStatement, CardStatement, database
<1>4. CASE InsertOrder(c)
  BY <1>4 DEF InsertOrder, TypeOK, Routed, At, Goto, Statement, CreateStatement, CloseStatement, CardStatement, database, locks
<1>5. CASE Recalculate(c)
  BY <1>5 DEF Recalculate, TypeOK, Routed, At, Goto, Holder, Statement, CreateStatement, CloseStatement, CardStatement, database
<1>6. CASE MarkClosed(c)
  BY <1>6 DEF MarkClosed, StillOpen, TypeOK, Routed, At, Goto, TxState, OrderRow, Statement, CreateStatement, CloseStatement, CardStatement, database, locks
<1>7. CASE RejectClosed(c) \/ Abort(c)
  BY <1>7, EndType DEF RejectClosed, Abort, Rollback, TypeOK, database
<1>8. CASE TakeNumber(c)
  BY <1>8 DEF TakeNumber, TypeOK, Routed, At, Goto, Holder, TxState, Statement, CreateStatement, CloseStatement, CardStatement, database
<1>9. CASE FindOther(c)
  BY <1>9 DEF FindOther, TypeOK, Routed, At, Goto, Statement, CreateStatement, CloseStatement, CardStatement, database, locks
<1>10. CASE ReleaseTable(c)
  BY <1>10 DEF ReleaseTable, TypeOK, Routed, At, Goto, TakeTableLock, Holder, TxState, TableStatus, Statement, CreateStatement, CloseStatement, CardStatement, database
<1>11. CASE CheckTable(c)
  BY <1>11 DEF CheckTable, TypeOK, Routed, At, Goto, TxState, TableStatus, Statement, CreateStatement, CloseStatement, CardStatement, database, locks
<1>12. CASE SetTable(c)
  BY <1>12 DEF SetTable, TypeOK, Routed, At, Goto, TakeTableLock, Holder, Statement, CreateStatement, CloseStatement, CardStatement, database
<1>13. CASE Commit(c)
  <2>1. tables' \in [Table -> TableStatus]
    BY <1>13 DEF Commit, WriteTable, TypeOK, Routed, TxState
  <2>2. CASE CommitCreate(c)
    BY <1>13, <2>1, <2>2, EndType DEF Commit, CommitCreate, TypeOK, Routed, OrderRow, TxState
  <2>3. CASE CommitClose(c)
    <3>1. orders' \in [Order -> OrderRow]
      BY <2>3 DEF CommitClose, TypeOK, Routed, OrderRow
    <3>2. payments' \in [Order -> Nat]
      BY <2>3 DEF CommitClose, TypeOK, Routed
    <3>3. counter' \in Nat /\ invoices' \subseteq InvoiceRow
      BY <2>3 DEF CommitClose, TypeOK, Routed, TxState, InvoiceRow
    <3> QED
      BY <1>13, <2>1, <3>1, <3>2, <3>3, EndType DEF Commit, TypeOK
  <2>4. CASE CommitCard(c)
    BY <1>13, <2>1, <2>4, EndType DEF Commit, CommitCard, TypeOK
  <2> QED
    BY <1>13, <2>2, <2>3, <2>4 DEF Commit
<1> QED
  BY <1>1, <1>2, <1>3, <1>4, <1>5, <1>6, <1>7, <1>8, <1>9, <1>10, <1>11, <1>12, <1>13 DEF Step

\* Rows, locks and local variables keep their types.
THEOREM TypeCorrect == Spec => []TypeOK
<1>1. TypeInv /\ [Next]_vars => TypeInv'
  <2> SUFFICES ASSUME TypeInv, [Next]_vars PROVE TypeInv'
    OBVIOUS
  <2>1. CASE Next
    BY <2>1, RequestType, StepType DEF Next
  <2>2. CASE UNCHANGED vars
    BY <2>2 DEF vars, database, locks, TypeInv, TypeOK, Routed
  <2> QED
    BY <2>1, <2>2
<1>2. TypeInv => TypeOK
  BY DEF TypeInv
<1> QED
  BY InitType, <1>1, <1>2, PTL DEF Spec

-----------------------------------------------------------------------------
(* The inductive invariant                                                 *)

\* c is past the check of the status and will commit a closed order.
Closing(c) ==
    \/ pc[c] \in {"takeNumber", "findOther", "releaseTable"}
    \/ At(c, "commit") /\ tx[c].op = "close"

\* c has taken an invoice number.
Numbered(c) ==
    \/ pc[c] \in {"findOther", "releaseTable"}
    \/ At(c, "commit") /\ tx[c].op = "close"

\* c has locked the table it opens an order on.
Seating(c) ==
    /\ \/ pc[c] \in {"findOpen", "occupy", "insertOrder"}
       \/ At(c, "commit") /\ tx[c].op = "create"
    /\ tx[c].table # NoTable

\* c has found no open order on its table and will commit a new one.
SeatingAnew(c) ==
    /\ Seating(c)
    /\ \/ At(c, "insertOrder")
       \/ ~At(c, "findOpen") /\ orders[tx[c].order].status = "none"

\* The order row is locked from the recalculation to the COMMIT, so the
\* status that was checked still holds.
HoldsOrder(c) ==
    /\ At(c, "markClosed") \/ Closing(c) => orderLock[tx[c].order] = c
    /\ Closing(c) => OpenAt(tx[c].order, tx[c].table)

\* Whoever has a number holds the counter, and it is the next number.
HoldsCounter(c) == Numbered(c) => counterLock = c /\ tx[c].number = counter + 1

HoldsTable(c) == Seating(c) => tableLock[tx[c].table] = c

FoundTableEmpty(c) == SeatingAnew(c) => \A o \in Order : ~OpenAt(o, tx[c].table)

ClientInv(c) == HoldsOrder(c) /\ HoldsCounter(c) /\ HoldsTable(c) /\ FoundTableEmpty(c)

IInv ==
    /\ TypeInv
    /\ \A c \in Client : ClientInv(c)
    /\ BilledOnce
    /\ InvoiceNumbersGapless
    /\ OneOpenOrderPerTable

\* Nobody has a lock or a number yet, and there is no order.
LEMMA InitIInv == Init => IInv
<1> SUFFICES ASSUME Init PROVE IInv
  OBVIOUS
<1>1. TypeInv
  BY InitType
<1>2. \A c \in Client : ClientInv(c)
  BY DEF Init, ClientInv, HoldsOrder, HoldsCounter, HoldsTable, FoundTableEmpty,
         Closing, Numbered, Seating, SeatingAnew, At
<1>3. BilledOnce /\ InvoiceNumbersGapless
  BY DEF Init, BilledOnce, InvoicesOf, InvoiceNumbersGapless
<1>4. OneOpenOrderPerTable
  BY DEF Init, OneOpenOrderPerTable, OpenAt
<1> QED
  BY <1>1, <1>2, <1>3, <1>4 DEF IInv

\* A step of c leaves the variables and the locks of the others alone.
LEMMA OthersKeep ==
    ASSUME TypeInv, NEW c \in Client, Request(c) \/ Step(c) \/ Abort(c),
           NEW d \in Client, d # c
    PROVE  /\ pc'[d] = pc[d] /\ tx'[d] = tx[d]
           /\ \A o \in Order : orderLock[o] = d => orderLock'[o] = d
           /\ \A t \in Table : tableLock[t] = d => tableLock'[t] = d
           /\ counterLock = d => counterLock' = d
<1> USE ConstantAssumptions DEF TypeInv, TypeOK
<1>1. CASE Request(c)
  BY <1>1 DEF Request, CreateOrder, CloseOrder, UpdateTableStatus, Begin, Goto, locks
<1>2. CASE LockTable(c) \/ OccupyTable(c) \/ ReleaseTable(c) \/ SetTable(c)
  BY <1>2 DEF LockTable, OccupyTable, ReleaseTable, SetTable, TakeTableLock, Grants, Goto
<1>3. CASE FindOpenOrder(c) \/ InsertOrder(c) \/ MarkClosed(c) \/ FindOther(c) \/ CheckTable(c)
  BY <1>3 DEF FindOpenOrder, InsertOrder, MarkClosed, FindOther, CheckTable, Goto, locks
<1>4. CASE Recalculate(c) \/ TakeNumber(c)
  BY <1>4 DEF Recalculate, TakeNumber, Grants, Goto
<1>5. CASE RejectClosed(c) \/ Abort(c) \/ Commit(c)
  BY <1>5 DEF RejectClosed, Abort, Commit, Rollback, End, Goto
<1> QED
  BY <1>1, <1>2, <1>3, <1>4, <1>5 DEF Step

\* Before its COMMIT, c changes no row ...
LEMMA NothingCommitted ==
    ASSUME NEW c \in Client, Request(c) \/ Step(c) \/ Abort(c), ~Commit(c)
    PROVE  UNCHANGED database
<1>1. CASE Request(c)
  BY <1>1 DEF Request, CreateOrder, CloseOrder, UpdateTableStatus, Begin
<1>2. CASE Step(c) \/ Abort(c)
  BY <1>2 DEF Step, LockTable, FindOpenOrder, OccupyTable, InsertOrder, Recalculate,
      MarkClosed, RejectClosed, TakeNumber, FindOther, ReleaseTable, CheckTable,
      SetTable, Abort, Rollback
<1> QED
  BY <1>1, <1>2

\* ... and what it learns about the rows it has locked is so.
LEMMA OwnStatement ==
    ASSUME IInv, NEW c \in Client, Request(c) \/ Step(c) \/ Abort(c), ~Commit(c)
    PROVE  ClientInv(c)'
<1> USE ConstantAssumptions DEF IInv, TypeInv, TypeOK, ClientInv, HoldsOrder, HoldsCounter,
        HoldsTable, FoundTableEmpty, Closing, Numbered, Seating, SeatingAnew, At, Goto, OpenAt
<1>1. CASE Request(c)
  <2>1. pc'[c] \in {"insertOrder", "lockTable", "recalculate", "checkTable", "setTable"}
    BY <1>1 DEF Request, CreateOrder, CloseOrder, UpdateTableStatus, Begin
  <2>2. pc'[c] = "insertOrder" => tx'[c].table = NoTable
    <3>1. CASE \E t \in Table \cup {NoTable}, o \in Order : CreateOrder(c, t, o)
      BY <3>1 DEF CreateOrder, Begin, NoTx
    <3>2. CASE ~\E t \in Table \cup {NoTable}, o \in Order : CreateOrder(c, t, o)
      BY <1>1, <3>2 DEF Request, CloseOrder, UpdateTableStatus, Begin
    <3> QED
      BY <3>1, <3>2
  <2> QED
    BY <2>1, <2>2
<1>2. CASE LockTable(c)
  BY <1>2 DEF LockTable, TakeTableLock, Routed, CreateStatement
<1>3. CASE FindOpenOrder(c)
  <2>1. /\ At(c, "findOpen") /\ pc'[c] = "occupy"
        /\ tx'[c].table = tx[c].table
        /\ UNCHANGED <<database, locks>>
    BY <1>3 DEF FindOpenOrder, TxState
  <2>2. HoldsTable(c)'
    BY <2>1 DEF Routed, CreateStatement, locks
  <2>3. FoundTableEmpty(c)'
    <3>1. CASE \A o \in Order : ~OpenAt(o, tx[c].table)
      BY <2>1, <3>1 DEF database
    <3>2. CASE \E o \in Order : OpenAt(o, tx[c].table)
      <4>1. PICK o \in Order : OpenAt(o, tx[c].table) /\ tx'[c].order = o
        BY <1>3, <3>2 DEF FindOpenOrder, TxState
      <4> QED
        BY <2>1, <4>1 DEF database
    <3> QED
      BY <3>1, <3>2
  <2> QED
    BY <2>1, <2>2, <2>3
<1>4. CASE OccupyTable(c)
  BY <1>4 DEF OccupyTable, Occupying, TakeTableLock, Routed, CreateStatement, database
<1>5. CASE InsertOrder(c)
  BY <1>5 DEF InsertOrder, Routed, CreateStatement, database, locks
<1>6. CASE Recalculate(c)
  BY <1>6 DEF Recalculate, Routed, CloseStatement, database
<1>7. CASE MarkClosed(c)
  BY <1>7 DEF MarkClosed, StillOpen, Routed, CloseStatement, TxState, database, locks
<1>8. CASE RejectClosed(c) \/ Abort(c)
  BY <1>8 DEF RejectClosed, Abort, Rollback, End
<1>9. CASE TakeNumber(c)
  BY <1>9 DEF TakeNumber, Routed, CloseStatement, database
<1>10. CASE FindOther(c)
  BY <1>10 DEF FindOther, Routed, CloseStatement, database, locks
<1>11. CASE ReleaseTable(c)
  BY <1>11 DEF ReleaseTable, TakeTableLock, Routed, CloseStatement, database
<1>12. CASE CheckTable(c) \/ SetTable(c)
  BY <1>12 DEF CheckTable, SetTable, TakeTableLock, Routed, CardStatement, database
<1> QED
  BY <1>1, <1>2, <1>3, <1>4, <1>5, <1>6, <1>7, <1>8, <1>9, <1>10, <1>11, <1>12 DEF Step

\* What a COMMIT does to the orders, by the kind of its request.
LEMMA CommittedOrders ==
    ASSUME IInv, NEW c \in Client, Commit(c)
    PROVE  \/ /\ tx[c].op = "close"
              /\ tx[c].order \in Order
              /\ orders[tx[c].order].status = "open"
              /\ orderLock[tx[c].order] = c
              /\ orders' = [orders EXCEPT ![tx[c].order].status = "closed"]
           \/ /\ tx[c].op = "create"
              /\ tx[c].order \in Order
              /\ orders[tx[c].order].status = "none"
              /\ tx[c].table # NoTable =>
                    /\ tableLock[tx[c].table] = c
                    /\ \A o \in Order : ~OpenAt(o, tx[c].table)
              /\ orders' = [orders EXCEPT ![tx[c].order] =
                               [status |-> "open", table |-> tx[c].table]]
           \/ orders' = orders
<1> USE DEF IInv, TypeInv, Routed, ClientInv
<1>1. At(c, "commit") /\ (CommitCreate(c) \/ CommitClose(c) \/ CommitCard(c))
  BY DEF Commit
<1>2. CASE CommitCreate(c)
  BY <1>1, <1>2 DEF CommitCreate, HoldsTable, FoundTableEmpty, Seating, SeatingAnew, At
<1>3. CASE CommitClose(c)
  BY <1>1, <1>3 DEF CommitClose, HoldsOrder, Closing, OpenAt
<1>4. CASE CommitCard(c)
  BY <1>4 DEF CommitCard
<1> QED
  BY <1>1, <1>2, <1>3, <1>4

\* The same, seen from the row of one order.
LEMMA CommittedRow ==
    ASSUME IInv, NEW c \in Client, Commit(c), NEW o \in Order
    PROVE  \/ orders'[o] = orders[o]
           \/ /\ o = tx[c].order /\ orderLock[o] = c
              /\ orders[o].status = "open"
              /\ orders'[o].status = "closed"
           \/ /\ o = tx[c].order
              /\ orders[o].status = "none"
              /\ orders'[o].status = "open"
              /\ \/ orders'[o].table = NoTable
                 \/ /\ orders'[o].table \in Table
                    /\ tableLock[orders'[o].table] = c
                    /\ \A p \in Order : ~OpenAt(p, orders'[o].table)
<1>1. orders \in [Order -> OrderRow] /\ tx[c].table \in Table \cup {NoTable}
  BY DEF IInv, TypeInv, TypeOK, TxState
<1>2. CASE o = tx[c].order
  <2>1. CASE orders' = [orders EXCEPT ![o].status = "closed"]
               /\ orderLock[o] = c /\ orders[o].status = "open"
    BY <1>1, <1>2, <2>1 DEF OrderRow
  <2>2. CASE /\ orders' = [orders EXCEPT ![o] = [status |-> "open", table |-> tx[c].table]]
             /\ orders[o].status = "none"
             /\ tx[c].table # NoTable =>
                    /\ tableLock[tx[c].table] = c
                    /\ \A p \in Order : ~OpenAt(p, tx[c].table)
    <3>1. orders'[o].status = "open" /\ orders'[o].table = tx[c].table
      BY <1>1, <2>2
    <3> QED
      BY <1>1, <1>2, <2>2, <3>1
  <2> QED
    BY <1>2, <2>1, <2>2, CommittedOrders
<1>3. CASE o # tx[c].order
  BY <1>1, <1>3, CommittedOrders
<1> QED
  BY <1>2, <1>3

\* A COMMIT does not invalidate what another transaction knows: it wrote rows
\* it had locked, or one that nobody else has.
LEMMA CommitKeepsOthers ==
    ASSUME IInv, NEW c \in Client, Commit(c), NEW d \in Client, d # c
    PROVE  ClientInv(d)'
<1> USE DEF IInv, TypeInv, TypeOK
<1>1. /\ pc'[d] = pc[d] /\ tx'[d] = tx[d]
      /\ \A o \in Order : orderLock[o] = d => orderLock'[o] = d
      /\ \A t \in Table : tableLock[t] = d => tableLock'[t] = d
      /\ counterLock = d => counterLock' = d
  BY OthersKeep DEF Step
<1>2. HoldsOrder(d)'
  <2>1. At(d, "markClosed") \/ Closing(d) =>
          /\ tx[d].order \in Order
          /\ orderLock[tx[d].order] = d
    BY DEF ClientInv, HoldsOrder, Closing, At, Routed, CloseStatement
  <2>2. Closing(d) => OpenAt(tx[d].order, tx[d].table)
    BY DEF ClientInv, HoldsOrder
  <2>3. Closing(d) => OpenAt(tx[d].order, tx[d].table)'
    BY <1>1, <2>1, <2>2, CommittedRow DEF OpenAt
  <2> QED
    BY <1>1, <2>1, <2>3 DEF HoldsOrder, Closing, At
<1>3. HoldsCounter(d)'
  <2>1. Numbered(d) => counterLock = d /\ tx[d].number = counter + 1
    BY DEF ClientInv, HoldsCounter
  <2>2. CommitClose(c) => counterLock = c
    BY DEF ClientInv, HoldsCounter, Numbered, Commit, CommitClose
  <2>3. CASE Numbered(d)
    <3>1. counter' = counter
      BY <2>1, <2>2, <2>3 DEF Commit, CommitCreate, CommitCard
    <3> QED
      BY <1>1, <2>1, <2>3, <3>1 DEF HoldsCounter
  <2>4. CASE ~Numbered(d)
    BY <1>1, <2>4 DEF HoldsCounter, Numbered, At
  <2> QED
    BY <2>3, <2>4
<1>4. HoldsTable(d)'
  <2>1. Seating(d) => tx[d].table \in Table
    BY DEF Seating, TxState
  <2> QED
    BY <1>1, <2>1 DEF ClientInv, HoldsTable, Seating, At
<1>5. FoundTableEmpty(d)'
  <2> SUFFICES ASSUME SeatingAnew(d)', NEW o \in Order
               PROVE  ~OpenAt(o, tx[d].table)'
    BY <1>1 DEF FoundTableEmpty
  <2>1. Seating(d) /\ tx[d].table \in Table
    BY <1>1 DEF SeatingAnew, Seating, At, TxState
  <2>2. SeatingAnew(d)
    <3>1. At(d, "insertOrder") \/ tx[d].order \in Order
      BY <2>1 DEF Routed, Seating, At, CreateStatement
    <3>2. \A p \in Order : orders'[p].status = "none" => orders[p].status = "none"
      BY CommittedRow
    <3> QED
      BY <1>1, <2>1, <3>1, <3>2 DEF SeatingAnew, Seating, At
  <2>3. tableLock[tx[d].table] = d /\ ~OpenAt(o, tx[d].table)
    BY <2>1, <2>2 DEF ClientInv, HoldsTable, FoundTableEmpty
  <2> QED
    BY <1>1, <2>1, <2>3, CommittedRow, ConstantAssumptions DEF OpenAt
<1> QED
  BY <1>2, <1>3, <1>4, <1>5 DEF ClientInv

\* A COMMIT leaves at most one open order on a table ...
LEMMA CommitKeepsOneOpen ==
    ASSUME IInv, NEW c \in Client, Commit(c)
    PROVE  OneOpenOrderPerTable'
<1> SUFFICES ASSUME NEW t \in Table, NEW o \in Order, NEW p \in Order,
                    OpenAt(o, t)', OpenAt(p, t)'
             PROVE  o = p
  BY DEF OneOpenOrderPerTable
<1>1. \A q \in Order : OpenAt(q, t)' =>
         \/ OpenAt(q, t)
         \/ q = tx[c].order /\ \A r \in Order : ~OpenAt(r, t)
  BY CommittedRow, ConstantAssumptions DEF OpenAt
<1> QED
  BY <1>1 DEF IInv, OneOpenOrderPerTable

\* ... and the next invoice for the order it closes.
LEMMA CommitKeepsBills ==
    ASSUME IInv, NEW c \in Client, Commit(c)
    PROVE  BilledOnce' /\ InvoiceNumbersGapless'
<1> USE DEF IInv, TypeInv, TypeOK
<1>1. CASE CommitClose(c)
  <2> DEFINE o == tx[c].order
             bill == [order |-> o, number |-> counter + 1]
  <2>1. /\ o \in Order
        /\ orders[o].status = "open"
        /\ orders' = [orders EXCEPT ![o].status = "closed"]
    BY <1>1, CommittedOrders DEF CommitClose, ClientInv, HoldsOrder, Closing, Commit, Routed, OpenAt
  <2>2. tx[c].number = counter + 1
    BY <1>1 DEF CommitClose, Commit, ClientInv, HoldsCounter, Numbered
  <2>3. /\ counter' = counter + 1
        /\ invoices' = invoices \cup {bill}
        /\ payments' = [payments EXCEPT ![o] = @ + 1]
    BY <1>1, <2>2 DEF CommitClose
  <2>4. BilledOnce'
    <3> SUFFICES ASSUME NEW p \in Order
                 PROVE  /\ payments'[p] = IF orders'[p].status = "closed" THEN 1 ELSE 0
                        /\ \A i, j \in InvoicesOf(p)' : i = j
                        /\ InvoicesOf(p)' # {} <=> orders'[p].status = "closed"
      BY DEF BilledOnce
    <3>1. CASE p = o
      <4>1. InvoicesOf(p) = {}
        BY <2>1, <3>1 DEF BilledOnce
      <4>2. InvoicesOf(p)' = {bill}
        BY <2>3, <3>1, <4>1 DEF InvoicesOf
      <4>3. payments[p] = 0
        BY <2>1, <3>1 DEF BilledOnce
      <4>4. orders'[p].status = "closed" /\ payments'[p] = 1
        BY <2>1, <2>3, <3>1, <4>3 DEF OrderRow
      <4> QED
        BY <4>2, <4>4
    <3>2. CASE p # o
      <4>1. InvoicesOf(p)' = InvoicesOf(p)
        BY <2>3, <3>2 DEF InvoicesOf
      <4>2. orders'[p] = orders[p] /\ payments'[p] = payments[p]
        BY <2>1, <2>3, <3>2
      <4> QED
        BY <4>1, <4>2 DEF BilledOnce
    <3> QED
      BY <3>1, <3>2
  <2>5. InvoiceNumbersGapless'
    <3>1. \A i \in invoices : i.number \in 1 .. counter
      BY DEF InvoiceNumbersGapless
    <3>2. {i.number : i \in invoices'} = 1 .. counter'
      <4>1. {i.number : i \in invoices'} = {i.number : i \in invoices} \cup {bill.number}
        <5> HIDE DEF bill
        <5> QED
          BY <2>3
      <4>2. bill.number = counter + 1
        OBVIOUS
      <4>3. 1 .. counter + 1 = (1 .. counter) \cup {counter + 1}
        OBVIOUS
      <4> QED
        BY <2>3, <4>1, <4>2, <4>3 DEF InvoiceNumbersGapless
    <3>3. \A i, j \in invoices' : i.number = j.number => i = j
      BY <2>3, <3>1 DEF InvoiceNumbersGapless
    <3> QED
      BY <3>2, <3>3 DEF InvoiceNumbersGapless
  <2> QED
    BY <2>4, <2>5
<1>2. CASE CommitCreate(c) \/ CommitCard(c)
  <2>1. UNCHANGED <<counter, invoices, payments>>
    BY <1>2 DEF CommitCreate, CommitCard
  <2>2. \A o \in Order : orders'[o].status = "closed" <=> orders[o].status = "closed"
    BY <1>2, CommittedOrders DEF CommitCreate, CommitCard, OrderRow
  <2> QED
    BY <2>1, <2>2 DEF BilledOnce, InvoicesOf, InvoiceNumbersGapless
<1> QED
  BY <1>1, <1>2 DEF Commit

\* The invariant is inductive.
LEMMA NextIInv == IInv /\ [Next]_vars => IInv'
<1> SUFFICES ASSUME IInv, [Next]_vars PROVE IInv'
  OBVIOUS
<1>1. ASSUME NEW c \in Client, Request(c) \/ Step(c) \/ Abort(c)
      PROVE  IInv'
  <2>1. TypeInv'
    BY <1>1, RequestType, StepType DEF IInv
  <2>2. CASE Commit(c)
    <3>1. ClientInv(c)'
      BY <2>2 DEF Commit, End, Goto, ClientInv, HoldsOrder, HoldsCounter, HoldsTable,
          FoundTableEmpty, Closing, Numbered, Seating, SeatingAnew, At, IInv, TypeInv, TypeOK
    <3>2. \A d \in Client : ClientInv(d)'
      BY <2>2, <3>1, CommitKeepsOthers
    <3> QED
      BY <2>1, <2>2, <3>2, CommitKeepsOneOpen, CommitKeepsBills DEF IInv
  <2>3. CASE ~Commit(c)
    <3>1. UNCHANGED database
      BY <1>1, <2>3, NothingCommitted
    <3>2. ClientInv(c)'
      BY <1>1, <2>3, OwnStatement
    <3>3. ASSUME NEW d \in Client, d # c PROVE ClientInv(d)'
      <4>1. /\ pc'[d] = pc[d] /\ tx'[d] = tx[d]
            /\ \A o \in Order : orderLock[o] = d => orderLock'[o] = d
            /\ \A t \in Table : tableLock[t] = d => tableLock'[t] = d
            /\ counterLock = d => counterLock' = d
        BY <1>1, <3>3, OthersKeep DEF IInv
      <4>2. At(d, "markClosed") \/ Closing(d) => tx[d].order \in Order
        BY DEF IInv, TypeInv, Routed, Closing, At, CloseStatement
      <4>3. Seating(d) => tx[d].table \in Table
        BY DEF IInv, TypeInv, TypeOK, Seating, TxState
      <4> QED
        BY <3>1, <4>1, <4>2, <4>3 DEF IInv, ClientInv, HoldsOrder, HoldsCounter, HoldsTable,
            FoundTableEmpty, Closing, Numbered, Seating, SeatingAnew, At, OpenAt, database
    <3>4. BilledOnce' /\ InvoiceNumbersGapless' /\ OneOpenOrderPerTable'
      BY <3>1 DEF IInv, BilledOnce, InvoicesOf, InvoiceNumbersGapless, OneOpenOrderPerTable,
          OpenAt, database
    <3> QED
      BY <2>1, <3>2, <3>3, <3>4 DEF IInv
  <2> QED
    BY <2>2, <2>3
<1>2. CASE UNCHANGED vars
  BY <1>2 DEF vars, database, locks, IInv, TypeInv, TypeOK, Routed, ClientInv, HoldsOrder,
      HoldsCounter, HoldsTable, FoundTableEmpty, Closing, Numbered, Seating, SeatingAnew, At,
      OpenAt, BilledOnce, InvoicesOf, InvoiceNumbersGapless, OneOpenOrderPerTable
<1> QED
  BY <1>1, <1>2 DEF Next

\* The locks of every transaction protect what it has read, and the bills,
\* numbers and tables of the committed orders are in order.
THEOREM Invariance == Spec => []IInv
  BY InitIInv, NextIInv, PTL DEF Spec

-----------------------------------------------------------------------------
(* The properties of OrderLifecycle                                        *)

\* Every order is billed when it is closed, once: CloseOrder decides on the
\* status under the lock that RecalculateOrderTotals has taken.
THEOREM OrdersAreBilledOnce == Spec => []BilledOnce
<1>1. IInv => BilledOnce
  BY DEF IInv
<1> QED
  BY Invariance, <1>1, PTL

\* The committed invoice numbers are 1, 2, ..., counter, without a gap or a
\* duplicate: the counter's row is locked until the invoice commits.
THEOREM InvoicesAreGapless == Spec => []InvoiceNumbersGapless
<1>1. IInv => InvoiceNumbersGapless
  BY DEF IInv
<1> QED
  BY Invariance, <1>1, PTL

\* No table has two open orders.
THEOREM OneOpenOrder == Spec => []OneOpenOrderPerTable
<1>1. IInv => OneOpenOrderPerTable
  BY DEF IInv
<1> QED
  BY Invariance, <1>1, PTL

\* The FOR UPDATE lock of CreateOrder keeps them out without the unique index.
THEOREM IndexNeverObjects == Spec => []TableLockSuffices
<1>1. IInv => TableLockSuffices
  <2> SUFFICES ASSUME IInv, NEW c \in Client, At(c, "insertOrder"), tx[c].table # NoTable
               PROVE  ~Indexed(c, tx[c].table)
    BY DEF TableLockSuffices
  <2>1. /\ tableLock[tx[c].table] = c
        /\ \A o \in Order : ~OpenAt(o, tx[c].table)
    BY DEF IInv, ClientInv, HoldsTable, FoundTableEmpty, Seating, SeatingAnew, At
  <2>2. ASSUME NEW d \in Client \ {c} PROVE ~Inserting(d, tx[c].table)
    BY <2>1 DEF IInv, ClientInv, HoldsTable, Seating, Inserting
  <2> QED
    BY <2>1, <2>2 DEF Indexed
<1> QED
  BY Invariance, <1>1, PTL

\* Although CloseOrder looks for other open orders before it waits for the
\* table's row, it never releases a table with an open order.
THEOREM OnlyEmptyTablesAreFreed == Spec => CheckoutFreesOnlyEmptyTables
<1> DEFINE Frees(c, t) ==
      /\ tx[c].op = "close" /\ At(c, "commit") /\ ~At(c, "commit")'
      /\ tables[t] # "available" /\ tables'[t] = "available"
<1>1. ASSUME IInv, [Next]_vars, NEW c \in Client, NEW t \in Table, Frees(c, t)
      PROVE  ~\E o \in Order : OpenAt(o, t)'
  <2>1. Commit(c)
    <3>1. PICK d \in Client : Request(d) \/ Step(d) \/ Abort(d)
      BY <1>1 DEF Next, vars, database
    <3>2. d = c
      BY <1>1, <3>1, OthersKeep DEF IInv, At
    <3> QED
      BY <1>1, <3>1, <3>2, NothingCommitted DEF database
  <2>2. CommitClose(c)
    BY <1>1, <2>1 DEF Commit, CommitCreate, CommitCard
  <2>3. t = tx[c].table
    BY <1>1, <2>1 DEF Commit, WriteTable, IInv, TypeInv, TypeOK
  <2>4. tx[c].order \in Order /\ OpenAt(tx[c].order, t)
    BY <1>1, <2>3 DEF IInv, TypeInv, Routed, ClientInv, HoldsOrder, Closing
  <2>5. ASSUME NEW o \in Order PROVE ~OpenAt(o, t)'
    <3>1. o # tx[c].order => ~OpenAt(o, t)
      BY <1>1, <2>4 DEF IInv, OneOpenOrderPerTable
    <3>2. orders'[tx[c].order].status = "closed"
      BY <1>1, <2>2, <2>4 DEF CommitClose, IInv, TypeInv, TypeOK, OrderRow
    <3>3. o # tx[c].order => orders'[o] = orders[o]
      BY <1>1, <2>2, <2>4 DEF CommitClose, IInv, TypeInv, TypeOK
    <3> QED
      BY <3>1, <3>2, <3>3 DEF OpenAt
  <2> QED
    BY <2>5
<1>2. IInv /\ [Next]_vars =>
        [\A c \in Client, t \in Table : Frees(c, t) => ~\E o \in Order : OpenAt(o, t)']_vars
  BY <1>1
<1> QED
  BY Invariance, <1>2, PTL DEF Spec, CheckoutFreesOnlyEmptyTables

-----------------------------------------------------------------------------
(* Tables are shown as occupied, as long as nobody uses the table card     *)

\* What a request will write to its table.
SeatInv ==
    /\ SeatedTableIsOccupied
    /\ \A c \in Client :
         /\ tx[c].op = "card" => tx[c].write = "occupied"
         /\ tx[c].op = "close" => tx[c].write \in {"keep", "available"}
         /\ Seating(c) /\ pc[c] \in {"insertOrder", "commit"} => tx[c].write = "occupied"

\* No step leaves a table with an open order that is not shown as occupied.
LEMMA NextSeatInv ==
    ASSUME IInv, CardStatus \subseteq {"occupied"}, SeatInv, [Next]_vars
    PROVE  SeatInv'
<1> USE DEF IInv, TypeInv, TypeOK
<1>1. ASSUME NEW c \in Client, Commit(c)
      PROVE  SeatedTableIsOccupied'
  <2> SUFFICES ASSUME NEW o \in Order, NEW t \in Table, OpenAt(o, t)'
               PROVE  tables'[t] = "occupied"
    BY DEF SeatedTableIsOccupied
  <2>1. tx[c].write # "keep" => tx[c].table \in Table
    BY DEF Routed
  <2>2. tables'[t] # tables[t] =>
          t = tx[c].table /\ tx[c].write # "keep" /\ tables'[t] = tx[c].write
    BY <1>1, <2>1 DEF Commit, WriteTable
  <2>3. CASE CommitCreate(c)
    <3>1. Seating(c) => tx[c].write = "occupied"
      BY <1>1, <2>3 DEF SeatInv, Commit, CommitCreate, At
    <3>2. t = tx[c].table => Seating(c)
      BY <1>1, <2>3, ConstantAssumptions DEF Commit, CommitCreate, Seating
    <3>3. CASE t = tx[c].table
      BY <1>1, <2>1, <3>1, <3>2, <3>3 DEF Commit, WriteTable
    <3>4. CASE t # tx[c].table
      <4>1. tables'[t] = tables[t]
        BY <2>2, <3>4
      <4>2. OpenAt(o, t)
        BY <2>3, <3>4 DEF CommitCreate, OpenAt
      <4> QED
        BY <4>1, <4>2 DEF SeatInv, SeatedTableIsOccupied
    <3> QED
      BY <3>3, <3>4
  <2>4. CASE CommitClose(c)
    <3>1. tx[c].order \in Order /\ OpenAt(tx[c].order, tx[c].table)
      BY <1>1, <2>4 DEF Commit, CommitClose, ClientInv, HoldsOrder, Closing, Routed
    <3>2. o # tx[c].order /\ OpenAt(o, t)
      BY <2>4, <3>1 DEF CommitClose, OpenAt, OrderRow
    <3>3. t # tx[c].table
      BY <3>1, <3>2 DEF OneOpenOrderPerTable
    <3> QED
      BY <2>2, <3>2, <3>3 DEF SeatInv, SeatedTableIsOccupied
  <2>5. CASE CommitCard(c)
    <3>1. OpenAt(o, t)
      BY <2>5 DEF CommitCard, OpenAt
    <3>2. tables'[t] # tables[t] => tables'[t] = "occupied"
      BY <2>2, <2>5 DEF CommitCard, SeatInv
    <3> QED
      BY <3>1, <3>2 DEF SeatInv, SeatedTableIsOccupied
  <2> QED
    BY <1>1, <2>3, <2>4, <2>5 DEF Commit
<1>2. ASSUME NEW c \in Client, Request(c) \/ Step(c) \/ Abort(c)
      PROVE  SeatInv'
  <2>1. SeatedTableIsOccupied'
    <3>1. CASE Commit(c)
      BY <1>1, <3>1
    <3>2. CASE ~Commit(c)
      <4>1. UNCHANGED database
        BY <1>2, <3>2, NothingCommitted
      <4> QED
        BY <4>1 DEF SeatInv, SeatedTableIsOccupied, OpenAt, database
    <3> QED
      BY <3>1, <3>2
  <2>2. ASSUME NEW d \in Client, d # c
        PROVE  pc'[d] = pc[d] /\ tx'[d] = tx[d]
    BY <1>2, <2>2, OthersKeep
  <2>3. /\ tx'[c].op = "card" => tx'[c].write = "occupied"
        /\ tx'[c].op = "close" => tx'[c].write \in {"keep", "available"}
        /\ Seating(c)' /\ pc'[c] \in {"insertOrder", "commit"} => tx'[c].write = "occupied"
    <3> USE DEF SeatInv, Seating, At, Goto, Routed, TxState
    <3>1. CASE Request(c)
      <4>1. CASE \E t \in Table \cup {NoTable}, o \in Order : CreateOrder(c, t, o)
        BY <4>1 DEF CreateOrder, Begin, NoTx
      <4>2. CASE \E o \in Order : CloseOrder(c, o)
        BY <4>2 DEF CloseOrder, Begin, NoTx
      <4>3. CASE \E t \in Table, status \in CardStatus : UpdateTableStatus(c, t, status)
        BY <4>3 DEF UpdateTableStatus, Begin, NoTx
      <4> QED
        BY <1>2, <3>1, <4>1, <4>2, <4>3 DEF Request
    <3>2. CASE LockTable(c) \/ FindOpenOrder(c) \/ OccupyTable(c) \/ InsertOrder(c)
      BY <3>2 DEF LockTable, FindOpenOrder, OccupyTable, Occupying, InsertOrder,
          TakeTableLock, CreateStatement
    <3>3. CASE Recalculate(c) \/ MarkClosed(c) \/ TakeNumber(c) \/ FindOther(c) \/ ReleaseTable(c)
      BY <3>3 DEF Recalculate, MarkClosed, TakeNumber, FindOther, ReleaseTable,
          TakeTableLock, CloseStatement
    <3>4. CASE CheckTable(c) \/ SetTable(c)
      BY <3>4 DEF CheckTable, SetTable, CardStatement
    <3>5. CASE RejectClosed(c) \/ Abort(c) \/ Commit(c)
      BY <3>5 DEF RejectClosed, Abort, Commit, Rollback, End, NoTx
    <3> QED
      BY <1>2, <3>1, <3>2, <3>3, <3>4, <3>5 DEF Step
  <2> QED
    BY <2>1, <2>2, <2>3 DEF SeatInv, Seating, At
<1>3. CASE UNCHANGED vars
  BY <1>3 DEF vars, database, SeatInv, SeatedTableIsOccupied, OpenAt, Seating, At
<1> QED
  BY <1>2, <1>3 DEF Next

\* As long as nobody sets a table to "available" or "reserved" by its card, a
\* table with an open order is shown as occupied: CreateOrder and CloseOrder
\* keep tables.status right by themselves, whatever runs beside them.
THEOREM SeatedTablesAreOccupied ==
    ASSUME CardStatus \subseteq {"occupied"}
    PROVE  Spec => []SeatedTableIsOccupied
<1>1. Init => SeatInv
  BY DEF Init, SeatInv, SeatedTableIsOccupied, OpenAt, NoTx, Seating, At
<1>2. IInv /\ SeatInv /\ [Next]_vars => SeatInv'
  BY NextSeatInv
<1>3. SeatInv => SeatedTableIsOccupied
  BY DEF SeatInv
<1> QED
  BY Invariance, <1>1, <1>2, <1>3, PTL DEF Spec

=============================================================================
