--------------------- MODULE OrderLifecycleLedger_proofs ---------------------
(***************************************************************************)
(* OrderLifecycle implements OrderLedger, for any clients, orders, tables. *)
(* The refinement mapping is the one of OrderLifecycleLedger; the argument *)
(* is that of the inductive invariant: only a COMMIT changes the mapped    *)
(* state, and the locks held then make its reads current.                  *)
(***************************************************************************)
EXTENDS OrderLifecycleLedger, OrderLifecycle_proofs, SequenceTheorems

\* The mapped state: the status and the table of each order, the orders by
\* invoice number.
Status == [o \in Order |-> orders[o].status]
Seat == [o \in Order |-> orders[o].table]
Book == [n \in 1 .. counter |-> Invoiced(n)]

\* It is a sequence: there is an invoice for every number up to the counter.
BookIsKept ==
    /\ Book \in Seq(Order)
    /\ Len(Book) = counter
    /\ \A n \in 1 .. counter : [order |-> Book[n], number |-> n] \in invoices

\* Gapless numbers make the book a sequence.
LEMMA BookIsSequence == IInv => BookIsKept
<1> SUFFICES ASSUME IInv PROVE BookIsKept
  OBVIOUS
<1> USE DEF IInv, TypeInv, TypeOK
<1>1. ASSUME NEW n \in 1 .. counter
      PROVE  Invoiced(n) \in Order /\ [order |-> Invoiced(n), number |-> n] \in invoices
  <2>1. PICK i \in invoices : i.number = n
    BY DEF InvoiceNumbersGapless
  <2>2. i.order \in Order /\ i = [order |-> i.order, number |-> n]
    BY <2>1 DEF InvoiceRow
  <2>3. \E o \in Order : [order |-> o, number |-> n] \in invoices
    BY <2>2
  <2> QED
    BY <2>3 DEF Invoiced
<1>2. Book \in [1 .. counter -> Order]
  BY <1>1 DEF Book
<1>3. counter \in Nat
  OBVIOUS
<1>4. Book \in Seq(Order)
  BY <1>2, <1>3, SeqDef
<1>5. DOMAIN Book = 1 .. counter
  BY DEF Book
<1>6. Len(Book) = counter
  BY <1>3, <1>4, <1>5, LenProperties
<1> QED
  BY <1>1, <1>4, <1>6 DEF Book, BookIsKept

\* A sequence that is longer by one element is an Append.
LEMMA IsAppend ==
    ASSUME NEW S, NEW s \in Seq(S), NEW e \in S, NEW r \in Seq(S),
           Len(r) = Len(s) + 1, r[Len(s) + 1] = e, \A i \in 1 .. Len(s) : r[i] = s[i]
    PROVE  r = Append(s, e)
<1>1. /\ Append(s, e) \in Seq(S)
      /\ Len(Append(s, e)) = Len(s) + 1
      /\ \A i \in 1 .. Len(s) : Append(s, e)[i] = s[i]
      /\ Append(s, e)[Len(s) + 1] = e
  BY AppendProperties
<1>2. \A i \in 1 .. Len(r) : i \in 1 .. Len(s) \/ i = Len(s) + 1
  BY LenProperties
<1>3. \A i \in 1 .. Len(r) : r[i] = Append(s, e)[i]
  BY <1>1, <1>2
<1> QED
  BY <1>1, <1>3, SeqEqual

\* A commit of CreateOrder is Open or a stutter, one of CloseOrder is Close.
LEMMA CommitRefines ==
    ASSUME IInv, IInv', NEW c \in Client, Commit(c)
    PROVE  [Ledger!Next]_(Ledger!vars)
<1>0. BookIsKept /\ BookIsKept'
  BY BookIsSequence, PTL
<1> USE DEF IInv, TypeInv, TypeOK
<1> DEFINE o == tx[c].order
           t == tx[c].table
<1>1. CASE CommitClose(c)
  <2>1. /\ o \in Order
        /\ orders[o].status = "open"
        /\ orders' = [orders EXCEPT ![o].status = "closed"]
    BY <1>1 DEF CommitClose, Commit, ClientInv, HoldsOrder, Closing, Routed, OpenAt
  <2>2. /\ counter' = counter + 1
        /\ invoices' = invoices \cup {[order |-> o, number |-> counter + 1]}
    BY <1>1 DEF CommitClose, Commit, ClientInv, HoldsCounter, Numbered
  <2>3. Status' = [Status EXCEPT ![o] = "closed"] /\ Seat' = Seat
    BY <2>1 DEF Status, Seat, OrderRow
  <2>4. counter \in Nat /\ InvoiceNumbersGapless /\ InvoiceNumbersGapless'
    OBVIOUS
  <2>5. Book' = Append(Book, o)
    <3> HIDE DEF IInv, TypeInv, TypeOK, o
    <3>1. /\ Book \in Seq(Order) /\ Len(Book) = counter
          /\ Book' \in Seq(Order) /\ Len(Book') = counter + 1
      BY <1>0, <2>2 DEF BookIsKept
    <3>2. \A n \in 1 .. counter + 1 : [order |-> Book'[n], number |-> n] \in invoices'
      BY <1>0, <2>2 DEF BookIsKept
    <3>3. \A i, j \in invoices' : i.number = j.number => i = j
      BY <2>4 DEF InvoiceNumbersGapless
    <3>4. Book'[counter + 1] = o
      <4>1. [order |-> Book'[counter + 1], number |-> counter + 1] \in invoices'
        BY <2>4, <3>2
      <4>2. [order |-> o, number |-> counter + 1] \in invoices'
        BY <2>2
      <4> QED
        BY <3>3, <4>1, <4>2
    <3>5. ASSUME NEW n \in 1 .. counter PROVE Book'[n] = Book[n]
      <4>1. [order |-> Book'[n], number |-> n] \in invoices'
        BY <2>4, <3>2
      <4>2. [order |-> Book[n], number |-> n] \in invoices'
        BY <1>0, <2>2 DEF BookIsKept
      <4> QED
        BY <3>3, <4>1, <4>2
    <3> QED
      BY <2>1, <2>4, <3>1, <3>4, <3>5, IsAppend
  <2> QED
    BY <2>1, <2>3, <2>5 DEF Ledger!Next, Ledger!Close, Status, Seat, Book
<1>2. CASE CommitCreate(c)
  <2>1. Book' = Book
    BY <1>2 DEF CommitCreate, Book, Invoiced
  <2>2. CASE orders[o].status # "none"
    BY <1>2, <2>1, <2>2 DEF CommitCreate, Ledger!vars, Status, Seat, Book
  <2>3. CASE orders[o].status = "none"
    <3>1. /\ o \in Order /\ t \in Table \cup {NoTable}
          /\ t # NoTable => \A p \in Order : ~OpenAt(p, t)
          /\ orders' = [orders EXCEPT ![o] = [status |-> "open", table |-> t]]
      BY <1>2, <2>3 DEF CommitCreate, Commit, Routed, TxState, ClientInv, FoundTableEmpty,
          Seating, SeatingAnew, At
    <3>2. /\ Status' = [Status EXCEPT ![o] = "open"]
          /\ Seat' = [Seat EXCEPT ![o] = t]
      BY <3>1 DEF Status, Seat
    <3> QED
      BY <2>1, <2>3, <3>1, <3>2 DEF Ledger!Next, Ledger!Open, Ledger!Free, OpenAt, Status, Seat, Book
  <2> QED
    BY <2>2, <2>3
<1>3. CASE CommitCard(c)
  BY <1>3 DEF CommitCard, Ledger!vars, Invoiced
<1> QED
  BY <1>1, <1>2, <1>3 DEF Commit

\* What the handlers do concurrently, with rollbacks and lock waits, is what
\* the ledger does in single steps.
THEOREM ImplementsLedger == Spec => LedgerSpec
<1>1. Init => Ledger!Init
  <2> SUFFICES ASSUME Init PROVE Ledger!Init
    OBVIOUS
  <2>1. IInv
    BY InitIInv
  <2>2. Book = <<>>
    BY <2>1, BookIsSequence, EmptySeq DEF BookIsKept, Init
  <2> QED
    BY <2>2 DEF Ledger!Init, Init, Book
<1>2. IInv /\ IInv' /\ [Next]_vars => [Ledger!Next]_(Ledger!vars)
  <2> SUFFICES ASSUME IInv, IInv', [Next]_vars
               PROVE  [Ledger!Next]_(Ledger!vars)
    OBVIOUS
  <2>1. CASE UNCHANGED database
    BY <2>1 DEF database, Ledger!vars, Invoiced
  <2>2. CASE \E c \in Client : Commit(c)
    BY <2>2, CommitRefines
  <2> QED
    BY <2>1, <2>2, NothingCommitted DEF Next, vars, database
<1> QED
  BY Invariance, <1>1, <1>2, PTL DEF Spec, LedgerSpec, Ledger!Spec

=============================================================================
