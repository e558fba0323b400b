------------------------ MODULE OrderLifecycleLedger ------------------------
(***************************************************************************)
(* OrderLifecycle implements OrderLedger: the committed rows, and nothing  *)
(* of a transaction before its COMMIT, are the state of the ledger.        *)
(***************************************************************************)
EXTENDS OrderLifecycle

\* The order that the invoice with number n was made out for.
Invoiced(n) == CHOOSE o \in Order : [order |-> o, number |-> n] \in invoices

Ledger == INSTANCE OrderLedger
    WITH status <- [o \in Order |-> orders[o].status],
         seat   <- [o \in Order |-> orders[o].table],
         ledger <- [n \in 1 .. counter |-> Invoiced(n)]

\* Concurrent requests with rollbacks and lock waits behave as if each had
\* opened or closed its order in one step: no step of any handler takes a
\* table twice, reopens or closes an order again, or skips an invoice number.
LedgerSpec == Ledger!Spec

=============================================================================
