---------------------------- MODULE OrderLedger ----------------------------
(***************************************************************************)
(* What the order handlers promise, without transactions: an order is      *)
(* opened on a free table or as a takeaway, and closed once; closing it    *)
(* gives it the next invoice number, its position in the ledger.  Each is  *)
(* one atomic step.                                                        *)
(***************************************************************************)
EXTENDS Naturals, Sequences

CONSTANTS Order, Table, NoTable

VARIABLES
    status,  \* of each order
    seat,    \* the table of each order
    ledger   \* the invoiced orders, by invoice number

vars == <<status, seat, ledger>>

Init ==
    /\ status = [o \in Order |-> "none"]
    /\ seat = [o \in Order |-> NoTable]
    /\ ledger = <<>>

Free(t) == t = NoTable \/ \A o \in Order : ~(status[o] = "open" /\ seat[o] = t)

Open(o, t) ==
    /\ status[o] = "none"
    /\ Free(t)
    /\ status' = [status EXCEPT ![o] = "open"]
    /\ seat' = [seat EXCEPT ![o] = t]
    /\ UNCHANGED ledger

Close(o) ==
    /\ status[o] = "open"
    /\ status' = [status EXCEPT ![o] = "closed"]
    /\ ledger' = Append(ledger, o)
    /\ UNCHANGED seat

Next ==
    \E o \in Order :
        Close(o) \/ \E t \in Table \cup {NoTable} : Open(o, t)

Spec == Init /\ [][Next]_vars

=============================================================================
