---------------------------- MODULE StaffRoster ----------------------------
(***************************************************************************)
(* The staff of a restaurant (internal/handlers/staff.go) and who of it an *)
(* order is assigned to (SetOrderStaff, orders.go).  Of CloseOrder, which  *)
(* module OrderLifecycle has in full, the lock on the order and the COMMIT *)
(* are here; transactions are those of that module.                        *)
(***************************************************************************)
EXTENDS Naturals

CONSTANTS
    Client, Nobody,
    Order,
    Staff,     \* ids an INSERT INTO restaurant_staff may return (a bound)
    Unassigned \* staff_id IS NULL

VARIABLES
    open,      \* orders with status = 'open'
    assigned,  \* orders.staff_id
    staff,     \* "none", "active" or "inactive"
    orderLock, pc, tx

rows == <<open, assigned, staff>>
vars == <<rows, orderLock, pc, tx>>

\* wasOpen, wasActive: what has been open or active at some moment of the
\* request, for the properties only.
NoTx == [op |-> "none", order |-> CHOOSE o \in Order : TRUE, member |-> Unassigned,
         wasOpen |-> {}, wasActive |-> {}]

Init ==
    /\ open = Order
    /\ assigned = [o \in Order |-> Unassigned]
    /\ staff = [s \in Staff |-> "none"]
    /\ orderLock = [o \in Order |-> Nobody]
    /\ pc = [c \in Client |-> "idle"]
    /\ tx = [c \in Client |-> NoTx]

-----------------------------------------------------------------------------
(* Transactions                                                            *)

At(c, statement) == pc[c] = statement
Goto(c, statement) == pc' = [pc EXCEPT ![c] = statement]

Active == {s \in Staff : staff[s] = "active"}

Begin(c, op, o, s, first) ==
    /\ At(c, "idle")
    /\ tx' = [tx EXCEPT ![c] = [op |-> op, order |-> o, member |-> s,
                                wasOpen |-> open, wasActive |-> Active]]
    /\ Goto(c, first)
    /\ UNCHANGED <<rows, orderLock>>

End(c) ==
    /\ orderLock' = [o \in Order |-> IF orderLock[o] = c THEN Nobody ELSE orderLock[o]]
    /\ tx' = [tx EXCEPT ![c] = NoTx]
    /\ Goto(c, "idle")

Rollback(c) == End(c) /\ UNCHANGED rows

Abort(c) == ~At(c, "idle") /\ Rollback(c)

Reads(c, next) == Goto(c, next) /\ UNCHANGED <<rows, orderLock, tx>>

LockOrder(c, next) ==
    /\ orderLock[tx[c].order] = Nobody
    /\ orderLock' = [orderLock EXCEPT ![tx[c].order] = c]
    /\ Goto(c, next)
    /\ UNCHANGED <<rows, tx>>

-----------------------------------------------------------------------------
(* The roster: transactions of one statement.  Staff is never deleted.     *)

SeenActive(s) ==
    [c \in Client |-> IF At(c, "idle") THEN tx[c] ELSE [tx[c] EXCEPT !.wasActive = @ \cup {s}]]

AddRestaurantStaff(s) ==
    /\ staff[s] = "none"
    /\ staff' = [staff EXCEPT ![s] = "active"]
    /\ tx' = SeenActive(s)
    /\ UNCHANGED <<open, assigned, orderLock, pc>>

UpdateRestaurantStaffStatus(s, status) ==
    /\ staff[s] # "none"
    /\ staff' = [staff EXCEPT ![s] = status]
    /\ tx' = IF status = "active" THEN SeenActive(s) ELSE tx
    /\ UNCHANGED <<open, assigned, orderLock, pc>>

-----------------------------------------------------------------------------
(* SetOrderStaff                                                           *)

SetOrderStaff(c, o, s) == Begin(c, "assign", o, s, "status")

\* SELECT status FROM orders
CheckStatus(c) ==
    LET next == IF tx[c].member = Unassigned THEN "assign" ELSE "member"
    IN  /\ At(c, "status")
        /\ \/ tx[c].order \in open /\ Reads(c, next)
           \/ tx[c].order \notin open /\ Rollback(c)

FindMember(c) ==
    /\ At(c, "member")
    /\ staff[tx[c].member] # "none"
    /\ Reads(c, "assign")

\* SELECT is_active FROM restaurant_staff
CheckMember(c) ==
    /\ At(c, "member")
    /\ \/ staff[tx[c].member] = "active" /\ Reads(c, "assign")
       \/ staff[tx[c].member] # "active" /\ Rollback(c)

\* UPDATE orders SET staff_id: it waits for the order, open or not by then.
Assign(c) == At(c, "assign") /\ LockOrder(c, "commit")

-----------------------------------------------------------------------------
(* CloseOrder, and COMMIT                                                  *)

CloseOrder(c, o) == o \in open /\ Begin(c, "close", o, Unassigned, "close")

CloseLocked(c) ==
    /\ At(c, "close")
    /\ \/ tx[c].order \in open /\ LockOrder(c, "commit")
       \/ tx[c].order \notin open /\ Rollback(c)

Commit(c) ==
    LET o == tx[c].order
    IN  /\ At(c, "commit")
        /\ \/ /\ tx[c].op = "assign"
              /\ assigned' = [assigned EXCEPT ![o] = tx[c].member]
              /\ UNCHANGED open
           \/ tx[c].op = "close" /\ open' = open \ {o} /\ UNCHANGED assigned
        /\ UNCHANGED staff
        /\ End(c)

-----------------------------------------------------------------------------
(* The specification                                                       *)

Next ==
    \/ \E s \in Staff :
        \/ AddRestaurantStaff(s)
        \/ \E status \in {"active", "inactive"} : UpdateRestaurantStaffStatus(s, status)
    \/ \E c \in Client :
        \/ \E o \in Order :
            \/ \E s \in Staff \cup {Unassigned} : SetOrderStaff(c, o, s)
            \/ CloseOrder(c, o)
        \/ CheckStatus(c) \/ CheckMember(c) \/ Assign(c)
        \/ CloseLocked(c)
        \/ Commit(c) \/ Abort(c)

-----------------------------------------------------------------------------
(* Properties                                                              *)

\* Whoever is assigned to an order has been active, and the order open, at
\* some moment of the request that commits the assignment, if not any more when
\* it does: SetOrderStaff locks neither of the rows it has looked at
\* (orders.go:591-607).
AssignedInTime ==
    [][\A o \in Order : assigned'[o] # assigned[o] =>
         \E c \in Client : /\ pc[c] = "commit" /\ pc'[c] = "idle"
                           /\ tx[c].order = o /\ o \in tx[c].wasOpen
                           /\ assigned'[o] \in tx[c].wasActive \cup {Unassigned}]_rows

=============================================================================
