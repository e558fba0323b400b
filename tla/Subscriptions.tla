--------------------------- MODULE Subscriptions ---------------------------
(***************************************************************************)
(* The subscription of one account: the platform sets it                   *)
(* (UpdateAccountSubscription, internal/handlers/platform_management.go),  *)
(* its owner pays for it (TriggerMockCheckout, billing.go).  Transactions  *)
(* are those of module OrderLifecycle.  account_subscriptions has a unique *)
(* index on account_id for the current ones only (docs/0002).              *)
(***************************************************************************)
EXTENDS Naturals

CONSTANTS
    Client,
    Row,      \* ids of rows of account_subscriptions (a bound)
    Plan,
    NoRow, Nobody

VARIABLES
    subscriptions, \* the committed rows
    payments,      \* committed payments: the plan that was paid
    rowLock, pc, tx

rows == <<subscriptions, payments>>
vars == <<rows, rowLock, pc, tx>>

Status == {"trialing", "active", "past_due", "canceled"}
IsCurrent(row) == row.status \in {"trialing", "active", "past_due"}

AnyPlan == CHOOSE p \in Plan : TRUE
Absent == [status |-> "none", plan |-> AnyPlan]
NoTx == [plan |-> AnyPlan, status |-> "none", row |-> NoRow,
         written |-> Absent, paid |-> {}]

\* A new customer is trialing; one made by hand may have no subscription.
Init ==
    /\ \E trial \in SUBSET Row :
         /\ \A r, s \in trial : r = s
         /\ subscriptions = [r \in Row |->
              IF r \in trial THEN [Absent EXCEPT !.status = "trialing"] ELSE Absent]
    /\ payments = {}
    /\ rowLock = [r \in Row |-> Nobody]
    /\ pc = [c \in Client |-> "idle"]
    /\ tx = [c \in Client |-> NoTx]

-----------------------------------------------------------------------------
(* Transactions                                                            *)

At(c, statement) == pc[c] = statement
Goto(c, statement) == pc' = [pc EXCEPT ![c] = statement]
Local(c, mine) == tx' = [tx EXCEPT ![c] = mine]

Current == {r \in Row : IsCurrent(subscriptions[r])}

End(c) ==
    /\ rowLock' = [r \in Row |-> IF rowLock[r] = c THEN Nobody ELSE rowLock[r]]
    /\ Local(c, NoTx)
    /\ Goto(c, "idle")

Rollback(c) == End(c) /\ UNCHANGED rows

Abort(c) == ~At(c, "idle") /\ Rollback(c)

Commit(c) ==
    /\ At(c, "commit")
    /\ subscriptions' = [r \in Row |-> IF r = tx[c].row THEN tx[c].written ELSE subscriptions[r]]
    /\ payments' = payments \cup tx[c].paid
    /\ End(c)

-----------------------------------------------------------------------------
(* UpdateAccountSubscription                                               *)

UpdateAccountSubscription(c, p, status) ==
    /\ At(c, "idle")
    /\ Local(c, [NoTx EXCEPT !.plan = p, !.status = status])
    /\ Goto(c, "find")
    /\ UNCHANGED <<rows, rowLock>>

\* SELECT ... status IN (current) FOR UPDATE: the row that its snapshot shows,
FindCurrent(c) ==
    /\ At(c, "find")
    /\ \/ Current = {} /\ UNCHANGED tx /\ Goto(c, "insert")
       \/ \E r \in Current : Local(c, [tx[c] EXCEPT !.row = r]) /\ Goto(c, "lock")
    /\ UNCHANGED <<rows, rowLock>>

\* for whose lock it waits, and which it looks at again: a row canceled
\* meanwhile is none.
LockCurrent(c) ==
    LET r == tx[c].row
    IN  /\ At(c, "lock")
        /\ rowLock[r] = Nobody
        /\ \/ /\ IsCurrent(subscriptions[r])
              /\ rowLock' = [rowLock EXCEPT ![r] = c]
              /\ Goto(c, "update")
              /\ UNCHANGED tx
           \/ /\ ~IsCurrent(subscriptions[r])
              /\ Local(c, [tx[c] EXCEPT !.row = NoRow])
              /\ Goto(c, "insert")
              /\ UNCHANGED rowLock
        /\ UNCHANGED rows

Wanted(c) == [status |-> tx[c].status, plan |-> tx[c].plan]

\* UPDATE ... WHERE id
UpdateCurrent(c) ==
    /\ At(c, "update")
    /\ Local(c, [tx[c] EXCEPT !.written = Wanted(c)])
    /\ Goto(c, "commit")
    /\ UNCHANGED <<rows, rowLock>>

Fresh(r) == subscriptions[r] = Absent /\ \A d \in Client : tx[d].row # r

\* Who may still commit or give up a current row keeps an INSERT waiting.
IndexUndecided(c) ==
    \E d \in Client \ {c} :
        \/ \E r \in Current : rowLock[r] = d
        \/ At(d, "commit") /\ IsCurrent(tx[d].written)

InsertWithoutIndex(c) ==
    /\ At(c, "insert")
    /\ \E r \in Row : Fresh(r) /\ Local(c, [tx[c] EXCEPT !.row = r, !.written = Wanted(c)])
    /\ Goto(c, "commit")
    /\ UNCHANGED <<rows, rowLock>>

\* INSERT, under the index one_active_subscription_per_account.
InsertSubscription(c) ==
    /\ At(c, "insert")
    /\ IsCurrent(Wanted(c)) => ~IndexUndecided(c)
    /\ \/ /\ IsCurrent(Wanted(c)) => Current = {}
          /\ \E r \in Row : Fresh(r) /\ Local(c, [tx[c] EXCEPT !.row = r, !.written = Wanted(c)])
          /\ Goto(c, "commit")
          /\ UNCHANGED <<rows, rowLock>>
       \/ IsCurrent(Wanted(c)) /\ Current # {} /\ Rollback(c)

-----------------------------------------------------------------------------
(* TriggerMockCheckout                                                     *)

TriggerMockCheckout(c, p) ==
    /\ At(c, "idle")
    /\ Local(c, [NoTx EXCEPT !.plan = p, !.paid = {p}])
    /\ Goto(c, "extend")
    /\ UNCHANGED <<rows, rowLock>>

\* INSERT ... ON CONFLICT (account_id): no unique index of the table covers
\* every row, and so PostgreSQL refuses the statement, whatever is in the table,
\* and with it the payment.
ExtendSubscription(c) == At(c, "extend") /\ Rollback(c)

-----------------------------------------------------------------------------
(* The specification                                                       *)

Next ==
    \E c \in Client :
        \/ \E p \in Plan, status \in Status : UpdateAccountSubscription(c, p, status)
        \/ FindCurrent(c) \/ LockCurrent(c) \/ UpdateCurrent(c) \/ InsertSubscription(c)
        \/ \E p \in Plan : TriggerMockCheckout(c, p)
        \/ ExtendSubscription(c)
        \/ Commit(c) \/ Abort(c)

-----------------------------------------------------------------------------
(* Properties                                                              *)

\* However updates, cancellations and first subscriptions meet, an account has
\* at most one current subscription, the one GetLimit reads, and a request that
\* has found it current keeps it so until it commits (platform_management.go:298).
OneCurrentSubscription ==
    /\ \A r, s \in Current : r = s
    /\ \A c \in Client, r \in Row : rowLock[r] = c => r \in Current

=============================================================================
