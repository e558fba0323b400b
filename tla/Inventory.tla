----------------------------- MODULE Inventory -----------------------------
(***************************************************************************)
(* The stock of a restaurant and its audit trail                           *)
(* (internal/handlers/inventory.go), and the copy of the stock that        *)
(* CreateRestaurant makes for another one (restaurants.go).  Transactions  *)
(* are those of module OrderLifecycle.                                     *)
(*                                                                         *)
(* Quantities are NUMERIC(12,3).  Here they are integers, two of which     *)
(* make a thousandth: a request may name a half, and PostgreSQL rounds it, *)
(* away from zero, wherever it stores it.                                  *)
(***************************************************************************)
EXTENDS Integers

CONSTANTS
    Client, Nobody,
    Item,       \* ids an INSERT INTO inventory_items may return (a bound)
    Opening,    \* initial quantities (a bound)
    Change,     \* quantities of adjustments, with their sign (a bound)
    Limit,      \* no stored quantity reaches it: 10^9 in NUMERIC(12,3)
    MaxEntries  \* in the trail of an item (a bound)

VARIABLES
    items,      \* committed rows of inventory_items
    trail,      \* the committed rows of inventory_adjustments of each item
    untracked,  \* what an item was created with and has no row for
    itemLock, pc, tx

rows == <<items, trail, untracked>>
vars == <<rows, itemLock, pc, tx>>

NoItem == [state |-> "none", quantity |-> 0]
NoTrail == [entries |-> 0, halves |-> 0, sum |-> 0] \* halves: entries that were rounded
NoTx == [op |-> "none", item |-> CHOOSE i \in Item : TRUE, change |-> 0, write |-> NoItem]

Init ==
    /\ items = [i \in Item |-> NoItem]
    /\ trail = [i \in Item |-> NoTrail]
    /\ untracked = [i \in Item |-> 0]
    /\ itemLock = [i \in Item |-> Nobody]
    /\ pc = [c \in Client |-> "idle"]
    /\ tx = [c \in Client |-> NoTx]

-----------------------------------------------------------------------------
(* Numbers                                                                 *)

Down(n) == n - (n % 2)

\* A half is rounded away from zero.
Stored(n) == IF n >= 0 THEN Down(n + 1) ELSE -Down(1 - n)

Storable(n) == -Limit < Stored(n) /\ Stored(n) < Limit

Logged(old, change) ==
    [entries |-> old.entries + 1, halves |-> old.halves + (change % 2),
     sum |-> old.sum + Stored(change)]

-----------------------------------------------------------------------------
(* Transactions                                                            *)

At(c, statement) == pc[c] = statement
Goto(c, statement) == pc' = [pc EXCEPT ![c] = statement]

Begin(c, request, first) ==
    /\ At(c, "idle")
    /\ tx' = [tx EXCEPT ![c] = request]
    /\ Goto(c, first)
    /\ UNCHANGED <<rows, itemLock>>

End(c) ==
    /\ itemLock' = [i \in Item |-> IF itemLock[i] = c THEN Nobody ELSE itemLock[i]]
    /\ tx' = [tx EXCEPT ![c] = NoTx]
    /\ Goto(c, "idle")

Rollback(c) == End(c) /\ UNCHANGED rows

Abort(c) == ~At(c, "idle") /\ Rollback(c)

-----------------------------------------------------------------------------
(* Requests                                                                *)

Fresh(i) == items[i].state = "none" /\ \A c \in Client : tx[c].item = i => At(c, "idle")

\* A negative opening stock is stored, and logged by nobody.
AddInventoryItem(c, i, quantity) ==
    /\ Fresh(i)
    /\ Storable(quantity)
    /\ Begin(c, [op |-> "add", item |-> i, change |-> quantity,
                 write |-> [state |-> "kept", quantity |-> Stored(quantity)]], "commit")

\* INSERT ... SELECT of the source's rows: quantities, and no trail.
CopyItem(c, source, i) ==
    /\ Fresh(i)
    /\ items[source].state = "kept"
    /\ Begin(c, [op |-> "copy", item |-> i, change |-> 0, write |-> items[source]], "commit")

AdjustInventoryStock(c, i, change) ==
    /\ items[i].state # "none"
    /\ trail[i].entries < MaxEntries
    /\ Begin(c, [NoTx EXCEPT !.op = "adjust", !.item = i, !.change = change], "adjust")

DeleteInventoryItem(c, i) ==
    /\ items[i].state # "none"
    /\ Begin(c, [NoTx EXCEPT !.op = "delete", !.item = i], "delete")

-----------------------------------------------------------------------------
(* Statements                                                              *)

Locks(c) ==
    /\ itemLock[tx[c].item] = Nobody
    /\ itemLock' = [itemLock EXCEPT ![tx[c].item] = c]

Write(c, row) ==
    /\ tx' = [tx EXCEPT ![c].write = row]
    /\ Goto(c, "commit")
    /\ UNCHANGED rows

Added(c) == items[tx[c].item].quantity + tx[c].change

AdjustWithoutLock(c) ==
    /\ At(c, "adjust")
    /\ items[tx[c].item].state = "kept" /\ Storable(Added(c))
    /\ Write(c, [state |-> "kept", quantity |-> Stored(Added(c))])
    /\ UNCHANGED itemLock

AdjustAnyRow(c) ==
    /\ At(c, "adjust")
    /\ Locks(c) /\ Storable(Added(c))
    /\ Write(c, [items[tx[c].item] EXCEPT !.quantity = Stored(Added(c))])

\* UPDATE ... SET current_quantity = current_quantity + $1 ... AND deleted_at
\* IS NULL: it waits for the row and looks at it again.
Adjust(c) ==
    LET row == items[tx[c].item]
        accepted == row.state = "kept" /\ Storable(Added(c))
    IN  /\ At(c, "adjust")
        /\ \/ /\ accepted
              /\ Locks(c)
              /\ Write(c, [row EXCEPT !.quantity = Stored(Added(c))])
           \/ ~accepted /\ itemLock[tx[c].item] = Nobody /\ Rollback(c)

\* UPDATE ... SET deleted_at = now(), deleted or not
Delete(c) ==
    /\ At(c, "delete")
    /\ Locks(c)
    /\ Write(c, [items[tx[c].item] EXCEPT !.state = "deleted"])

\* With it the row of the trail, of an adjustment and of an opening stock above 0.
Commit(c) ==
    LET i == tx[c].item
        logs == tx[c].op = "adjust" \/ (tx[c].op = "add" /\ tx[c].change > 0)
        creates == tx[c].op \in {"add", "copy"}
    IN  /\ At(c, "commit")
        /\ items' = [items EXCEPT ![i] = tx[c].write]
        /\ trail' = IF logs THEN [trail EXCEPT ![i] = Logged(@, tx[c].change)] ELSE trail
        /\ untracked' = IF creates /\ ~logs
                        THEN [untracked EXCEPT ![i] = tx[c].write.quantity] ELSE untracked
        /\ End(c)

-----------------------------------------------------------------------------
(* The specification                                                       *)

Next ==
    \E c \in Client :
        \/ \E i \in Item :
            \/ \E quantity \in Opening : AddInventoryItem(c, i, quantity)
            \/ \E source \in Item : CopyItem(c, source, i)
            \/ \E change \in Change : AdjustInventoryStock(c, i, change)
            \/ DeleteInventoryItem(c, i)
        \/ Adjust(c) \/ Delete(c) \/ Commit(c) \/ Abort(c)

Spec == Init /\ [][Next]_vars

-----------------------------------------------------------------------------
(* Properties                                                              *)

\* The stock of an item is what it was created with and the sum of its trail,
\* however adjustments meet; only half thousandths, which are rounded twice,
\* may take the two apart, by a thousandth each (inventory.go:228).
StockFollowsTrail ==
    \A i \in Item :
        LET drift == items[i].quantity - untracked[i] - trail[i].sum
        IN  -2 * trail[i].halves <= drift /\ drift <= 2 * trail[i].halves

\* The trail and the stock of a deleted item are final: an adjustment that was
\* under way when the item was deleted does not count (inventory.go:229).
DeletedIsFinal ==
    [][\A i \in Item : items[i].state = "deleted" =>
         items'[i] = items[i] /\ trail'[i] = trail[i]]_rows

=============================================================================
