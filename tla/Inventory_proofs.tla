-------------------------- MODULE Inventory_proofs --------------------------
(***************************************************************************)
(* Proofs about module Inventory, for any items, connections, quantities   *)
(* and bounds: that the stock follows its trail, and that both are final   *)
(* once an item is deleted.                                                *)
(*                                                                         *)
(* That stock and trail differ by at most a thousandth for each half that  *)
(* was rounded is not inductive: the two are written when a transaction    *)
(* commits, from what its UPDATE has computed.  So the invariant says when *)
(* that is still current: an adjustment or a deletion holds the row from   *)
(* its UPDATE to its commit (Holding), a new row is seen by nobody else    *)
(* (Creating), and a request that waits for a row waits for one there is   *)
(* (Waiting).                                                              *)
(***************************************************************************)
EXTENDS Inventory, TLAPS

\* What the instance of Inventory is of.
InventoryAssumptions ==
    /\ Item # {}
    /\ Nobody \notin Client
    /\ Opening \subseteq Int /\ Change \subseteq Int

-----------------------------------------------------------------------------
(* Rounding                                                                *)

\* What is stored is a number of thousandths.
LEMMA StoredIsEven ==
    ASSUME NEW n \in Int PROVE Stored(n) \in Int /\ Stored(n) % 2 = 0
  BY DEF Stored, Down

\* A sum of a stored quantity and a change is rounded as the change is, but for
\* a half, which may be rounded one way in the one and another in the other.
LEMMA RoundingDrift ==
    ASSUME NEW q \in Int, q % 2 = 0, NEW d \in Int
    PROVE  /\ -2 * (d % 2) <= Stored(q + d) - q - Stored(d)
           /\ Stored(q + d) - q - Stored(d) <= 2 * (d % 2)
  BY DEF Stored, Down

-----------------------------------------------------------------------------
(* The invariant                                                           *)

StockRow == [state : {"none", "kept", "deleted"}, quantity : Int]

StockTrail == [entries : Nat, halves : Nat, sum : Int]

StockTx == [op : {"none", "add", "copy", "adjust", "delete"}, item : Item, change : Int,
            write : StockRow]

RowTypes ==
    /\ items \in [Item -> StockRow]
    /\ trail \in [Item -> StockTrail]
    /\ untracked \in [Item -> Int]

RequestTypes ==
    /\ itemLock \in [Item -> Client \cup {Nobody}]
    /\ pc \in [Client -> {"idle", "adjust", "delete", "commit"}]
    /\ tx \in [Client -> StockTx]

\* Quantities are stored, and an id without a row has no history.
Rounded ==
    \A i \in Item :
        /\ items[i].quantity % 2 = 0
        /\ items[i].state = "none" =>
             items[i].quantity = 0 /\ trail[i] = NoTrail /\ untracked[i] = 0

\* A request that waits for a row waits for one there is.
Waiting(c) ==
    pc[c] \in {"adjust", "delete"} => tx[c].op = pc[c] /\ items[tx[c].item].state # "none"

\* A new row is its transaction's alone until it commits.
Creating(c) ==
    pc[c] = "commit" /\ tx[c].op \in {"add", "copy"} =>
        /\ items[tx[c].item].state = "none"
        /\ tx[c].write.state = "kept"
        /\ tx[c].op = "add" => tx[c].write.quantity = Stored(tx[c].change)
        /\ \A d \in Client \ {c} : pc[d] # "idle" => tx[d].item # tx[c].item

\* A row that was updated is held, and so is still what the UPDATE found.
Holding(c) ==
    pc[c] = "commit" /\ tx[c].op \in {"adjust", "delete"} =>
        /\ itemLock[tx[c].item] = c
        /\ tx[c].op = "adjust" =>
             /\ items[tx[c].item].state = "kept" /\ tx[c].write.state = "kept"
             /\ tx[c].write.quantity = Stored(items[tx[c].item].quantity + tx[c].change)
        /\ tx[c].op = "delete" =>
             /\ items[tx[c].item].state # "none" /\ tx[c].write.state = "deleted"
             /\ tx[c].write.quantity = items[tx[c].item].quantity

\* What is to be committed is one of the four writes, and rounded.
Writing(c) ==
    pc[c] = "commit" => tx[c].op # "none" /\ tx[c].write.quantity % 2 = 0

Request(c) == Waiting(c) /\ Creating(c) /\ Holding(c) /\ Writing(c)

StockInv ==
    /\ RowTypes /\ RequestTypes /\ Rounded
    /\ \A c \in Client : Request(c)
    /\ StockFollowsTrail

\* A resting connection has a request of the right type.
LEMMA RestingType == ASSUME InventoryAssumptions PROVE NoTx \in StockTx
  BY DEF InventoryAssumptions, NoTx, StockTx, StockRow, NoItem

\* The invariant holds when the database is new.
LEMMA InitInvariant == ASSUME InventoryAssumptions, Init PROVE StockInv
<1>1. /\ \A i \in Item : items[i] = NoItem /\ trail[i] = NoTrail /\ untracked[i] = 0
      /\ \A c \in Client : pc[c] = "idle"
  BY DEF Init
<1>2. RowTypes
  BY DEF Init, RowTypes, StockRow, StockTrail, NoItem, NoTrail
<1>3. RequestTypes
  BY RestingType DEF Init, RequestTypes
<1>4. Rounded
  <2>1. 0 % 2 = 0
    OBVIOUS
  <2> QED
    BY <1>1, <2>1 DEF Rounded, NoItem
<1>5. \A c \in Client : Request(c)
  BY <1>1 DEF Request, Waiting, Creating, Holding, Writing
<1>6. StockFollowsTrail
  BY <1>1 DEF StockFollowsTrail, NoItem, NoTrail
<1> QED
  BY <1>2, <1>3, <1>4, <1>5, <1>6 DEF StockInv

-----------------------------------------------------------------------------
(* Steps that commit nothing                                               *)

\* A step of one connection that changes no row keeps the invariant if its own
\* request is sound after it, takes no row from others and no id that is new.
LEMMA NothingCommitted ==
    ASSUME StockInv, NEW c \in Client, NEW mine \in StockTx,
           NEW next \in {"idle", "adjust", "delete", "commit"},
           UNCHANGED rows,
           tx' = [tx EXCEPT ![c] = mine], pc' = [pc EXCEPT ![c] = next],
           itemLock' \in [Item -> Client \cup {Nobody}],
           \A i \in Item, d \in Client \ {c} : itemLock[i] = d => itemLock'[i] = d,
           \A d \in Client \ {c} :
               /\ next # "idle" /\ pc[d] = "commit" /\ tx[d].op \in {"add", "copy"} =>
                    mine.item # tx[d].item,
           Request(c)'
    PROVE  StockInv'
<1>1. /\ UNCHANGED <<items, trail, untracked>>
      /\ pc'[c] = next /\ tx'[c] = mine
      /\ \A d \in Client \ {c} : pc'[d] = pc[d] /\ tx'[d] = tx[d]
      /\ \A d \in Client : tx[d].item \in Item
  BY DEF rows, StockInv, RequestTypes, StockTx
<1>2. RowTypes' /\ Rounded' /\ StockFollowsTrail'
  BY <1>1 DEF StockInv, RowTypes, Rounded, StockFollowsTrail
<1>3. RequestTypes'
  BY DEF StockInv, RequestTypes
<1>4. ASSUME NEW d \in Client \ {c} PROVE Request(d)'
  <2>1. Waiting(d) /\ Creating(d) /\ Holding(d) /\ Writing(d)
    BY DEF StockInv, Request
  <2>2. Waiting(d)' /\ Writing(d)'
    BY <1>1, <2>1 DEF Waiting, Writing
  <2>3. Creating(d)'
    BY <1>1, <2>1 DEF Creating
  <2>4. Holding(d)'
    BY <1>1, <2>1 DEF Holding
  <2> QED
    BY <2>2, <2>3, <2>4 DEF Request
<1> QED
  BY <1>2, <1>3, <1>4 DEF StockInv

\* A request that is undone, or refused, frees its row.
LEMMA RollbackKeeps ==
    ASSUME InventoryAssumptions, StockInv, NEW c \in Client, Rollback(c)
    PROVE  StockInv'
<1>1. /\ UNCHANGED rows
      /\ itemLock' = [i \in Item |-> IF itemLock[i] = c THEN Nobody ELSE itemLock[i]]
      /\ tx' = [tx EXCEPT ![c] = NoTx] /\ pc' = [pc EXCEPT ![c] = "idle"]
  BY DEF Rollback, End, Goto
<1>2. itemLock \in [Item -> Client \cup {Nobody}] /\ pc'[c] = "idle"
  BY <1>1 DEF StockInv, RequestTypes
<1>3. /\ itemLock' \in [Item -> Client \cup {Nobody}]
      /\ \A i \in Item, d \in Client \ {c} : itemLock[i] = d => itemLock'[i] = d
  BY <1>1, <1>2
<1>4. Request(c)'
  BY <1>2 DEF Request, Waiting, Creating, Holding, Writing
<1> QED
  BY <1>1, <1>3, <1>4, RestingType, NothingCommitted

\* A request for a new row, whose id nobody has.
LEMMA CreationKeeps ==
    ASSUME StockInv, NEW c \in Client, NEW mine \in StockTx,
           mine.op \in {"add", "copy"}, Fresh(mine.item),
           mine.write.state = "kept", mine.write.quantity % 2 = 0,
           mine.op = "add" => mine.write.quantity = Stored(mine.change),
           Begin(c, mine, "commit")
    PROVE  StockInv'
<1>1. /\ UNCHANGED <<rows, itemLock>> /\ UNCHANGED items
      /\ tx' = [tx EXCEPT ![c] = mine] /\ pc' = [pc EXCEPT ![c] = "commit"]
  BY DEF Begin, Goto, rows
<1>2. /\ itemLock' \in [Item -> Client \cup {Nobody}]
      /\ \A i \in Item, d \in Client : itemLock[i] = d => itemLock'[i] = d
      /\ pc'[c] = "commit" /\ tx'[c] = mine
      /\ \A d \in Client \ {c} : pc'[d] = pc[d] /\ tx'[d] = tx[d]
  BY <1>1 DEF StockInv, RequestTypes
<1>3. items[mine.item].state = "none" /\ \A d \in Client : pc[d] # "idle" => tx[d].item # mine.item
  BY DEF Fresh, At
<1>4. Waiting(c)' /\ Holding(c)'
  BY <1>2 DEF Waiting, Holding
<1>5. Creating(c)'
  BY <1>1, <1>2, <1>3 DEF Creating
<1>6. Writing(c)'
  BY <1>2 DEF Writing
<1>7. Request(c)'
  BY <1>4, <1>5, <1>6 DEF Request
<1> QED
  BY <1>1, <1>2, <1>3, <1>7, NothingCommitted

\* A request to change a row there is.
LEMMA ChangeKeeps ==
    ASSUME StockInv, NEW c \in Client, NEW mine \in StockTx,
           mine.op \in {"adjust", "delete"}, items[mine.item].state # "none",
           Begin(c, mine, mine.op)
    PROVE  StockInv'
<1>1. /\ UNCHANGED <<rows, itemLock>> /\ UNCHANGED items
      /\ tx' = [tx EXCEPT ![c] = mine] /\ pc' = [pc EXCEPT ![c] = mine.op]
  BY DEF Begin, Goto, rows
<1>2. /\ itemLock' \in [Item -> Client \cup {Nobody}]
      /\ \A i \in Item, d \in Client : itemLock[i] = d => itemLock'[i] = d
      /\ pc'[c] = mine.op /\ tx'[c] = mine
  BY <1>1 DEF StockInv, RequestTypes
<1>3. Request(c)'
  <2>1. pc'[c] # "commit"
    BY <1>2
  <2>2. Creating(c)' /\ Holding(c)' /\ Writing(c)'
    BY <2>1 DEF Creating, Holding, Writing
  <2>3. Waiting(c)'
    BY <1>1, <1>2 DEF Waiting
  <2> QED
    BY <2>2, <2>3 DEF Request
<1>4. \A d \in Client :
        pc[d] = "commit" /\ tx[d].op \in {"add", "copy"} => items[tx[d].item].state = "none"
  BY DEF StockInv, Request, Creating
<1>5. \A d \in Client : pc[d] = "commit" /\ tx[d].op \in {"add", "copy"} => mine.item # tx[d].item
  BY <1>4
<1>6. \A j \in Item, d \in Client \ {c} : itemLock[j] = d => itemLock'[j] = d
  BY <1>2
<1>7. mine.op \in {"idle", "adjust", "delete", "commit"}
  OBVIOUS
<1> QED
  BY <1>1, <1>2, <1>3, <1>5, <1>6, <1>7, NothingCommitted

\* An UPDATE that finds its row free, locks it and computes the new one.
LEMMA UpdateKeeps ==
    ASSUME StockInv, NEW c \in Client, NEW row \in StockRow,
           pc[c] \in {"adjust", "delete"}, Locks(c), Write(c, row), row.quantity % 2 = 0,
           pc[c] = "adjust" =>
               /\ items[tx[c].item].state = "kept" /\ row.state = "kept"
               /\ row.quantity = Stored(items[tx[c].item].quantity + tx[c].change),
           pc[c] = "delete" =>
               row.state = "deleted" /\ row.quantity = items[tx[c].item].quantity,
           Nobody \notin Client
    PROVE  StockInv'
<1> DEFINE i == tx[c].item
           mine == [tx[c] EXCEPT !.write = row]
<1>1. /\ UNCHANGED rows /\ UNCHANGED items
      /\ tx' = [tx EXCEPT ![c].write = row] /\ pc' = [pc EXCEPT ![c] = "commit"]
      /\ itemLock[i] = Nobody /\ itemLock' = [itemLock EXCEPT ![i] = c]
  BY DEF Write, Locks, Goto, rows
<1>2. /\ itemLock \in [Item -> Client \cup {Nobody}] /\ pc \in [Client -> {"idle", "adjust", "delete", "commit"}]
      /\ tx \in [Client -> StockTx] /\ tx[c] \in StockTx /\ i \in Item
      /\ tx[c].op = pc[c] /\ items[i].state # "none"
      /\ \A d \in Client :
           pc[d] = "commit" /\ tx[d].op \in {"add", "copy"} => items[tx[d].item].state = "none"
  BY DEF StockInv, RequestTypes, StockTx, Request, Waiting, Creating
<1>3. /\ mine \in StockTx /\ mine.op = tx[c].op /\ mine.item = i /\ mine.change = tx[c].change
      /\ mine.write = row
  BY <1>2 DEF StockTx
<1>4. tx' = [tx EXCEPT ![c] = mine]
  BY <1>1, <1>2
<1>5. /\ itemLock' \in [Item -> Client \cup {Nobody}] /\ itemLock'[i] = c
      /\ \A j \in Item, d \in Client : itemLock[j] = d => itemLock'[j] = d
  BY <1>1, <1>2
<1> HIDE DEF mine
<1>6. pc'[c] = "commit" /\ tx'[c] = mine
  BY <1>1, <1>2, <1>4
<1>7. Waiting(c)' /\ Creating(c)'
  BY <1>2, <1>3, <1>6 DEF Waiting, Creating
<1>8. Holding(c)'
  BY <1>1, <1>2, <1>3, <1>5, <1>6 DEF Holding
<1>9. Writing(c)'
  BY <1>2, <1>3, <1>6 DEF Writing
<1>10. Request(c)'
  BY <1>7, <1>8, <1>9 DEF Request
<1>11. \A d \in Client :
         pc[d] = "commit" /\ tx[d].op \in {"add", "copy"} => mine.item # tx[d].item
  BY <1>2, <1>3
<1>12. \A j \in Item, d \in Client \ {c} : itemLock[j] = d => itemLock'[j] = d
  BY <1>5
<1>13. "commit" \in {"idle", "adjust", "delete", "commit"}
  OBVIOUS
<1>14. /\ UNCHANGED rows /\ pc' = [pc EXCEPT ![c] = "commit"] /\ mine \in StockTx
       /\ itemLock' \in [Item -> Client \cup {Nobody}]
  BY <1>1, <1>3, <1>5
<1> QED
  BY <1>4, <1>10, <1>11, <1>12, <1>13, <1>14, NothingCommitted

-----------------------------------------------------------------------------
(* COMMIT                                                                  *)

\* What a row and its trail differ by.
Drift(row, opening, log) ==
    LET drift == row.quantity - opening - log.sum
    IN  -2 * log.halves <= drift /\ drift <= 2 * log.halves

\* One more entry of the trail for one more change of the row.
LEMMA AdjustedDrift ==
    ASSUME NEW row \in StockRow, NEW opening \in Int, NEW log \in StockTrail, NEW change \in Int,
           NEW write \in StockRow, row.quantity % 2 = 0, Drift(row, opening, log),
           write.quantity = Stored(row.quantity + change)
    PROVE  Drift(write, opening, Logged(log, change))
<1> DEFINE q == row.quantity
           delta == Stored(q + change) - q - Stored(change)
<1>1. q \in Int /\ log.halves \in Nat /\ log.sum \in Int /\ change % 2 \in {0, 1}
  BY DEF StockRow, StockTrail
<1>2. Stored(q + change) \in Int /\ Stored(change) \in Int
  BY <1>1, StoredIsEven
<1>3. -2 * (change % 2) <= delta /\ delta <= 2 * (change % 2)
  BY <1>1, RoundingDrift
<1>4. Logged(log, change).halves = log.halves + (change % 2)
  BY DEF Logged
<1>5. Logged(log, change).sum = log.sum + Stored(change)
  BY DEF Logged
<1>6. -2 * log.halves <= q - opening - log.sum /\ q - opening - log.sum <= 2 * log.halves
  BY DEF Drift
<1>7. \A s \in Int, r \in Int, h \in {0, 1} :
        -2 * h <= s - q - r /\ s - q - r <= 2 * h =>
          /\ -2 * (log.halves + h) <= s - opening - (log.sum + r)
          /\ s - opening - (log.sum + r) <= 2 * (log.halves + h)
  BY <1>1, <1>6
<1> QED
  BY <1>1, <1>2, <1>3, <1>4, <1>5, <1>7 DEF Drift

\* A trail with one more entry is one.
LEMMA LoggedType ==
    ASSUME NEW log \in StockTrail, NEW change \in Int
    PROVE  Logged(log, change) \in StockTrail
<1>1. Stored(change) \in Int
  BY StoredIsEven
<1>2. log.entries \in Nat /\ log.halves \in Nat /\ log.sum \in Int /\ change % 2 \in Nat
  BY DEF StockTrail
<1>3. log.entries + 1 \in Nat /\ log.halves + (change % 2) \in Nat /\ log.sum + Stored(change) \in Int
  BY <1>1, <1>2
<1> QED
  BY <1>3 DEF Logged, StockTrail

\* What a commit writes: one row, and with it perhaps one entry of its trail.
LEMMA CommitWrites ==
    ASSUME StockInv, NEW c \in Client, Commit(c)
    PROVE  LET i == tx[c].item
               w == tx[c].write
           IN  /\ i \in Item /\ w \in StockRow /\ w.quantity % 2 = 0 /\ w.state # "none"
               /\ items'[i] = w
               /\ \A j \in Item \ {i} :
                    items'[j] = items[j] /\ trail'[j] = trail[j] /\ untracked'[j] = untracked[j]
               /\ RowTypes'
               /\ \/ /\ tx[c].op \in {"add", "copy"} /\ items[i].state = "none"
                     /\ \/ /\ w.quantity = Stored(tx[c].change)
                           /\ trail'[i] = Logged(NoTrail, tx[c].change) /\ untracked'[i] = 0
                        \/ trail'[i] = NoTrail /\ untracked'[i] = w.quantity
                  \/ /\ tx[c].op = "adjust" /\ items[i].state = "kept"
                     /\ w.quantity = Stored(items[i].quantity + tx[c].change)
                     /\ trail'[i] = Logged(trail[i], tx[c].change)
                     /\ untracked'[i] = untracked[i]
                  \/ /\ tx[c].op = "delete" /\ items[i].state # "none"
                     /\ w.state = "deleted" /\ w.quantity = items[i].quantity
                     /\ trail'[i] = trail[i] /\ untracked'[i] = untracked[i]
<1> DEFINE t == tx[c]
           i == t.item
           w == t.write
           logs == t.op = "adjust" \/ (t.op = "add" /\ t.change > 0)
           creates == t.op \in {"add", "copy"}
<1>1. /\ pc[c] = "commit"
      /\ items' = [items EXCEPT ![i] = w]
      /\ trail' = IF logs THEN [trail EXCEPT ![i] = Logged(@, t.change)] ELSE trail
      /\ untracked' = IF creates /\ ~logs THEN [untracked EXCEPT ![i] = w.quantity] ELSE untracked
  BY DEF Commit, At
<1>2. RowTypes /\ Rounded /\ Waiting(c) /\ Creating(c) /\ Holding(c) /\ Writing(c)
  BY DEF StockInv, Request
<1>3. t \in StockTx
  BY DEF StockInv, RequestTypes
<1>4. i \in Item /\ w \in StockRow /\ t.change \in Int /\ w.quantity \in Int
      /\ t.op \in {"none", "add", "copy", "adjust", "delete"}
  BY <1>3 DEF StockTx, StockRow
<1>5. t.op # "none" /\ w.quantity % 2 = 0
  BY <1>1, <1>2 DEF Writing
<1>6. items'[i] = w /\ \A j \in Item \ {i} : items'[j] = items[j]
  BY <1>1, <1>2, <1>4 DEF RowTypes
<1>7. \A j \in Item \ {i} : trail'[j] = trail[j] /\ untracked'[j] = untracked[j]
  BY <1>1, <1>2, <1>4 DEF RowTypes
<1>8. /\ trail'[i] = IF logs THEN Logged(trail[i], t.change) ELSE trail[i]
      /\ untracked'[i] = IF creates /\ ~logs THEN w.quantity ELSE untracked[i]
  BY <1>1, <1>2, <1>4 DEF RowTypes
<1>9. RowTypes'
  <2>1. Logged(trail[i], t.change) \in StockTrail
    BY <1>2, <1>4, LoggedType DEF RowTypes
  <2>2. items' \in [Item -> StockRow] /\ trail' \in [Item -> StockTrail]
    BY <1>1, <1>2, <1>4, <2>1 DEF RowTypes
  <2>3. untracked' \in [Item -> Int]
    BY <1>1, <1>2, <1>4 DEF RowTypes
  <2> QED
    BY <2>2, <2>3 DEF RowTypes
<1>10. CASE creates
  <2>1. items[i].state = "none" /\ w.state = "kept"
        /\ (t.op = "add" => w.quantity = Stored(t.change))
    BY <1>1, <1>2, <1>10 DEF Creating
  <2>2. trail[i] = NoTrail /\ untracked[i] = 0
    BY <1>2, <1>4, <2>1 DEF Rounded
  <2>3. CASE logs
    BY <1>4, <1>5, <1>6, <1>7, <1>8, <1>9, <1>10, <2>1, <2>2, <2>3
  <2>4. CASE ~logs
    BY <1>4, <1>5, <1>6, <1>7, <1>8, <1>9, <1>10, <2>1, <2>2, <2>4
  <2> QED
    BY <2>3, <2>4
<1>11. CASE t.op = "adjust"
  BY <1>1, <1>2, <1>4, <1>5, <1>6, <1>7, <1>8, <1>9, <1>11 DEF Holding
<1>12. CASE t.op = "delete"
  BY <1>1, <1>2, <1>4, <1>5, <1>6, <1>7, <1>8, <1>9, <1>12 DEF Holding
<1> QED
  BY <1>4, <1>5, <1>10, <1>11, <1>12

\* A commit keeps the invariant.
LEMMA CommitKeeps ==
    ASSUME InventoryAssumptions, StockInv, NEW c \in Client, Commit(c)
    PROVE  StockInv'
<1> DEFINE i == tx[c].item
           w == tx[c].write
<1>1. /\ itemLock' = [j \in Item |-> IF itemLock[j] = c THEN Nobody ELSE itemLock[j]]
      /\ tx' = [tx EXCEPT ![c] = NoTx] /\ pc' = [pc EXCEPT ![c] = "idle"] /\ pc[c] = "commit"
  BY DEF Commit, End, Goto, At
<1>2. /\ itemLock \in [Item -> Client \cup {Nobody}]
      /\ pc'[c] = "idle" /\ \A d \in Client \ {c} : pc'[d] = pc[d] /\ tx'[d] = tx[d]
      /\ \A d \in Client : tx[d] \in StockTx /\ tx[d].item \in Item
  BY <1>1 DEF StockInv, RequestTypes, StockTx
<1>3. RowTypes' /\ i \in Item /\ w \in StockRow /\ w.quantity % 2 = 0 /\ w.state # "none"
      /\ items'[i] = w
      /\ \A j \in Item \ {i} :
           items'[j] = items[j] /\ trail'[j] = trail[j] /\ untracked'[j] = untracked[j]
  BY CommitWrites
<1>4. RequestTypes'
  BY <1>1, <1>2, RestingType DEF StockInv, RequestTypes
<1>5. Rounded'
  BY <1>3 DEF StockInv, Rounded
<1>6. ASSUME NEW d \in Client PROVE Request(d)'
  <2>1. CASE d = c
    BY <1>2, <2>1 DEF Request, Waiting, Creating, Holding, Writing
  <2>2. CASE d # c
    <3>1. pc'[d] = pc[d] /\ tx'[d] = tx[d] /\ tx[d].item \in Item
      BY <1>2, <2>2
    <3>2. Waiting(d) /\ Creating(d) /\ Holding(d) /\ Writing(d)
      BY DEF StockInv, Request
    <3>3. Waiting(d)' /\ Writing(d)'
      BY <1>3, <3>1, <3>2 DEF Waiting, Writing
    <3>4. Creating(d)'
      <4> SUFFICES ASSUME pc[d] = "commit", tx[d].op \in {"add", "copy"} PROVE Creating(d)'
        BY <3>1 DEF Creating
      <4>1. tx[d].item # i
        BY <1>1, <2>2, <3>2 DEF Creating
      <4>2. \A e \in Client \ {d} : pc'[e] # "idle" => tx'[e].item # tx[d].item
        BY <1>2, <3>2 DEF Creating
      <4> QED
        BY <1>3, <3>1, <3>2, <4>1, <4>2 DEF Creating
    <3>5. Holding(d)'
      <4> SUFFICES ASSUME pc[d] = "commit", tx[d].op \in {"adjust", "delete"} PROVE Holding(d)'
        BY <3>1 DEF Holding
      <4>1. itemLock[tx[d].item] = d /\ items[tx[d].item].state # "none"
        BY <3>2 DEF Holding
      <4>2. Creating(c) /\ Holding(c) /\ Writing(c) /\ tx[c] \in StockTx
        BY <1>2 DEF StockInv, Request
      <4>3. tx[d].item # i
        <5>1. CASE tx[c].op \in {"add", "copy"}
          BY <1>1, <4>1, <4>2, <5>1 DEF Creating
        <5>2. CASE tx[c].op \in {"adjust", "delete"}
          BY <1>1, <2>2, <4>1, <4>2, <5>2 DEF Holding
        <5> QED
          BY <1>1, <4>2, <5>1, <5>2 DEF Writing, StockTx
      <4>4. itemLock'[tx[d].item] = d
        BY <1>1, <2>2, <3>1, <4>1
      <4> QED
        BY <1>3, <3>1, <3>2, <4>3, <4>4 DEF Holding
    <3> QED
      BY <3>3, <3>4, <3>5 DEF Request
  <2> QED
    BY <2>1, <2>2
<1>7. StockFollowsTrail'
  <2>1. \A j \in Item : Drift(items[j], untracked[j], trail[j])
    BY DEF StockInv, StockFollowsTrail, Drift
  <2>2. Drift(items'[i], untracked'[i], trail'[i])
    <3>1. items[i] \in StockRow /\ untracked[i] \in Int /\ trail[i] \in StockTrail
          /\ items[i].quantity % 2 = 0 /\ tx[c].change \in Int /\ w.quantity \in Int
      BY <1>2, <1>3 DEF StockInv, RowTypes, Rounded, StockTx, StockRow
    <3>2. CASE w.quantity = Stored(tx[c].change) /\ untracked'[i] = 0
               /\ trail'[i] = Logged(NoTrail, tx[c].change)
      <4>1. tx[c].change % 2 \in {0, 1} /\ Stored(tx[c].change) \in Int
        BY <3>1, StoredIsEven
      <4>2. Logged(NoTrail, tx[c].change).sum = 0 + Stored(tx[c].change)
            /\ Logged(NoTrail, tx[c].change).halves = 0 + (tx[c].change % 2)
        BY DEF Logged, NoTrail
      <4> QED
        BY <1>3, <3>2, <4>1, <4>2 DEF Drift
    <3>3. CASE trail'[i] = NoTrail /\ untracked'[i] = w.quantity
      <4>1. NoTrail.sum = 0 /\ NoTrail.halves = 0
        BY DEF NoTrail
      <4> QED
        BY <1>3, <3>1, <3>3, <4>1 DEF Drift
    <3>4. CASE w.quantity = Stored(items[i].quantity + tx[c].change)
               /\ trail'[i] = Logged(trail[i], tx[c].change) /\ untracked'[i] = untracked[i]
      BY <1>3, <2>1, <3>1, <3>4, AdjustedDrift
    <3>5. CASE w.quantity = items[i].quantity /\ trail'[i] = trail[i]
               /\ untracked'[i] = untracked[i]
      BY <1>3, <2>1, <3>5 DEF Drift
    <3> QED
      BY <3>2, <3>3, <3>4, <3>5, CommitWrites
  <2>3. \A j \in Item : Drift(items'[j], untracked'[j], trail'[j])
    BY <1>3, <2>1, <2>2
  <2> QED
    BY <2>3 DEF StockFollowsTrail, Drift
<1> QED
  BY <1>3, <1>4, <1>5, <1>6, <1>7 DEF StockInv

-----------------------------------------------------------------------------
(* The actions                                                             *)

\* Every request and every statement keeps the invariant.
LEMMA StepKeeps ==
    ASSUME InventoryAssumptions, StockInv, [Next]_vars
    PROVE  StockInv'
<1>1. ASSUME NEW c \in Client, NEW i \in Item, NEW quantity \in Opening,
             AddInventoryItem(c, i, quantity)
      PROVE  StockInv'
  <2> DEFINE mine == [op |-> "add", item |-> i, change |-> quantity,
                      write |-> [state |-> "kept", quantity |-> Stored(quantity)]]
  <2>1. quantity \in Int /\ Stored(quantity) \in Int /\ Stored(quantity) % 2 = 0
    BY StoredIsEven DEF InventoryAssumptions
  <2>2. mine \in StockTx
    BY <2>1 DEF StockTx, StockRow
  <2>3. /\ mine.op = "add" /\ mine.item = i /\ mine.change = quantity
        /\ mine.write.state = "kept" /\ mine.write.quantity = Stored(quantity)
    OBVIOUS
  <2>4. Fresh(i) /\ Begin(c, mine, "commit")
    BY <1>1 DEF AddInventoryItem
  <2> HIDE DEF mine
  <2> QED
    BY <2>1, <2>2, <2>3, <2>4, CreationKeeps
<1>2. ASSUME NEW c \in Client, NEW source \in Item, NEW i \in Item, CopyItem(c, source, i)
      PROVE  StockInv'
  <2> DEFINE mine == [op |-> "copy", item |-> i, change |-> 0, write |-> items[source]]
  <2>1. /\ items[source] \in StockRow /\ items[source].quantity % 2 = 0
        /\ items[source].state = "kept"
    BY <1>2 DEF CopyItem, StockInv, RowTypes, Rounded
  <2>2. mine \in StockTx
    BY <2>1 DEF StockTx
  <2>3. mine.op = "copy" /\ mine.item = i /\ mine.write = items[source]
    OBVIOUS
  <2>4. Fresh(i) /\ Begin(c, mine, "commit")
    BY <1>2 DEF CopyItem
  <2> HIDE DEF mine
  <2> QED
    BY <2>1, <2>2, <2>3, <2>4, CreationKeeps
<1>3. ASSUME NEW c \in Client, NEW i \in Item, NEW change \in Change,
             AdjustInventoryStock(c, i, change)
      PROVE  StockInv'
  <2> DEFINE mine == [NoTx EXCEPT !.op = "adjust", !.item = i, !.change = change]
  <2>1. mine \in StockTx /\ mine.op = "adjust" /\ mine.item = i
    BY RestingType DEF InventoryAssumptions, NoTx, StockTx
  <2>2. items[i].state # "none" /\ Begin(c, mine, "adjust")
    BY <1>3 DEF AdjustInventoryStock
  <2> HIDE DEF mine
  <2> QED
    BY <2>1, <2>2, ChangeKeeps
<1>4. ASSUME NEW c \in Client, NEW i \in Item, DeleteInventoryItem(c, i)
      PROVE  StockInv'
  <2> DEFINE mine == [NoTx EXCEPT !.op = "delete", !.item = i]
  <2>1. mine \in StockTx /\ mine.op = "delete" /\ mine.item = i
    BY RestingType DEF NoTx, StockTx
  <2>2. items[i].state # "none" /\ Begin(c, mine, "delete")
    BY <1>4 DEF DeleteInventoryItem
  <2> HIDE DEF mine
  <2> QED
    BY <2>1, <2>2, ChangeKeeps
<1>5. ASSUME NEW c \in Client, Adjust(c) PROVE StockInv'
  <2> DEFINE row == items[tx[c].item]
             new == [row EXCEPT !.quantity = Stored(Added(c))]
  <2>1. pc[c] = "adjust" /\ row \in StockRow /\ tx[c].change \in Int
    BY <1>5 DEF Adjust, At, StockInv, RowTypes, RequestTypes, StockTx
  <2>2. CASE row.state = "kept" /\ Locks(c) /\ Write(c, new)
    <3>1. Added(c) \in Int /\ Added(c) = row.quantity + tx[c].change
      BY <2>1 DEF Added, StockRow
    <3>2. Stored(Added(c)) \in Int /\ Stored(Added(c)) % 2 = 0
      BY <3>1, StoredIsEven
    <3>3. new \in StockRow /\ new.state = "kept" /\ new.quantity = Stored(Added(c))
      BY <2>1, <2>2, <3>2 DEF StockRow
    <3> HIDE DEF new
    <3> QED
      BY <2>1, <2>2, <3>1, <3>2, <3>3, UpdateKeeps DEF InventoryAssumptions
  <2>3. CASE Rollback(c)
    BY <2>3, RollbackKeeps
  <2> QED
    BY <1>5, <2>2, <2>3 DEF Adjust
<1>6. ASSUME NEW c \in Client, Delete(c) PROVE StockInv'
  <2> DEFINE row == items[tx[c].item]
             new == [row EXCEPT !.state = "deleted"]
  <2>1. pc[c] = "delete" /\ row \in StockRow /\ row.quantity % 2 = 0
    BY <1>6 DEF Delete, At, StockInv, RowTypes, RequestTypes, StockTx, Rounded
  <2>2. new \in StockRow /\ new.state = "deleted" /\ new.quantity = row.quantity
    BY <2>1 DEF StockRow
  <2>3. Locks(c) /\ Write(c, new)
    BY <1>6 DEF Delete
  <2> HIDE DEF new
  <2> QED
    BY <2>1, <2>2, <2>3, UpdateKeeps DEF InventoryAssumptions
<1>7. ASSUME NEW c \in Client, Commit(c) PROVE StockInv'
  BY <1>7, CommitKeeps
<1>8. ASSUME NEW c \in Client, Abort(c) PROVE StockInv'
  BY <1>8, RollbackKeeps DEF Abort
<1>9. CASE UNCHANGED vars
  BY <1>9 DEF vars, rows, StockInv, RowTypes, RequestTypes, Rounded, Request, Waiting, Creating,
              Holding, Writing, StockFollowsTrail
<1> QED
  BY <1>1, <1>2, <1>3, <1>4, <1>5, <1>6, <1>7, <1>8, <1>9 DEF Next

\* Nothing but a commit changes a row.
LEMMA OnlyCommitsWrite ==
    ASSUME Next, \A c \in Client : ~Commit(c)
    PROVE  UNCHANGED rows
  BY DEF Next, AddInventoryItem, CopyItem, AdjustInventoryStock, DeleteInventoryItem, Begin,
         Adjust, Delete, Write, Rollback, Abort

\* A commit leaves a deleted item and its trail as they were.
LEMMA DeletedStays ==
    ASSUME StockInv, NEW c \in Client, Commit(c), NEW i \in Item, items[i].state = "deleted"
    PROVE  items'[i] = items[i] /\ trail'[i] = trail[i]
<1>1. CASE i # tx[c].item
  BY <1>1, CommitWrites
<1>2. CASE i = tx[c].item
  <2>1. tx[c].write.state = "deleted" /\ tx[c].write.quantity = items[i].quantity
        /\ items'[i] = tx[c].write /\ trail'[i] = trail[i] /\ tx[c].write \in StockRow
    BY <1>2, CommitWrites
  <2>2. items[i] \in StockRow
    BY DEF StockInv, RowTypes
  <2>3. tx[c].write = items[i]
    BY <2>1, <2>2 DEF StockRow
  <2> QED
    BY <2>1, <2>3
<1> QED
  BY <1>1, <1>2

-----------------------------------------------------------------------------
(* Theorems                                                                *)

\* The invariant holds in every state.
LEMMA StockInvariant == ASSUME InventoryAssumptions PROVE Spec => []StockInv
<1>1. Init => StockInv
  BY InitInvariant
<1>2. StockInv /\ [Next]_vars => StockInv'
  BY StepKeeps
<1> QED
  BY <1>1, <1>2, PTL DEF Spec

\* However adjustments, deletions and copies meet, an item's stock is what it
\* was created with and the sum of its trail, but for the thousandths that
\* rounding two numbers differently makes (inventory.go:228).
THEOREM StockIsItsTrail == ASSUME InventoryAssumptions PROVE Spec => []StockFollowsTrail
<1>1. StockInv => StockFollowsTrail
  BY DEF StockInv
<1> QED
  BY <1>1, StockInvariant, PTL

\* No step changes a deleted item or its trail (inventory.go:229).
THEOREM DeletionIsFinal == ASSUME InventoryAssumptions PROVE Spec => DeletedIsFinal
<1>1. StockInv /\ [Next]_vars =>
        [\A i \in Item : items[i].state = "deleted" =>
           items'[i] = items[i] /\ trail'[i] = trail[i]]_rows
  <2> SUFFICES ASSUME StockInv, Next, rows' # rows,
                      NEW i \in Item, items[i].state = "deleted"
               PROVE  items'[i] = items[i] /\ trail'[i] = trail[i]
    BY DEF vars
  <2>1. PICK c \in Client : Commit(c)
    BY OnlyCommitsWrite DEF Next
  <2> QED
    BY <2>1, DeletedStays
<1> QED
  BY <1>1, StockInvariant, PTL DEF Spec, DeletedIsFinal

=============================================================================
