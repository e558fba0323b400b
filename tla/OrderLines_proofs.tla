-------------------------- MODULE OrderLines_proofs --------------------------
(***************************************************************************)
(* Proofs about module OrderLines, for any connections, items, lines,      *)
(* prices, discounts and tax settings: that every committed discount is    *)
(* current and audited, and that totals and bills are exact, the ones of   *)
(* SetOrderDiscount always and the others if there is a line that nobody   *)
(* takes off (Kept # {}).                                                  *)
(*                                                                         *)
(* A request computes its totals from what it has read several statements  *)
(* ago.  They are exact when nobody commits in between.  The invariant     *)
(* says who can be sure of that: whoever commits holds the row of the      *)
(* order, and the rows of all lines there were; so nobody commits beside a *)
(* request that holds the order (SetOrderDiscount, from its first write)   *)
(* or a line in common (every other one, from its UPDATE of the lines).    *)
(* There the same lines have the same sum, whatever it is; for the types,  *)
(* sums over lines are shown to be integers, by induction over the number  *)
(* of lines.                                                               *)
(***************************************************************************)
EXTENDS OrderLines, TLAPS, FiniteSetTheorems, WellFoundedInduction

-----------------------------------------------------------------------------
(* Rows and requests                                                       *)

\* A line that is there is of an item with a price.
GoodRow == {r \in LineRow : Present(r) => r.item \in Item}

\* The columns of an order, whatever its amounts.
OrderColumns == {"status", "chosen", "subtotal", "discount", "tax", "total"}
IsOrder(r) == r = [f \in OrderColumns |-> r[f]]

Fields == {"op", "line", "item", "action", "choice", "quantity", "todo", "subtotal",
           "lineDiscount", "totals", "order", "lines", "adjusted", "audited", "invoiced"}
IsTx(t) == t = [f \in Fields |-> t[f]]

\* What a request is and what it has written.
SameRequest(t, m) ==
    m.op = t.op /\ m.line = t.line /\ m.item = t.item /\ m.action = t.action /\ m.choice = t.choice
SameWrites(t, m) == m.order = t.order /\ m.lines = t.lines /\ m.adjusted = t.adjusted
SameFigures(t, m) ==
    m.subtotal = t.subtotal /\ m.lineDiscount = t.lineDiscount /\ m.totals = t.totals
SameRecords(t, m) == m.audited = t.audited /\ m.invoiced = t.invoiced

\* Each assignment to a local variable leaves the others alone: the line,
LEMMA SetLine ==
    ASSUME NEW t, IsTx(t), NEW x
    PROVE  LET m == [t EXCEPT !.line = x]
           IN  /\ IsTx(m) /\ m.line = x /\ m.op = t.op /\ m.item = t.item /\ m.action = t.action
               /\ m.choice = t.choice /\ m.quantity = t.quantity /\ m.todo = t.todo
               /\ SameWrites(t, m) /\ SameFigures(t, m) /\ SameRecords(t, m)
  BY DEF IsTx, Fields, SameWrites, SameFigures, SameRecords

\* the quantity read,
LEMMA SetQuantity ==
    ASSUME NEW t, IsTx(t), NEW x
    PROVE  LET m == [t EXCEPT !.quantity = x]
           IN  /\ IsTx(m) /\ m.quantity = x /\ m.todo = t.todo /\ SameRequest(t, m)
               /\ SameWrites(t, m) /\ SameFigures(t, m) /\ SameRecords(t, m)
  BY DEF IsTx, Fields, SameRequest, SameWrites, SameFigures, SameRecords

\* the lines still to update,
LEMMA SetTodo ==
    ASSUME NEW t, IsTx(t), NEW x
    PROVE  LET m == [t EXCEPT !.todo = x]
           IN  /\ IsTx(m) /\ m.todo = x /\ m.quantity = t.quantity /\ SameRequest(t, m)
               /\ SameWrites(t, m) /\ SameFigures(t, m) /\ SameRecords(t, m)
  BY DEF IsTx, Fields, SameRequest, SameWrites, SameFigures, SameRecords

\* the totals,
LEMMA SetTotals ==
    ASSUME NEW t, IsTx(t), NEW x
    PROVE  LET m == [t EXCEPT !.totals = x]
           IN  /\ IsTx(m) /\ m.totals = x /\ m.subtotal = t.subtotal
               /\ m.lineDiscount = t.lineDiscount /\ m.todo = t.todo /\ m.quantity = t.quantity
               /\ SameRequest(t, m) /\ SameWrites(t, m) /\ SameRecords(t, m)
  BY DEF IsTx, Fields, SameRequest, SameWrites, SameRecords

\* the order written,
LEMMA SetOrder ==
    ASSUME NEW t, IsTx(t), NEW x
    PROVE  LET m == [t EXCEPT !.order = x]
           IN  /\ IsTx(m) /\ m.order = x /\ m.lines = t.lines /\ m.adjusted = t.adjusted
               /\ m.todo = t.todo /\ m.quantity = t.quantity
               /\ SameRequest(t, m) /\ SameFigures(t, m) /\ SameRecords(t, m)
  BY DEF IsTx, Fields, SameRequest, SameFigures, SameRecords

\* a line written,
LEMMA SetRow ==
    ASSUME NEW t, IsTx(t), NEW l \in Line, NEW x, NEW S, t.lines \in [Line -> S]
    PROVE  LET m == [t EXCEPT !.lines[l] = x]
           IN  /\ IsTx(m) /\ m.lines = [t.lines EXCEPT ![l] = x] /\ m.order = t.order
               /\ m.adjusted = t.adjusted /\ m.todo = t.todo /\ m.quantity = t.quantity
               /\ SameRequest(t, m) /\ SameFigures(t, m) /\ SameRecords(t, m)
  BY DEF IsTx, Fields, SameRequest, SameFigures, SameRecords

\* the audit row of a line,
LEMMA SetAdjusted ==
    ASSUME NEW t, IsTx(t), NEW x
    PROVE  LET m == [t EXCEPT !.adjusted = x]
           IN  /\ IsTx(m) /\ m.adjusted = x /\ m.order = t.order /\ m.lines = t.lines
               /\ m.todo = t.todo /\ m.quantity = t.quantity
               /\ SameRequest(t, m) /\ SameFigures(t, m) /\ SameRecords(t, m)
  BY DEF IsTx, Fields, SameRequest, SameFigures, SameRecords

\* that of the order,
LEMMA SetAudited ==
    ASSUME NEW t, IsTx(t), NEW x
    PROVE  LET m == [t EXCEPT !.audited = x]
           IN  /\ IsTx(m) /\ m.audited = x /\ m.invoiced = t.invoiced
               /\ m.todo = t.todo /\ m.quantity = t.quantity
               /\ SameRequest(t, m) /\ SameWrites(t, m) /\ SameFigures(t, m)
  BY DEF IsTx, Fields, SameRequest, SameWrites, SameFigures

\* and the bill.
LEMMA SetInvoiced ==
    ASSUME NEW t, IsTx(t), NEW x
    PROVE  LET m == [t EXCEPT !.invoiced = x]
           IN  /\ IsTx(m) /\ m.invoiced = x /\ m.audited = t.audited
               /\ m.todo = t.todo /\ m.quantity = t.quantity
               /\ SameRequest(t, m) /\ SameWrites(t, m) /\ SameFigures(t, m)
  BY DEF IsTx, Fields, SameRequest, SameWrites, SameFigures

\* The amounts of an order that was given some, and the rest of it.
LEMMA SetAmounts ==
    ASSUME NEW r, IsOrder(r), NEW s, NEW d, NEW x, NEW z
    PROVE  LET a == [subtotal |-> s, discount |-> d, tax |-> x, total |-> z]
               n == WithAmounts(r, a)
           IN  IsOrder(n) /\ n.status = r.status /\ n.chosen = r.chosen /\ Amounts(n) = a
  BY DEF IsOrder, OrderColumns, WithAmounts, Amounts

-----------------------------------------------------------------------------
(* The invariant                                                           *)

\* Statements before the first write, from the first of them that reads lines
\* on, and after the UPDATE of the lines.
First == {"findLine", "addToLine", "readQuantity", "writeQuantity", "writeDiscount", "writeChoice"}
Summed == {"sum", "readChoice", "writeTotals", "audit", "close", "commit"}
Started == Summed \cup {"updateLines"}

Statements == First \cup Started \cup {"idle", "startLines"}

Current(row) == row.amount = CurrentAmount(row)

LineAudited(l, d, log) == d = NoDiscount \/ [line |-> l, discount |-> d] \in log
ChoiceAudited(d, log) == d = NoDiscount \/ \E a \in log : a.discount = d

Shape(t) ==
    /\ IsTx(t) /\ IsOrder(t.order)
    /\ t.lines \in [Line -> GoodRow] /\ t.todo \subseteq Line

\* The parameters of a request are what its statement needs.
Parameters(p, t) ==
    /\ p \in {"findLine", "addToLine"} => t.line \in Line /\ t.item \in Item
    /\ p \in {"readQuantity", "writeQuantity"} =>
         t.line \in Line /\ (t.line \in Kept => t.action = "inc")
    /\ p = "writeDiscount" => t.line \in Line /\ t.choice \in Discount /\ t.quantity \in Int
    /\ p \in First \ {"writeChoice"} => t.op # "discount"
    /\ p \in {"writeChoice", "audit"} => t.op = "discount"
    /\ p = "close" => t.op = "close"

\* Which rows the transaction has written.
Untouched(p, t) ==
    p \in First =>
        t.order.status = "unwritten" /\ \A l \in Line : t.lines[l].state = "unwritten"

OrderTaken(p, t) ==
    \/ p \in {"audit", "close", "commit"}
    \/ t.op = "discount" /\ p \notin First \cup {"idle"}

Taken(p, t) == OrderTaken(p, t) => t.order.status # "unwritten"

\* It holds the locks of these rows.
Holding(c) ==
    /\ \A l \in Line : tx[c].lines[l].state # "unwritten" => lineLock[l] = c
    /\ tx[c].order.status # "unwritten" => orderLock = c

\* No line that is kept is deleted, and the UPDATE of the lines is of all.
KeptStays(t) == \A l \in Kept : t.lines[l].state # "unwritten" => Present(t.lines[l])

Recalculated(p, t) ==
    /\ p \in Started =>
         /\ \A l \in Line : Present(t.lines[l]) => l \in t.todo \/ Current(t.lines[l])
         /\ \A l \in Kept : l \in t.todo \/ t.lines[l].state # "unwritten"
    /\ p \in Summed => t.todo = {}

\* What it has written is audited, or was.
LinesAudited(t) ==
    \A l \in Line :
        Present(t.lines[l]) =>
            \/ LineAudited(l, t.lines[l].discount, t.adjusted)
            \/ Present(lines[l]) /\ LineAudited(l, t.lines[l].discount, adjustments)

OrderAudited(p, t) ==
    /\ t.order.status # "unwritten" =>
         ChoiceAudited(t.order.chosen, discounts) \/ (t.op = "discount" /\ t.order.chosen = t.choice)
    /\ p = "commit" /\ t.op = "discount" => ChoiceAudited(t.choice, t.audited)

\* SetOrderDiscount changes no line.
LinesLeft(t) ==
    t.op = "discount" => \A l \in Line : t.lines[l].state # "unwritten" => t.lines[l] = lines[l]

\* Nobody commits beside a request that has summed and is firm.
Firm(t) == t.op = "discount" \/ Kept # {}

Figures(c) ==
    LET p == pc[c]
        t == tx[c]
    IN  Firm(t) =>
          /\ p \in Summed \ {"sum"} =>
               t.subtotal = Subtotal(Seen(c)) /\ t.lineDiscount = LineDiscounts(Seen(c))
          /\ p \in {"writeTotals", "audit", "close", "commit"} =>
               t.totals = Totals(t.subtotal, t.lineDiscount, SeenOrder(c).chosen, Tax)
          /\ p \in {"audit", "close", "commit"} => Amounts(t.order) = t.totals
          /\ p = "commit" /\ t.op = "discount" =>
               \A a \in t.audited : a.amount = t.order.discount - LineDiscounts(Seen(c))

Billed(p, t) ==
    /\ p = "commit" => \A i \in t.invoiced : i = Amounts(t.order)
    /\ p # "commit" => t.invoiced = {}

Sound(c) ==
    /\ Shape(tx[c]) /\ Parameters(pc[c], tx[c])
    /\ Untouched(pc[c], tx[c]) /\ Taken(pc[c], tx[c]) /\ Holding(c)
    /\ KeptStays(tx[c]) /\ Recalculated(pc[c], tx[c])
    /\ LinesAudited(tx[c]) /\ OrderAudited(pc[c], tx[c]) /\ LinesLeft(tx[c])
    /\ Figures(c) /\ Billed(pc[c], tx[c])

Rows ==
    /\ IsOrder(order) /\ order.status # "unwritten"
    /\ lines \in [Line -> GoodRow] /\ \A l \in Line : lines[l].state # "unwritten"
    /\ \A l \in Kept : Present(lines[l])

Requesting ==
    /\ pc \in [Client -> Statements]
    /\ tx = [c \in Client |-> tx[c]]
    /\ lineLock \in [Line -> Client \cup {Nobody}]

LinesInv ==
    /\ Rows /\ Requesting
    /\ \A c \in Client : Sound(c)
    /\ LineDiscountsCurrent /\ EveryDiscountAudited
    /\ Kept # {} => TotalsMatchLines

-----------------------------------------------------------------------------
(* Initial states, and steps that commit nothing                           *)

\* A resting connection has written nothing.
LEMMA Resting ==
    /\ IsTx(NoTx) /\ IsOrder(NoTx.order) /\ NoTx.lines \in [Line -> GoodRow] /\ NoTx.todo = {}
    /\ NoTx.order.status = "unwritten" /\ \A l \in Line : NoTx.lines[l].state = "unwritten"
    /\ NoTx.op = "none" /\ NoTx.invoiced = {} /\ NoTx.adjusted = {} /\ NoTx.audited = {}
<1>1. IsTx(NoTx) /\ NoTx.todo = {}
  BY DEF IsTx, Fields, NoTx
<1>2. NoTx.order = OrderIn("unwritten") /\ NoTx.lines = [l \in Line |-> Blank("unwritten")]
  BY DEF NoTx
<1>3. IsOrder(OrderIn("unwritten")) /\ OrderIn("unwritten").status = "unwritten"
  BY DEF IsOrder, OrderColumns, OrderIn
<1>4. Blank("unwritten") \in GoodRow /\ Blank("unwritten").state = "unwritten"
  BY DEF Blank, GoodRow, LineRow, LineState, Present
<1>5. NoTx.op = "none" /\ NoTx.invoiced = {} /\ NoTx.adjusted = {} /\ NoTx.audited = {}
  BY DEF NoTx
<1> QED
  BY <1>1, <1>2, <1>3, <1>4, <1>5

\* A connection at rest is sound.
RestingIsSound == \A c \in Client : tx[c] = NoTx /\ pc[c] = "idle" => Sound(c)

\* In any state.
LEMMA RestingSound == RestingIsSound
<1> SUFFICES ASSUME NEW c \in Client, tx[c] = NoTx, pc[c] = "idle" PROVE Sound(c)
  BY DEF RestingIsSound
<1>1. Shape(tx[c])
  BY Resting DEF Shape
<1>2. Parameters(pc[c], tx[c]) /\ Untouched(pc[c], tx[c]) /\ Taken(pc[c], tx[c])
  BY Resting DEF Parameters, Untouched, Taken, OrderTaken, First
<1>3. Holding(c) /\ KeptStays(tx[c])
  BY Resting, OrderLinesAssumptions DEF Holding, KeptStays
<1>4. Recalculated(pc[c], tx[c]) /\ OrderAudited(pc[c], tx[c]) /\ LinesLeft(tx[c])
  BY Resting DEF Recalculated, OrderAudited, LinesLeft, Started, Summed
<1>5. LinesAudited(tx[c])
  BY Resting DEF LinesAudited, Present
<1>6. Figures(c) /\ Billed(pc[c], tx[c])
  BY Resting DEF Figures, Billed, Summed
<1> QED
  BY <1>1, <1>2, <1>3, <1>4, <1>5, <1>6 DEF Sound

\* And so in the next.
LEMMA RestingSoundNext == RestingIsSound'
  BY RestingSound, PTL

\* The rows that are inserted, and those that stand for none.
LEMMA NewRows ==
    /\ \A i \in Item : /\ NewLine(i) \in GoodRow /\ Present(NewLine(i))
                       /\ NewLine(i).discount = NoDiscount /\ NewLine(i).amount = 0
    /\ \A s \in LineState \ {"present"} : /\ Blank(s) \in GoodRow /\ Blank(s).state = s
                                         /\ ~Present(Blank(s))
    /\ {"none", "deleted"} \subseteq LineState
<1>1. \A s \in LineState :
        Blank(s) = [state |-> s, item |-> NoItem, quantity |-> 0, discount |-> NoDiscount, amount |-> 0]
  BY DEF Blank
<1>2. Blank("present") \in LineRow
  BY DEF Blank, LineRow, LineState
<1>3. ASSUME NEW i \in Item
      PROVE  /\ NewLine(i) \in GoodRow /\ Present(NewLine(i))
             /\ NewLine(i).discount = NoDiscount /\ NewLine(i).amount = 0
  <2>1. [Blank("present") EXCEPT !.item = i] \in LineRow
    BY <1>2 DEF LineRow
  <2>2. \A b \in LineRow : [b EXCEPT !.quantity = 1] \in LineRow
    BY DEF LineRow
  <2>3. NewLine(i) = [[Blank("present") EXCEPT !.item = i] EXCEPT !.quantity = 1]
    BY DEF NewLine
  <2>4. /\ NewLine(i).state = "present" /\ NewLine(i).item = i
        /\ NewLine(i).discount = NoDiscount /\ NewLine(i).amount = 0
    BY DEF NewLine, Blank
  <2> QED
    BY <2>1, <2>2, <2>3, <2>4 DEF GoodRow, Present
<1>4. ASSUME NEW s \in LineState \ {"present"}
      PROVE  Blank(s) \in GoodRow /\ Blank(s).state = s /\ ~Present(Blank(s))
  BY <1>1 DEF GoodRow, LineRow, Present
<1> QED
  BY <1>3, <1>4 DEF LineState

\* The invariant holds when the order is opened.
LEMMA InitInvariant == Init => LinesInv
<1> SUFFICES ASSUME Init PROVE LinesInv
  OBVIOUS
<1>1. PICK item \in [Kept -> Item] :
        lines = [l \in Line |-> IF l \in Kept THEN NewLine(item[l]) ELSE Blank("none")]
  BY DEF Init
<1>2. /\ \A i \in Item : /\ NewLine(i) \in GoodRow /\ NewLine(i).state = "present"
                         /\ NewLine(i).discount = NoDiscount /\ NewLine(i).amount = 0
      /\ Blank("none") \in GoodRow /\ Blank("none").state = "none"
  BY NewRows DEF Present
<1>3. /\ \A l \in Kept : l \in Line /\ \E i \in Item : lines[l] = NewLine(i)
      /\ \A l \in Line \ Kept : lines[l] = Blank("none")
      /\ lines \in [Line -> GoodRow]
  BY <1>1, <1>2, OrderLinesAssumptions
<1>4. \A l \in Line : lines[l].state # "unwritten" /\ (Present(lines[l]) => l \in Kept)
  BY <1>2, <1>3 DEF Present
<1>5. IsOrder(OrderIn("open")) /\ OrderIn("open").status = "open"
      /\ OrderIn("open").chosen = NoDiscount
  BY DEF IsOrder, OrderColumns, OrderIn
<1>6. /\ IsOrder(order) /\ order.status = "open" /\ order.chosen = NoDiscount
      /\ Amounts(order) = TotalsOf(lines, NoDiscount)
  <2>1. order = WithAmounts(OrderIn("open"), TotalsOf(lines, NoDiscount))
    BY DEF Init
  <2> QED
    BY <1>5, <2>1, SetAmounts DEF TotalsOf, Totals
<1>7. Rows
  BY <1>2, <1>3, <1>4, <1>6 DEF Rows, Present
<1>8. Requesting /\ \A c \in Client : pc[c] = "idle" /\ tx[c] = NoTx
  BY DEF Init, Requesting, Statements
<1>9. LineDiscountsCurrent
  <2>1. \A l \in PresentIn(lines) : lines[l].discount = NoDiscount /\ lines[l].amount = 0
    BY <1>2, <1>3, <1>4 DEF PresentIn
  <2>2. \A q, x : LineDiscount(q, x, NoDiscount) = 0
    BY DEF LineDiscount, NoDiscount
  <2> QED
    BY <2>1, <2>2 DEF LineDiscountsCurrent
<1>10. EveryDiscountAudited
  BY <1>2, <1>3, <1>4, <1>6 DEF EveryDiscountAudited, PresentIn
<1>11. TotalsMatchLines
  BY <1>6 DEF TotalsMatchLines
<1> QED
  BY <1>7, <1>8, <1>9, <1>10, <1>11, RestingSound DEF LinesInv, RestingIsSound

\* A step of one connection that commits nothing keeps the invariant if its own
\* request is sound after it and it takes no row from others.
LEMMA NothingCommitted ==
    ASSUME LinesInv, NEW c \in Client, NEW mine, NEW next \in Statements,
           UNCHANGED database,
           tx' = [tx EXCEPT ![c] = mine], pc' = [pc EXCEPT ![c] = next],
           lineLock' \in [Line -> Client \cup {Nobody}],
           \A l \in Line, d \in Client \ {c} : lineLock[l] = d => lineLock'[l] = d,
           \A d \in Client \ {c} : orderLock = d => orderLock' = d,
           Sound(c)'
    PROVE  LinesInv'
<1>1. /\ UNCHANGED <<order, lines, adjustments, discounts>>
      /\ \A d \in Client \ {c} : pc'[d] = pc[d] /\ tx'[d] = tx[d]
      /\ Requesting'
  BY DEF database, LinesInv, Requesting
<1>2. /\ Rows' /\ LineDiscountsCurrent' /\ EveryDiscountAudited'
      /\ (Kept # {} => TotalsMatchLines)'
  BY <1>1 DEF LinesInv, Rows, LineDiscountsCurrent, EveryDiscountAudited, TotalsMatchLines,
              PresentIn
<1>3. ASSUME NEW d \in Client \ {c} PROVE Sound(d)'
  <2>1. Sound(d)
    BY DEF LinesInv
  <2>2. Holding(d)'
    BY <1>1, <2>1 DEF Sound, Holding
  <2>3. Seen(d)' = Seen(d) /\ SeenOrder(d)' = SeenOrder(d)
    BY <1>1 DEF Seen, Newest, SeenOrder
  <2>4. Figures(d)'
    BY <1>1, <2>1, <2>3 DEF Sound, Figures, Firm
  <2> QED
    BY <1>1, <2>1, <2>2, <2>4
       DEF Sound, Shape, Parameters, Untouched, Taken, OrderTaken, KeptStays, Recalculated,
           LinesAudited, OrderAudited, LinesLeft, Billed
<1> QED
  BY <1>1, <1>2, <1>3 DEF LinesInv

\* A request that is undone.
LEMMA RollbackKeeps ==
    ASSUME LinesInv, NEW c \in Client, Rollback(c) PROVE LinesInv'
<1>1. /\ UNCHANGED database
      /\ orderLock' = IF orderLock = c THEN Nobody ELSE orderLock
      /\ lineLock' = [l \in Line |-> IF lineLock[l] = c THEN Nobody ELSE lineLock[l]]
      /\ tx' = [tx EXCEPT ![c] = NoTx] /\ pc' = [pc EXCEPT ![c] = "idle"]
  BY DEF Rollback, End, Goto
<1>2. Requesting
  BY DEF LinesInv
<1>3. tx'[c] = NoTx /\ pc'[c] = "idle"
  BY <1>1, <1>2 DEF Requesting
<1>4. Sound(c)'
  BY <1>3, RestingSoundNext DEF RestingIsSound
<1>5. /\ lineLock' \in [Line -> Client \cup {Nobody}]
      /\ \A l \in Line, d \in Client \ {c} : lineLock[l] = d => lineLock'[l] = d
      /\ \A d \in Client \ {c} : orderLock = d => orderLock' = d
  BY <1>1, <1>2 DEF Requesting
<1>6. "idle" \in Statements
  BY DEF Statements
<1> QED
  BY <1>1, <1>4, <1>5, <1>6, NothingCommitted

-----------------------------------------------------------------------------
(* COMMIT                                                                  *)

\* A request that commits has written the order, and the lines that are kept.
LEMMA CommitterHolds ==
    ASSUME LinesInv, NEW c \in Client, pc[c] = "commit"
    PROVE  /\ orderLock = c /\ tx[c].order.status # "unwritten"
           /\ \A l \in Kept : lineLock[l] = c
<1>1. Sound(c)
  BY DEF LinesInv
<1>2. tx[c].order.status # "unwritten" /\ \A l \in Kept : tx[c].lines[l].state # "unwritten"
  BY <1>1 DEF Sound, Taken, OrderTaken, Recalculated, Summed, Started
<1> QED
  BY <1>1, <1>2, OrderLinesAssumptions DEF Sound, Holding

\* Nobody commits beside a request that is firm and has summed.
LEMMA FirmAlone ==
    ASSUME LinesInv, NEW c \in Client, NEW d \in Client, c # d,
           pc[c] = "commit", pc[d] \in Summed, Firm(tx[d])
    PROVE  FALSE
<1>1. Sound(d)
  BY DEF LinesInv
<1>2. CASE tx[d].op = "discount"
  <2>1. tx[d].order.status # "unwritten"
    BY <1>1, <1>2 DEF Sound, Taken, OrderTaken, Summed, First
  <2> QED
    BY <1>1, <2>1, CommitterHolds DEF Sound, Holding
<1>3. CASE Kept # {}
  <2>1. PICK l \in Kept : TRUE
    BY <1>3
  <2>2. tx[d].lines[l].state # "unwritten" /\ l \in Line
    BY <1>1, <2>1, OrderLinesAssumptions DEF Sound, Recalculated, Summed, Started
  <2> QED
    BY <1>1, <2>1, <2>2, CommitterHolds DEF Sound, Holding
<1> QED
  BY <1>2, <1>3 DEF Firm

\* What a commit does to the database.
LEMMA CommitWrites ==
    ASSUME LinesInv, NEW c \in Client, Commit(c)
    PROVE  /\ pc[c] = "commit" /\ order' = tx[c].order
           /\ \A l \in Line :
                lines'[l] = IF tx[c].lines[l].state # "unwritten" THEN tx[c].lines[l] ELSE lines[l]
           /\ lines' = Seen(c) /\ lines' \in [Line -> GoodRow]
           /\ adjustments' = {a \in adjustments \cup tx[c].adjusted :
                                Newest(c, a.line).state # "deleted"}
           /\ discounts' = discounts \cup tx[c].audited
           /\ tx' = [tx EXCEPT ![c] = NoTx] /\ pc' = [pc EXCEPT ![c] = "idle"]
           /\ orderLock' = Nobody
           /\ lineLock' = [l \in Line |-> IF lineLock[l] = c THEN Nobody ELSE lineLock[l]]
<1>1. /\ pc[c] = "commit" /\ order' = SeenOrder(c) /\ lines' = Seen(c)
      /\ adjustments' = {a \in adjustments \cup tx[c].adjusted :
                           Newest(c, a.line).state # "deleted"}
      /\ discounts' = discounts \cup tx[c].audited
      /\ tx' = [tx EXCEPT ![c] = NoTx] /\ pc' = [pc EXCEPT ![c] = "idle"]
      /\ orderLock' = IF orderLock = c THEN Nobody ELSE orderLock
      /\ lineLock' = [l \in Line |-> IF lineLock[l] = c THEN Nobody ELSE lineLock[l]]
  BY DEF Commit, End, Goto, At
<1>2. tx[c].order.status # "unwritten" /\ orderLock = c
  BY <1>1, CommitterHolds
<1>3. order' = tx[c].order
  BY <1>1, <1>2 DEF SeenOrder
<1>4. \A l \in Line :
        lines'[l] = IF tx[c].lines[l].state # "unwritten" THEN tx[c].lines[l] ELSE lines[l]
  BY <1>1 DEF Seen, Newest
<1>5. lines' \in [Line -> GoodRow]
  <2>1. tx[c].lines \in [Line -> GoodRow] /\ lines \in [Line -> GoodRow]
    BY DEF LinesInv, Rows, Sound, Shape
  <2> QED
    BY <1>1, <2>1 DEF Seen, Newest
<1> QED
  BY <1>1, <1>2, <1>3, <1>4, <1>5

\* The rows it leaves are those of an order, current and audited.
LEMMA CommitRows ==
    ASSUME LinesInv, NEW c \in Client, Commit(c)
    PROVE  Rows' /\ LineDiscountsCurrent' /\ EveryDiscountAudited'
<1> DEFINE t == tx[c]
<1>1. Sound(c) /\ Rows /\ LineDiscountsCurrent /\ EveryDiscountAudited
  BY DEF LinesInv
<1>2. /\ pc[c] = "commit" /\ order' = t.order /\ lines' \in [Line -> GoodRow]
      /\ \A l \in Line : lines'[l] = IF t.lines[l].state # "unwritten" THEN t.lines[l] ELSE lines[l]
      /\ adjustments' = {a \in adjustments \cup t.adjusted : Newest(c, a.line).state # "deleted"}
      /\ discounts' = discounts \cup t.audited
  BY CommitWrites
<1>3. \A l \in Line : Newest(c, l) = lines'[l]
  BY <1>2 DEF Newest
<1>4. Rows'
  <2>1. IsOrder(order') /\ order'.status # "unwritten"
    BY <1>1, <1>2, CommitterHolds DEF Sound, Shape
  <2>2. \A l \in Line : lines'[l].state # "unwritten"
    BY <1>1, <1>2 DEF Rows
  <2>3. \A l \in Kept : Present(lines'[l])
    BY <1>1, <1>2, OrderLinesAssumptions DEF Rows, Sound, KeptStays
  <2> QED
    BY <1>2, <2>1, <2>2, <2>3 DEF Rows
<1>5. LineDiscountsCurrent'
  <2> SUFFICES ASSUME NEW l \in Line, Present(lines'[l]) PROVE Current(lines'[l])
    BY DEF LineDiscountsCurrent, PresentIn, Current, CurrentAmount
  <2>1. CASE t.lines[l].state # "unwritten"
    BY <1>1, <1>2, <2>1 DEF Sound, Recalculated, Summed, Started
  <2>2. CASE t.lines[l].state = "unwritten"
    BY <1>1, <1>2, <2>2 DEF LineDiscountsCurrent, PresentIn, Current, CurrentAmount
  <2> QED
    BY <2>1, <2>2
<1>6. ASSUME NEW l \in Line, Present(lines'[l])
      PROVE  LineAudited(l, lines'[l].discount, adjustments')
  <2> DEFINE a == [line |-> l, discount |-> lines'[l].discount]
  <2>1. LineAudited(l, lines'[l].discount, adjustments)
        \/ LineAudited(l, lines'[l].discount, t.adjusted)
    <3>1. CASE t.lines[l].state # "unwritten"
      BY <1>1, <1>2, <1>6, <3>1 DEF Sound, LinesAudited
    <3>2. CASE t.lines[l].state = "unwritten"
      BY <1>1, <1>2, <1>6, <3>2 DEF EveryDiscountAudited, PresentIn, LineAudited
    <3> QED
      BY <3>1, <3>2
  <2>2. CASE lines'[l].discount = NoDiscount
    BY <2>2 DEF LineAudited
  <2>3. CASE a \in adjustments \cup t.adjusted
    <3>1. a.line = l /\ Newest(c, l).state # "deleted"
      BY <1>3, <1>6 DEF Present
    <3>2. a \in adjustments'
      BY <1>2, <2>3, <3>1
    <3> QED
      BY <3>2 DEF LineAudited
  <2> QED
    BY <2>1, <2>2, <2>3 DEF LineAudited
<1>7. order'.chosen # NoDiscount => \E a \in discounts' : a.discount = order'.chosen
  BY <1>1, <1>2, CommitterHolds DEF Sound, OrderAudited, ChoiceAudited
<1>8. EveryDiscountAudited'
  BY <1>6, <1>7 DEF EveryDiscountAudited, PresentIn, LineAudited
<1> QED
  BY <1>4, <1>5, <1>8

\* If it was firm, its totals are those of the rows it leaves.
LEMMA CommitExact ==
    ASSUME LinesInv, NEW c \in Client, Commit(c), Firm(tx[c])
    PROVE  /\ TotalsMatchLines'
           /\ tx[c].op = "discount" =>
                \A a \in tx[c].audited : a.amount = order'.discount - LineDiscounts(lines')
<1>1. Figures(c) /\ tx[c].order.status # "unwritten"
  BY CommitWrites, CommitterHolds DEF LinesInv, Sound
<1>2. pc[c] = "commit" /\ order' = tx[c].order /\ lines' = Seen(c)
  BY CommitWrites
<1>3. SeenOrder(c) = tx[c].order
  BY <1>1 DEF SeenOrder
<1>4. /\ tx[c].subtotal = Subtotal(lines') /\ tx[c].lineDiscount = LineDiscounts(lines')
      /\ tx[c].totals = Totals(tx[c].subtotal, tx[c].lineDiscount, order'.chosen, Tax)
      /\ Amounts(order') = tx[c].totals
      /\ tx[c].op = "discount" =>
           \A a \in tx[c].audited : a.amount = order'.discount - LineDiscounts(lines')
  BY <1>1, <1>2, <1>3 DEF Figures, Summed
<1> QED
  BY <1>4 DEF TotalsMatchLines, TotalsOf

\* A commit keeps the invariant.
LEMMA CommitKeeps ==
    ASSUME LinesInv, NEW c \in Client, Commit(c) PROVE LinesInv'
<1>1. /\ pc[c] = "commit" /\ orderLock = c
      /\ \A l \in Line :
           lines'[l] = IF tx[c].lines[l].state # "unwritten" THEN tx[c].lines[l] ELSE lines[l]
      /\ adjustments' = {a \in adjustments \cup tx[c].adjusted :
                           Newest(c, a.line).state # "deleted"}
      /\ discounts' = discounts \cup tx[c].audited
      /\ tx' = [tx EXCEPT ![c] = NoTx] /\ pc' = [pc EXCEPT ![c] = "idle"]
      /\ lineLock' = [l \in Line |-> IF lineLock[l] = c THEN Nobody ELSE lineLock[l]]
  BY CommitWrites, CommitterHolds
<1>2. Requesting /\ Rows
  BY DEF LinesInv
<1>3. /\ tx'[c] = NoTx /\ pc'[c] = "idle"
      /\ \A d \in Client \ {c} : tx'[d] = tx[d] /\ pc'[d] = pc[d]
  BY <1>1, <1>2 DEF Requesting
<1>4. Requesting'
  BY <1>1, <1>2 DEF Requesting, Statements
<1>5. Sound(c)'
  BY <1>3, RestingSoundNext DEF RestingIsSound
<1>6. ASSUME NEW d \in Client \ {c} PROVE Sound(d)'
  <2>1. Sound(d) /\ tx'[d] = tx[d] /\ pc'[d] = pc[d] /\ d # c
    BY <1>3 DEF LinesInv
  <2>2. \A l \in Line : tx[d].lines[l].state # "unwritten" => lineLock[l] = d /\ lines'[l] = lines[l]
    <3>1. Sound(c)
      BY DEF LinesInv
    <3> QED
      BY <1>1, <2>1, <3>1 DEF Sound, Holding
  <2>3. Holding(d)'
    <3>1. tx[d].order.status = "unwritten"
      BY <1>1, <2>1 DEF Sound, Holding
    <3> QED
      BY <1>1, <2>1, <2>2, <3>1 DEF Holding
  <2>4. LinesAudited(tx[d])'
    <3> SUFFICES ASSUME NEW l \in Line, Present(tx[d].lines[l]),
                        ~LineAudited(l, tx[d].lines[l].discount, tx[d].adjusted)
                 PROVE  Present(lines'[l]) /\ LineAudited(l, tx[d].lines[l].discount, adjustments')
      BY <2>1 DEF LinesAudited
    <3> DEFINE a == [line |-> l, discount |-> tx[d].lines[l].discount]
    <3>1. Present(lines[l]) /\ LineAudited(l, tx[d].lines[l].discount, adjustments)
      BY <2>1 DEF Sound, LinesAudited
    <3>2. lines'[l] = lines[l] /\ Newest(c, l) = lines'[l]
      BY <1>1, <2>2 DEF Present, Newest
    <3>3. a.line = l /\ Newest(c, l).state # "deleted"
      BY <3>1, <3>2 DEF Present
    <3>4. a \in adjustments => a \in adjustments'
      BY <1>1, <3>3
    <3> QED
      BY <3>1, <3>2, <3>4 DEF LineAudited
  <2>5. OrderAudited(pc[d], tx[d])'
    <3>1. \A x : ChoiceAudited(x, discounts) => ChoiceAudited(x, discounts')
      BY <1>1 DEF ChoiceAudited
    <3> QED
      BY <2>1, <3>1 DEF Sound, OrderAudited
  <2>6. LinesLeft(tx[d])'
    BY <2>1, <2>2 DEF Sound, LinesLeft
  <2>7. Figures(d)'
    <3>1. ~(Firm(tx[d]) /\ pc[d] \in Summed)
      BY <1>1, <2>1, FirmAlone
    <3> QED
      BY <2>1, <3>1 DEF Figures, Firm, Summed
  <2> QED
    BY <2>1, <2>3, <2>4, <2>5, <2>6, <2>7
       DEF Sound, Shape, Parameters, Untouched, Taken, OrderTaken, KeptStays, Recalculated, Billed
<1>7. Rows' /\ LineDiscountsCurrent' /\ EveryDiscountAudited'
  BY CommitRows
<1>8. (Kept # {} => TotalsMatchLines)'
  BY CommitExact DEF Firm
<1> QED
  BY <1>4, <1>5, <1>6, <1>7, <1>8 DEF LinesInv

-----------------------------------------------------------------------------
(* Requests                                                                *)

\* A request as it arrives has written nothing.
Unwritten(m) ==
    /\ IsTx(m) /\ m.order = NoTx.order /\ m.lines = NoTx.lines /\ m.todo = {}
    /\ m.adjusted = {} /\ m.audited = {} /\ m.invoiced = {}

\* A request that arrives.
LEMMA BeginKeeps ==
    ASSUME LinesInv, NEW c \in Client, NEW m, NEW first \in First \cup {"startLines"},
           Unwritten(m), Parameters(first, m), first = "startLines" => m.op # "discount",
           UNCHANGED <<database, locks>>, tx' = [tx EXCEPT ![c] = m], Goto(c, first)
    PROVE  LinesInv'
<1>1. /\ UNCHANGED database /\ UNCHANGED <<orderLock, lineLock>> /\ pc' = [pc EXCEPT ![c] = first]
      /\ first \in Statements /\ first \notin Started /\ first # "idle" /\ Requesting
  BY DEF locks, Goto, Statements, LinesInv, First, Started, Summed
<1>2. tx'[c] = m /\ pc'[c] = first
  BY <1>1 DEF Requesting
<1>3. /\ m.order.status = "unwritten" /\ \A l \in Line : m.lines[l].state = "unwritten"
      /\ IsTx(m) /\ IsOrder(m.order) /\ m.lines \in [Line -> GoodRow] /\ m.todo = {}
      /\ m.invoiced = {}
  BY Resting DEF Unwritten
<1>4. Shape(m) /\ Untouched(first, m) /\ Taken(first, m)
  BY <1>1, <1>3 DEF Shape, Untouched, Taken, OrderTaken, First
<1>5. KeptStays(m) /\ Recalculated(first, m) /\ Billed(first, m)
  BY <1>1, <1>3, OrderLinesAssumptions DEF KeptStays, Recalculated, Billed, Started, Summed
<1>6. LinesAudited(m)' /\ OrderAudited(first, m)' /\ LinesLeft(m)' /\ Holding(c)'
  BY <1>1, <1>2, <1>3 DEF LinesAudited, OrderAudited, LinesLeft, Holding, Present, Started, Summed
<1>7. Figures(c)'
  BY <1>1, <1>2 DEF Figures, Started, Summed
<1>8. Sound(c)'
  BY <1>2, <1>4, <1>5, <1>6, <1>7
     DEF Sound, Shape, Parameters, Untouched, Taken, OrderTaken, KeptStays, Recalculated,
         LinesAudited, OrderAudited, LinesLeft, Billed
<1>9. /\ lineLock' \in [Line -> Client \cup {Nobody}]
      /\ \A l \in Line, d \in Client \ {c} : lineLock[l] = d => lineLock'[l] = d
      /\ \A d \in Client \ {c} : orderLock = d => orderLock' = d
  BY <1>1 DEF Requesting
<1> QED
  BY <1>1, <1>8, <1>9, NothingCommitted

\* The five requests.
LEMMA RequestKeeps ==
    ASSUME LinesInv, NEW c \in Client, Request(c) PROVE LinesInv'
<1> USE DEF First
<1>0. IsTx(NoTx) /\ NoTx.todo = {} /\ NoTx.adjusted = {} /\ NoTx.audited = {} /\ NoTx.invoiced = {}
  BY Resting
<1>1. ASSUME NEW i \in Item, NEW l \in Line, AddOrderItem(c, i, l) PROVE LinesInv'
  <2> DEFINE m == [[NoTx EXCEPT !.item = i, !.line = l] EXCEPT !.op = "add"]
  <2>1. Unwritten(m) /\ m.op = "add" /\ m.item = i /\ m.line = l
    BY <1>0 DEF IsTx, Fields, Unwritten
  <2>2. tx' = [tx EXCEPT ![c] = m] /\ Goto(c, "findLine") /\ UNCHANGED <<database, locks>>
    BY <1>1 DEF AddOrderItem, Begin
  <2> HIDE DEF m
  <2>3. Parameters("findLine", m)
    BY <2>1 DEF Parameters
  <2> QED
    BY <2>1, <2>2, <2>3, BeginKeeps
<1>2. ASSUME NEW l \in Line, NEW action \in {"inc", "dec", "remove"}, UpdateItemQty(c, l, action)
      PROVE  LinesInv'
  <2> DEFINE m == [[NoTx EXCEPT !.line = l, !.action = action] EXCEPT !.op = "quantity"]
  <2>1. Unwritten(m) /\ m.op = "quantity" /\ m.action = action /\ m.line = l
    BY <1>0 DEF IsTx, Fields, Unwritten
  <2>2. /\ tx' = [tx EXCEPT ![c] = m] /\ Goto(c, "readQuantity") /\ UNCHANGED <<database, locks>>
        /\ l \in Kept => action = "inc"
    BY <1>2 DEF UpdateItemQty, Begin
  <2> HIDE DEF m
  <2>3. Parameters("readQuantity", m)
    BY <2>1, <2>2 DEF Parameters
  <2> QED
    BY <2>1, <2>2, <2>3, BeginKeeps
<1>3. ASSUME NEW l \in Line, NEW d \in Asked, OverrideItemPrice(c, l, d) PROVE LinesInv'
  <2> DEFINE q == lines[l].quantity
             m == [[NoTx EXCEPT !.line = l, !.choice = d, !.quantity = q] EXCEPT !.op = "override"]
  <2>1. /\ Unwritten(m) /\ m.op = "override" /\ m.choice = d /\ m.line = l /\ m.quantity = q
    BY <1>0 DEF IsTx, Fields, Unwritten
  <2>2. tx' = [tx EXCEPT ![c] = m] /\ Goto(c, "writeDiscount") /\ UNCHANGED <<database, locks>>
    BY <1>3 DEF OverrideItemPrice, Begin
  <2>3. d \in Discount /\ q \in Int
    BY OrderLinesAssumptions DEF ParsedDiscount, LinesInv, Rows, GoodRow, LineRow
  <2> HIDE DEF m
  <2>4. Parameters("writeDiscount", m)
    BY <2>1, <2>3 DEF Parameters
  <2> QED
    BY <2>1, <2>2, <2>4, BeginKeeps
<1>4. ASSUME NEW d, SetOrderDiscount(c, d) PROVE LinesInv'
  <2> DEFINE m == [[NoTx EXCEPT !.choice = d] EXCEPT !.op = "discount"]
  <2>1. Unwritten(m) /\ m.op = "discount"
    BY <1>0 DEF IsTx, Fields, Unwritten
  <2>2. tx' = [tx EXCEPT ![c] = m] /\ Goto(c, "writeChoice") /\ UNCHANGED <<database, locks>>
    BY <1>4 DEF SetOrderDiscount, Begin
  <2> HIDE DEF m
  <2>3. Parameters("writeChoice", m)
    BY <2>1 DEF Parameters
  <2> QED
    BY <2>1, <2>2, <2>3, BeginKeeps
<1>5. ASSUME CloseOrder(c) PROVE LinesInv'
  <2> DEFINE m == [NoTx EXCEPT !.op = "close"]
  <2>1. Unwritten(m) /\ m.op = "close"
    BY <1>0 DEF IsTx, Fields, Unwritten
  <2>2. tx' = [tx EXCEPT ![c] = m] /\ Goto(c, "startLines") /\ UNCHANGED <<database, locks>>
    BY <1>5 DEF CloseOrder, Begin
  <2> HIDE DEF m
  <2>3. Parameters("startLines", m)
    BY DEF Parameters
  <2> QED
    BY <2>1, <2>2, <2>3, BeginKeeps
<1> QED
  BY <1>1, <1>2, <1>3, <1>4, <1>5 DEF Request

-----------------------------------------------------------------------------
(* Statements up to the first write                                        *)

\* A statement that only reads.
LEMMA ReadsOn ==
    ASSUME LinesInv, NEW c \in Client, NEW mine, NEW next \in First \cup {"startLines"},
           pc[c] \in First, tx[c].op # "discount",
           IsTx(mine), mine.op = tx[c].op, mine.todo = tx[c].todo,
           SameWrites(tx[c], mine), SameRecords(tx[c], mine), Parameters(next, mine),
           Local(c, mine), Goto(c, next)
    PROVE  LinesInv'
<1>1. /\ UNCHANGED database /\ UNCHANGED <<orderLock, lineLock>>
      /\ tx' = [tx EXCEPT ![c] = mine] /\ pc' = [pc EXCEPT ![c] = next]
      /\ next \in Statements /\ next \notin Started /\ next # "idle" /\ Requesting
  BY DEF Local, locks, Goto, Statements, LinesInv, First, Started, Summed
<1>2. tx'[c] = mine /\ pc'[c] = next
  BY <1>1 DEF Requesting
<1>3. Sound(c) /\ pc[c] # "commit"
  BY DEF LinesInv, First
<1>4. /\ mine.order.status = "unwritten" /\ \A l \in Line : mine.lines[l].state = "unwritten"
      /\ IsTx(mine) /\ IsOrder(mine.order) /\ mine.lines \in [Line -> GoodRow]
      /\ mine.todo \subseteq Line /\ mine.invoiced = {} /\ mine.op # "discount"
  BY <1>3 DEF Sound, Shape, Untouched, SameWrites, SameRecords, Billed
<1>5. Shape(mine) /\ Untouched(next, mine) /\ Taken(next, mine) /\ KeptStays(mine)
      /\ Recalculated(next, mine) /\ Billed(next, mine)
  BY <1>1, <1>4, OrderLinesAssumptions
     DEF Shape, Untouched, Taken, OrderTaken, KeptStays, Recalculated, Billed, Started, Summed
<1>6. LinesAudited(mine)' /\ OrderAudited(next, mine)' /\ LinesLeft(mine)' /\ Holding(c)'
  BY <1>1, <1>2, <1>4 DEF LinesAudited, OrderAudited, LinesLeft, Holding, Present
<1>7. Figures(c)'
  BY <1>1, <1>2 DEF Figures, Started, Summed
<1>8. Sound(c)'
  BY <1>2, <1>5, <1>6, <1>7
     DEF Sound, Shape, Parameters, Untouched, Taken, OrderTaken, KeptStays, Recalculated,
         LinesAudited, OrderAudited, LinesLeft, Billed
<1>9. /\ lineLock' \in [Line -> Client \cup {Nobody}]
      /\ \A l \in Line, d \in Client \ {c} : lineLock[l] = d => lineLock'[l] = d
      /\ \A d \in Client \ {c} : orderLock = d => orderLock' = d
  BY <1>1 DEF Requesting
<1> QED
  BY <1>1, <1>8, <1>9, NothingCommitted

\* Locking a line takes none from others.
LEMMA LineLocked ==
    ASSUME LinesInv, NEW c \in Client, NEW l \in Line, NEW row \in GoodRow, NEW mine,
           IsTx(mine), mine.lines \in [Line -> GoodRow], WriteLine(c, l, row, mine)
    PROVE  LET m == [mine EXCEPT !.lines[l] = row]
           IN  /\ UNCHANGED database /\ UNCHANGED orderLock
               /\ tx' = [tx EXCEPT ![c] = m] /\ tx'[c] = m
               /\ IsTx(m) /\ m.lines \in [Line -> GoodRow] /\ m.lines[l] = row
               /\ \A k \in Line \ {l} : m.lines[k] = mine.lines[k]
               /\ m.order = mine.order /\ m.adjusted = mine.adjusted /\ m.todo = mine.todo
               /\ SameRequest(mine, m) /\ SameFigures(mine, m) /\ SameRecords(mine, m)
               /\ lineLock' \in [Line -> Client \cup {Nobody}] /\ lineLock'[l] = c
               /\ \A k \in Line, d \in Client : lineLock[k] = d => lineLock'[k] = d
               /\ \A d \in Client : orderLock = d => orderLock' = d
<1> DEFINE m == [mine EXCEPT !.lines[l] = row]
<1>1. /\ lineLock[l] \in {Nobody, c} /\ lineLock' = [lineLock EXCEPT ![l] = c]
      /\ tx' = [tx EXCEPT ![c] = m] /\ UNCHANGED <<database, orderLock>>
  BY DEF WriteLine, Grants
<1>2. Requesting /\ Nobody \notin Client
  BY OrderLinesAssumptions DEF LinesInv
<1>3. /\ IsTx(m) /\ m.lines = [mine.lines EXCEPT ![l] = row] /\ m.order = mine.order
      /\ m.adjusted = mine.adjusted /\ m.todo = mine.todo
      /\ SameRequest(mine, m) /\ SameFigures(mine, m) /\ SameRecords(mine, m)
  BY SetRow
<1> HIDE DEF m
<1>4. /\ m.lines \in [Line -> GoodRow] /\ m.lines[l] = row
      /\ \A k \in Line \ {l} : m.lines[k] = mine.lines[k]
  BY <1>3
<1>5. tx'[c] = m
  BY <1>1, <1>2 DEF Requesting
<1>6. /\ lineLock' \in [Line -> Client \cup {Nobody}] /\ lineLock'[l] = c
      /\ \A k \in Line, d \in Client : lineLock[k] = d => lineLock'[k] = d
  BY <1>1, <1>2 DEF Requesting
<1> QED
  BY <1>1, <1>3, <1>4, <1>5, <1>6 DEF m

\* The first write to a line, by any handler but SetOrderDiscount.
LEMMA FirstWriteKeeps ==
    ASSUME LinesInv, NEW c \in Client, NEW l \in Line, NEW row \in GoodRow, NEW mine,
           pc[c] \in First, tx[c].op # "discount",
           row.state # "unwritten", l \in Kept => Present(row),
           IsTx(mine), mine.op = tx[c].op, mine.order = tx[c].order, mine.lines = tx[c].lines,
           mine.todo = tx[c].todo, SameRecords(tx[c], mine),
           Present(row) => \/ LineAudited(l, row.discount, mine.adjusted)
                           \/ Present(lines[l]) /\ LineAudited(l, row.discount, adjustments),
           WriteLine(c, l, row, mine), Goto(c, "startLines")
    PROVE  LinesInv'
<1> DEFINE m == [mine EXCEPT !.lines[l] = row]
<1>1. Sound(c) /\ Requesting
  BY DEF LinesInv
<1>2. mine.lines \in [Line -> GoodRow] /\ tx[c].invoiced = {}
  BY <1>1 DEF Sound, Shape, Billed, First
<1>3. /\ UNCHANGED database /\ UNCHANGED orderLock
      /\ tx' = [tx EXCEPT ![c] = m] /\ tx'[c] = m
      /\ IsTx(m) /\ m.lines \in [Line -> GoodRow] /\ m.lines[l] = row
      /\ \A k \in Line \ {l} : m.lines[k] = mine.lines[k]
      /\ m.order = mine.order /\ m.adjusted = mine.adjusted /\ m.todo = mine.todo
      /\ SameRequest(mine, m) /\ SameRecords(mine, m)
      /\ lineLock' \in [Line -> Client \cup {Nobody}] /\ lineLock'[l] = c
      /\ \A k \in Line, d \in Client : lineLock[k] = d => lineLock'[k] = d
      /\ \A d \in Client : orderLock = d => orderLock' = d
  BY <1>2, LineLocked
<1> HIDE DEF m
<1>4. pc' = [pc EXCEPT ![c] = "startLines"] /\ pc'[c] = "startLines"
  BY <1>1 DEF Goto, Requesting
<1>5. /\ m.order.status = "unwritten" /\ IsOrder(m.order) /\ m.todo \subseteq Line
      /\ m.invoiced = {} /\ m.op # "discount"
      /\ \A k \in Line \ {l} : m.lines[k].state = "unwritten"
  BY <1>1, <1>2, <1>3 DEF Sound, Shape, Untouched, SameRecords, SameRequest
<1>6. Shape(m) /\ Parameters("startLines", m) /\ Untouched("startLines", m)
      /\ Taken("startLines", m) /\ Recalculated("startLines", m) /\ Billed("startLines", m)
  BY <1>3, <1>5
     DEF Shape, Parameters, Untouched, Taken, OrderTaken, Recalculated, Billed, First, Started, Summed
<1>7. KeptStays(m)
  BY <1>3, <1>5, OrderLinesAssumptions DEF KeptStays
<1>8. LinesAudited(m)'
  <2>1. UNCHANGED <<lines, adjustments>>
    BY <1>3 DEF database
  <2> QED
    BY <1>3, <1>5, <2>1 DEF LinesAudited, Present
<1>9. OrderAudited("startLines", m)' /\ LinesLeft(m)'
  BY <1>5 DEF OrderAudited, LinesLeft
<1>10. Holding(c)'
  BY <1>3, <1>5 DEF Holding
<1>11. Figures(c)'
  BY <1>4 DEF Figures, Summed
<1>12. Sound(c)'
  BY <1>3, <1>4, <1>6, <1>7, <1>8, <1>9, <1>10, <1>11
     DEF Sound, Shape, Parameters, Untouched, Taken, OrderTaken, KeptStays, Recalculated,
         LinesAudited, OrderAudited, LinesLeft, Billed
<1>13. "startLines" \in Statements
  BY DEF Statements
<1>14. /\ \A k \in Line, d \in Client \ {c} : lineLock[k] = d => lineLock'[k] = d
       /\ \A d \in Client \ {c} : orderLock = d => orderLock' = d
  BY <1>3
<1>15. /\ UNCHANGED database /\ tx' = [tx EXCEPT ![c] = m]
       /\ lineLock' \in [Line -> Client \cup {Nobody}]
  BY <1>3
<1> QED
  BY <1>4, <1>12, <1>13, <1>14, <1>15, NothingCommitted

-----------------------------------------------------------------------------
(* Later statements                                                        *)

\* What a request sees that has written these rows.
SeenBy(t) == [l \in Line |-> IF t.lines[l].state # "unwritten" THEN t.lines[l] ELSE lines[l]]
SeenOrderBy(t) == IF t.order.status # "unwritten" THEN t.order ELSE order

FiguresOf(p, t) ==
    Firm(t) =>
      /\ p \in Summed \ {"sum"} =>
           t.subtotal = Subtotal(SeenBy(t)) /\ t.lineDiscount = LineDiscounts(SeenBy(t))
      /\ p \in {"writeTotals", "audit", "close", "commit"} =>
           t.totals = Totals(t.subtotal, t.lineDiscount, SeenOrderBy(t).chosen, Tax)
      /\ p \in {"audit", "close", "commit"} => Amounts(t.order) = t.totals
      /\ p = "commit" /\ t.op = "discount" =>
           \A a \in t.audited : a.amount = t.order.discount - LineDiscounts(SeenBy(t))

HoldingOf(c, t, ofLines, ofOrder) ==
    /\ \A l \in Line : t.lines[l].state # "unwritten" => ofLines[l] = c
    /\ t.order.status # "unwritten" => ofOrder = c

\* What a request must be before its statement p.
SoundOf(p, t) ==
    /\ Shape(t) /\ Parameters(p, t) /\ Untouched(p, t) /\ Taken(p, t)
    /\ KeptStays(t) /\ Recalculated(p, t)
    /\ LinesAudited(t) /\ OrderAudited(p, t) /\ LinesLeft(t)
    /\ FiguresOf(p, t) /\ Billed(p, t)

\* It is so in every state of the invariant.
LEMMA SoundSoFar ==
    ASSUME LinesInv, NEW c \in Client
    PROVE  /\ SoundOf(pc[c], tx[c]) /\ HoldingOf(c, tx[c], lineLock, orderLock)
           /\ Seen(c) = SeenBy(tx[c]) /\ SeenOrder(c) = SeenOrderBy(tx[c])
           /\ \A l \in Line : Newest(c, l) = SeenBy(tx[c])[l]
<1>1. Seen(c) = SeenBy(tx[c]) /\ SeenOrder(c) = SeenOrderBy(tx[c])
      /\ \A l \in Line : Newest(c, l) = SeenBy(tx[c])[l]
  BY DEF Seen, SeenBy, Newest, SeenOrder, SeenOrderBy
<1>2. Sound(c)
  BY DEF LinesInv
<1>3. FiguresOf(pc[c], tx[c])
  BY <1>1, <1>2 DEF Sound, Figures, FiguresOf
<1>4. HoldingOf(c, tx[c], lineLock, orderLock)
  BY <1>2 DEF Sound, Holding, HoldingOf
<1> QED
  BY <1>1, <1>2, <1>3, <1>4 DEF Sound, SoundOf

\* A statement that leaves its own request sound, and takes no row from others.
LEMMA StatementKeeps ==
    ASSUME LinesInv, NEW c \in Client, NEW m, NEW next \in Statements,
           SoundOf(next, m), HoldingOf(c, m, lineLock', orderLock'),
           UNCHANGED database, tx' = [tx EXCEPT ![c] = m], pc' = [pc EXCEPT ![c] = next],
           lineLock' \in [Line -> Client \cup {Nobody}],
           \A l \in Line, d \in Client \ {c} : lineLock[l] = d => lineLock'[l] = d,
           \A d \in Client \ {c} : orderLock = d => orderLock' = d
    PROVE  LinesInv'
<1>1. Requesting
  BY DEF LinesInv
<1>2. tx'[c] = m /\ pc'[c] = next /\ UNCHANGED <<order, lines, adjustments, discounts>>
  BY <1>1 DEF Requesting, database
<1>3. Seen(c)' = SeenBy(m) /\ SeenOrder(c)' = SeenOrderBy(m)
  BY <1>2 DEF Seen, SeenBy, Newest, SeenOrder, SeenOrderBy
<1>4. Figures(c)'
  BY <1>2, <1>3 DEF SoundOf, FiguresOf, Figures, Firm
<1>5. Holding(c)'
  BY <1>2 DEF Holding, HoldingOf
<1>6. Sound(c)'
  BY <1>2, <1>4, <1>5
     DEF SoundOf, Sound, Shape, Parameters, Untouched, Taken, OrderTaken, KeptStays, Recalculated,
         LinesAudited, OrderAudited, LinesLeft, Billed
<1> QED
  BY <1>6, NothingCommitted

\* A statement that writes nothing.
LEMMA LocalKeeps ==
    ASSUME LinesInv, NEW c \in Client, NEW m, NEW next \in Statements,
           SoundOf(next, m), SameWrites(tx[c], m), Local(c, m), Goto(c, next)
    PROVE  LinesInv'
<1>1. /\ UNCHANGED database /\ UNCHANGED <<orderLock, lineLock>> /\ Requesting
      /\ tx' = [tx EXCEPT ![c] = m] /\ pc' = [pc EXCEPT ![c] = next]
  BY DEF Local, locks, Goto, LinesInv
<1>2. HoldingOf(c, m, lineLock', orderLock')
  BY <1>1, SoundSoFar DEF HoldingOf, SameWrites
<1>3. /\ lineLock' \in [Line -> Client \cup {Nobody}]
      /\ \A l \in Line, d \in Client \ {c} : lineLock[l] = d => lineLock'[l] = d
      /\ \A d \in Client \ {c} : orderLock = d => orderLock' = d
  BY <1>1 DEF Requesting
<1> QED
  BY <1>1, <1>2, <1>3, StatementKeeps

\* A statement that writes the row of the order.
LEMMA OrderWriteKeeps ==
    ASSUME LinesInv, NEW c \in Client, NEW row, NEW mine, NEW next \in Statements,
           SoundOf(next, [mine EXCEPT !.order = row]), IsTx(mine), mine.lines = tx[c].lines,
           WriteOrder(c, row, mine), Goto(c, next)
    PROVE  LinesInv'
<1> DEFINE m == [mine EXCEPT !.order = row]
<1>1. /\ UNCHANGED database /\ UNCHANGED lineLock /\ orderLock' = c /\ Requesting
      /\ orderLock \in {Nobody, c} /\ tx' = [tx EXCEPT ![c] = m] /\ pc' = [pc EXCEPT ![c] = next]
  BY DEF WriteOrder, Grants, Goto, LinesInv
<1>2. SoundOf(next, m) /\ m.lines = tx[c].lines
  BY SetOrder
<1> HIDE DEF m
<1>3. HoldingOf(c, m, lineLock', orderLock')
  BY <1>1, <1>2, SoundSoFar DEF HoldingOf
<1>4. /\ lineLock' \in [Line -> Client \cup {Nobody}]
      /\ \A l \in Line, d \in Client \ {c} : lineLock[l] = d => lineLock'[l] = d
      /\ \A d \in Client \ {c} : orderLock = d => orderLock' = d
  BY <1>1, OrderLinesAssumptions DEF Requesting
<1>5. UNCHANGED database /\ tx' = [tx EXCEPT ![c] = m] /\ pc' = [pc EXCEPT ![c] = next]
  BY <1>1
<1> QED
  BY <1>2, <1>3, <1>4, <1>5, StatementKeeps

-----------------------------------------------------------------------------
(* AddOrderItem, UpdateItemQty, OverrideItemPrice                          *)

\* The columns of a line.
LEMMA Columns ==
    ASSUME NEW r \in GoodRow
    PROVE  /\ r \in LineRow /\ (Present(r) => r.item \in Item)
           /\ r.quantity \in Int /\ r.quantity + 1 \in Int /\ r.quantity - 1 \in Int
           /\ r.discount \in Discount \cup {NoDiscount} /\ r.state \in LineState
  BY DEF GoodRow, Present, LineRow

\* A column that changes keeps it a line, of the item it was of.
LEMMA SetCount ==
    ASSUME NEW r \in GoodRow, NEW q \in Int
    PROVE  LET n == [r EXCEPT !.quantity = q]
           IN  n \in GoodRow /\ n.state = r.state /\ n.discount = r.discount
  BY Columns DEF GoodRow, Present, LineRow

\* So do the two of a discount,
LEMMA SetDiscount ==
    ASSUME NEW r \in GoodRow, NEW d \in Discount \cup {NoDiscount}, NEW a \in Int
    PROVE  LET n == [r EXCEPT !.discount = d, !.amount = a]
           IN  n \in GoodRow /\ n.state = r.state /\ n.discount = d
  BY Columns DEF GoodRow, Present, LineRow

\* and its amount, which may be the one it was.
LEMMA SetAmount ==
    ASSUME NEW r \in GoodRow, NEW a \in Int
    PROVE  LET n == [r EXCEPT !.amount = a]
           IN  /\ n \in GoodRow /\ n.state = r.state /\ n.discount = r.discount
               /\ n.item = r.item /\ n.quantity = r.quantity /\ n.amount = a
               /\ a = r.amount => n = r
  BY Columns DEF GoodRow, Present, LineRow

\* Discounts are integers.
LEMMA AmountsAreIntegers ==
    /\ \A b \in Int, d \in Discount : CalculateDiscount(b, d) \in Int
    /\ \A r \in GoodRow : Present(r) => CurrentAmount(r) \in Int
<1>1. \A b \in Int, v \in Nat : PercentOf(b, v) \in Int
  BY DEF PercentOf
<1>2. \A b \in Int, d \in Discount : CalculateDiscount(b, d) \in Int
  BY <1>1 DEF CalculateDiscount, AtMost, Discount
<1>3. ASSUME NEW r \in GoodRow, Present(r) PROVE CurrentAmount(r) \in Int
  <2>1. r.quantity \in Int /\ r.discount \in Discount \cup {NoDiscount} /\ Price[r.item] \in Nat
    BY <1>3, OrderLinesAssumptions DEF GoodRow, LineRow
  <2> DEFINE b == r.quantity * Price[r.item]
  <2>2. b \in Int /\ r.discount.value \in Nat
    BY <2>1 DEF Discount, NoDiscount
  <2>3. PercentOf(b, r.discount.value) \in Int
    BY <1>1, <2>2
  <2> HIDE DEF b
  <2>4. \A x \in Int : LeastOf(b, x) \in Int
    BY <2>2 DEF LeastOf
  <2>5. CurrentAmount(r) \in {LeastOf(b, r.discount.value),
                              LeastOf(b, PercentOf(b, r.discount.value)), 0}
    BY DEF CurrentAmount, LineDiscount, b
  <2> QED
    BY <2>2, <2>3, <2>4, <2>5
<1> QED
  BY <1>2, <1>3

\* The statement finds a line of the item, or none.
LEMMA FindLineKeeps ==
    ASSUME LinesInv, NEW c \in Client, FindLine(c) PROVE LinesInv'
<1>1. Sound(c) /\ pc[c] = "findLine" /\ Goto(c, "addToLine")
  BY DEF FindLine, At, LinesInv
<1>2. IsTx(tx[c]) /\ tx[c].line \in Line /\ tx[c].item \in Item /\ tx[c].op # "discount"
      /\ pc[c] \in First /\ "addToLine" \in First
  BY <1>1 DEF Sound, Shape, Parameters, First
<1>3. CASE Local(c, tx[c])
  <2>1. Parameters("addToLine", tx[c])
    BY <1>2 DEF Parameters
  <2> QED
    BY <1>1, <1>2, <1>3, <2>1, ReadsOn DEF SameWrites, SameRecords
<1>4. ASSUME NEW l \in LineOf(tx[c].item), Local(c, [tx[c] EXCEPT !.line = l]) PROVE LinesInv'
  <2> DEFINE m == [tx[c] EXCEPT !.line = l]
  <2>1. /\ IsTx(m) /\ m.line = l /\ m.op = tx[c].op /\ m.item = tx[c].item /\ m.todo = tx[c].todo
        /\ SameWrites(tx[c], m) /\ SameRecords(tx[c], m)
    BY <1>2, SetLine
  <2>2. Local(c, m)
    BY <1>4
  <2> HIDE DEF m
  <2>3. Parameters("addToLine", m)
    BY <1>2, <1>4, <2>1 DEF Parameters, LineOf
  <2> QED
    BY <1>1, <1>2, <2>1, <2>2, <2>3, ReadsOn
<1> QED
  BY <1>3, <1>4 DEF FindLine

\* Before its first write a request sees the rows that are committed.
LEMMA SeesCommitted ==
    ASSUME LinesInv, NEW c \in Client, pc[c] \in First
    PROVE  /\ \A l \in Line : Newest(c, l) = lines[l]
           /\ SeenOrder(c) = order
           /\ IsTx(tx[c]) /\ lines \in [Line -> GoodRow]
           /\ \A l \in Line : lines[l].state # "unwritten"
           /\ \A l \in Kept : Present(lines[l])
           /\ \A l \in Line : Present(lines[l]) => LineAudited(l, lines[l].discount, adjustments)
<1>1. Sound(c) /\ Rows /\ EveryDiscountAudited
  BY DEF LinesInv
<1> QED
  BY <1>1 DEF Sound, Untouched, Newest, SeenOrder, Shape, Rows, EveryDiscountAudited, PresentIn,
              LineAudited

\* A new line, one more of the line there is, or nothing if that is gone.
LEMMA AddToLineKeeps ==
    ASSUME LinesInv, NEW c \in Client, AddToLine(c) PROVE LinesInv'
<1> DEFINE l == tx[c].line
           row == lines[l]
<1>1. Sound(c) /\ pc[c] = "addToLine" /\ Goto(c, "startLines") /\ pc[c] \in First
  BY DEF AddToLine, At, LinesInv, First
<1>2. l \in Line /\ tx[c].item \in Item /\ tx[c].op # "discount" /\ IsTx(tx[c])
  BY <1>1 DEF Sound, Parameters, Shape, First
<1>3. /\ Newest(c, l) = row /\ row \in GoodRow /\ row.state # "unwritten"
      /\ l \in Kept => Present(row)
      /\ Present(row) => LineAudited(l, row.discount, adjustments)
  BY <1>1, <1>2, SeesCommitted
<1>4. SameRecords(tx[c], tx[c]) /\ SameWrites(tx[c], tx[c])
  BY DEF SameRecords, SameWrites
<1>5. ASSUME row.state = "none", WriteLine(c, l, NewLine(tx[c].item), tx[c]) PROVE LinesInv'
  <2> DEFINE n == NewLine(tx[c].item)
  <2>1. n \in GoodRow /\ Present(n) /\ n.discount = NoDiscount /\ n.state # "unwritten"
    BY <1>2, NewRows DEF Present
  <2>2. WriteLine(c, l, n, tx[c])
    BY <1>5
  <2> HIDE DEF n
  <2>3. LineAudited(l, n.discount, tx[c].adjusted)
    BY <2>1 DEF LineAudited
  <2> HIDE DEF l
  <2> QED
    BY <1>1, <1>2, <1>4, <2>1, <2>2, <2>3, FirstWriteKeeps
<1>6. ASSUME Present(row), WriteLine(c, l, [row EXCEPT !.quantity = @ + 1], tx[c]) PROVE LinesInv'
  <2> DEFINE n == [row EXCEPT !.quantity = row.quantity + 1]
  <2>1. n \in GoodRow /\ n.state = row.state /\ n.discount = row.discount
    BY <1>3, Columns, SetCount
  <2>2. WriteLine(c, l, n, tx[c])
    BY <1>6
  <2> HIDE DEF n
  <2>3. Present(n) /\ n.state # "unwritten" /\ LineAudited(l, n.discount, adjustments)
    BY <1>3, <1>6, <2>1 DEF Present
  <2> HIDE DEF l
  <2> QED
    BY <1>1, <1>2, <1>4, <1>6, <2>1, <2>2, <2>3, FirstWriteKeeps
<1>7. ASSUME Local(c, tx[c]) PROVE LinesInv'
  <2>1. Parameters("startLines", tx[c])
    BY DEF Parameters, First
  <2> QED
    BY <1>1, <1>2, <1>4, <1>7, <2>1, ReadsOn
<1> QED
  <2>1. \/ row.state = "none" /\ WriteLine(c, l, NewLine(tx[c].item), tx[c])
        \/ Present(row) /\ WriteLine(c, l, [row EXCEPT !.quantity = @ + 1], tx[c])
        \/ Local(c, tx[c])
    BY <1>3 DEF AddToLine
  <2> QED
    BY <1>5, <1>6, <1>7, <2>1

\* The quantity is read, or the request is undone.
LEMMA ReadQuantityKeeps ==
    ASSUME LinesInv, NEW c \in Client, ReadQuantity(c) PROVE LinesInv'
<1> DEFINE q == lines[tx[c].line].quantity
           m == [tx[c] EXCEPT !.quantity = q]
<1>1. Sound(c) /\ pc[c] = "readQuantity" /\ pc[c] \in First /\ "writeQuantity" \in First
  BY DEF ReadQuantity, At, LinesInv, First
<1>2. /\ tx[c].line \in Line /\ (tx[c].line \in Kept => tx[c].action = "inc")
      /\ tx[c].op # "discount" /\ IsTx(tx[c])
  BY <1>1 DEF Sound, Parameters, Shape, First
<1>3. CASE Rollback(c)
  BY <1>3, RollbackKeeps
<1>4. ASSUME Local(c, m), Goto(c, "writeQuantity") PROVE LinesInv'
  <2>1. /\ IsTx(m) /\ m.todo = tx[c].todo /\ SameRequest(tx[c], m)
        /\ SameWrites(tx[c], m) /\ SameRecords(tx[c], m)
    BY <1>2, SetQuantity
  <2>2. Local(c, m)
    BY <1>4
  <2> HIDE DEF m
  <2>3. Parameters("writeQuantity", m) /\ m.op = tx[c].op
    BY <1>2, <2>1 DEF Parameters, SameRequest, First
  <2> QED
    BY <1>1, <1>2, <1>4, <2>1, <2>2, <2>3, ReadsOn
<1> QED
  BY <1>3, <1>4 DEF ReadQuantity

\* One more or less of the line, its deletion, or nothing if it is gone.
LEMMA WriteQuantityKeeps ==
    ASSUME LinesInv, NEW c \in Client, WriteQuantity(c) PROVE LinesInv'
<1> DEFINE l == tx[c].line
           row == lines[l]
<1>1. Sound(c) /\ pc[c] = "writeQuantity" /\ Goto(c, "startLines") /\ pc[c] \in First
  BY DEF WriteQuantity, At, LinesInv, First
<1>2. /\ l \in Line /\ (l \in Kept => tx[c].action = "inc") /\ tx[c].op # "discount"
      /\ IsTx(tx[c])
  BY <1>1 DEF Sound, Parameters, Shape, First
<1>3. /\ row \in GoodRow
      /\ Present(row) => LineAudited(l, row.discount, adjustments)
  BY <1>1, <1>2, SeesCommitted
<1>4. SameRecords(tx[c], tx[c]) /\ SameWrites(tx[c], tx[c])
  BY DEF SameRecords, SameWrites
<1>5. ASSUME NEW q \in Int, Present(row), WriteLine(c, l, [row EXCEPT !.quantity = q], tx[c])
      PROVE  LinesInv'
  <2> DEFINE n == [row EXCEPT !.quantity = q]
  <2>1. n \in GoodRow /\ n.state = row.state /\ n.discount = row.discount
    BY <1>3, SetCount
  <2>2. WriteLine(c, l, n, tx[c])
    BY <1>5
  <2> HIDE DEF n
  <2>3. Present(n) /\ n.state # "unwritten" /\ LineAudited(l, n.discount, adjustments)
    BY <1>3, <1>5, <2>1 DEF Present
  <2> HIDE DEF l
  <2> QED
    BY <1>1, <1>2, <1>4, <1>5, <2>1, <2>2, <2>3, FirstWriteKeeps
<1>6. ASSUME l \notin Kept, WriteLine(c, l, Blank("deleted"), tx[c]) PROVE LinesInv'
  <2> DEFINE n == Blank("deleted")
  <2>1. n \in GoodRow /\ n.state # "unwritten" /\ ~Present(n)
    <3>1. "deleted" \in LineState \ {"present"}
      BY DEF LineState
    <3> QED
      BY <3>1, NewRows
  <2>2. WriteLine(c, l, n, tx[c])
    BY <1>6
  <2> HIDE DEF n, l
  <2> QED
    BY <1>1, <1>2, <1>4, <1>6, <2>1, <2>2, FirstWriteKeeps
<1>7. ASSUME Local(c, tx[c]) PROVE LinesInv'
  <2>1. Parameters("startLines", tx[c])
    BY DEF Parameters, First
  <2> QED
    BY <1>1, <1>2, <1>4, <1>7, <2>1, ReadsOn
<1> QED
  <2>1. \/ Present(row) /\ WriteLine(c, l, [row EXCEPT !.quantity = @ + 1], tx[c])
        \/ Present(row) /\ WriteLine(c, l, [row EXCEPT !.quantity = @ - 1], tx[c])
        \/ l \notin Kept /\ WriteLine(c, l, Blank("deleted"), tx[c])
        \/ Local(c, tx[c])
    BY <1>2 DEF WriteQuantity
  <2>2. row.quantity + 1 \in Int /\ row.quantity - 1 \in Int
    BY <1>3, Columns
  <2> QED
    BY <1>5, <1>6, <1>7, <2>1, <2>2

\* The discount of the line and its audit row.
LEMMA WriteDiscountKeeps ==
    ASSUME LinesInv, NEW c \in Client, WriteDiscount(c) PROVE LinesInv'
<1> DEFINE l == tx[c].line
           row == lines[l]
           d == tx[c].choice
           amount == CalculateDiscount(tx[c].quantity * Price[row.item], d)
           n == [row EXCEPT !.discount = d, !.amount = amount]
           m == [tx[c] EXCEPT !.adjusted = Audited(l, d)]
<1>1. Sound(c) /\ pc[c] = "writeDiscount" /\ pc[c] \in First
  BY DEF WriteDiscount, At, LinesInv, First
<1>2. l \in Line /\ d \in Discount /\ tx[c].quantity \in Int /\ tx[c].op # "discount" /\ IsTx(tx[c])
  BY <1>1 DEF Sound, Parameters, Shape, First
<1>3. row \in GoodRow
  BY <1>1, <1>2, SeesCommitted
<1>4. ASSUME Present(row), WriteLine(c, l, n, m), Goto(c, "startLines") PROVE LinesInv'
  <2>1. amount \in Int
    <3>1. Price[row.item] \in Nat
      BY <1>3, <1>4, Columns, OrderLinesAssumptions
    <3>2. tx[c].quantity * Price[row.item] \in Int
      BY <1>2, <3>1
    <3> QED
      BY <1>2, <3>2, AmountsAreIntegers
  <2>2. WriteLine(c, l, n, m)
    BY <1>4
  <2>3. n \in GoodRow /\ n.state = row.state /\ n.discount = d
    <3>1. d \in Discount \cup {NoDiscount}
      BY <1>2
    <3> HIDE DEF amount, d, row
    <3> QED
      BY <1>3, <2>1, <3>1, SetDiscount
  <2>4. /\ IsTx(m) /\ m.adjusted = Audited(l, d) /\ m.order = tx[c].order
        /\ m.lines = tx[c].lines /\ m.todo = tx[c].todo
        /\ SameRequest(tx[c], m) /\ SameRecords(tx[c], m)
    BY <1>2, SetAdjusted
  <2> HIDE DEF n, m
  <2>5. /\ Present(n) /\ n.state # "unwritten" /\ LineAudited(l, n.discount, m.adjusted)
        /\ m.op = tx[c].op
    BY <1>4, <2>3, <2>4 DEF Present, LineAudited, Audited, SameRequest
  <2> HIDE DEF l
  <2> QED
    BY <1>1, <1>2, <1>4, <2>2, <2>3, <2>4, <2>5, FirstWriteKeeps
<1>5. CASE Rollback(c)
  BY <1>5, RollbackKeeps
<1> QED
  BY <1>4, <1>5 DEF WriteDiscount

-----------------------------------------------------------------------------
(* SetOrderDiscount: its first write                                       *)

\* The choice of the discount, under the lock of the order.
LEMMA WriteChoiceKeeps ==
    ASSUME LinesInv, NEW c \in Client, WriteChoice(c) PROVE LinesInv'
<1> DEFINE t == tx[c]
           n == [order EXCEPT !.chosen = t.choice]
           m == [t EXCEPT !.order = n]
<1>1. SoundOf(pc[c], t) /\ pc[c] = "writeChoice" /\ pc[c] \in First /\ Rows
  BY SoundSoFar DEF WriteChoice, At, LinesInv, First
<1>2. WriteOrder(c, n, t) /\ Goto(c, "startLines")
  BY <1>1, SeesCommitted DEF WriteChoice
<1>3. /\ Shape(t) /\ t.op = "discount" /\ t.invoiced = {}
      /\ \A l \in Line : t.lines[l].state = "unwritten"
  BY <1>1 DEF SoundOf, Parameters, Untouched, Billed
<1>4. IsOrder(n) /\ n.status # "unwritten" /\ n.chosen = t.choice
  BY <1>1 DEF Rows, IsOrder, OrderColumns
<1>5. /\ IsTx(m) /\ m.order = n /\ m.lines = t.lines /\ m.todo = t.todo
      /\ m.op = "discount" /\ m.choice = t.choice /\ m.invoiced = {}
  BY <1>3, SetOrder DEF Shape, SameRequest, SameRecords
<1> HIDE DEF n, m
<1>6. Shape(m) /\ Parameters("startLines", m) /\ Untouched("startLines", m)
      /\ Taken("startLines", m)
  BY <1>3, <1>4, <1>5 DEF Shape, Parameters, Untouched, Taken, First
<1>7. KeptStays(m) /\ Recalculated("startLines", m) /\ LinesAudited(m) /\ LinesLeft(m)
  BY <1>3, <1>5, OrderLinesAssumptions
     DEF KeptStays, Recalculated, LinesAudited, LinesLeft, Started, Summed, Present
<1>8. OrderAudited("startLines", m) /\ FiguresOf("startLines", m) /\ Billed("startLines", m)
  BY <1>4, <1>5 DEF OrderAudited, FiguresOf, Billed, Summed
<1>9. SoundOf("startLines", m)
  BY <1>6, <1>7, <1>8 DEF SoundOf
<1>10. SoundOf("startLines", [t EXCEPT !.order = n]) /\ "startLines" \in Statements
  BY <1>9 DEF m, Statements
<1> QED
  BY <1>2, <1>3, <1>10, OrderWriteKeeps DEF Shape

-----------------------------------------------------------------------------
(* RecalculateOrderTotals                                                  *)

\* What a request sees of the lines.
LEMMA SeenLines ==
    ASSUME LinesInv, NEW c \in Client
    PROVE  /\ Seen(c) = SeenBy(tx[c]) /\ PresentIn(Seen(c)) \subseteq Line
           /\ \A l \in Line : Newest(c, l) \in GoodRow /\ Newest(c, l).state # "unwritten"
           /\ \A l \in Line : Present(tx[c].lines[l]) =>
                Newest(c, l) = tx[c].lines[l] /\ l \in PresentIn(Seen(c))
           /\ \A l \in Kept : l \in Line /\ Present(Newest(c, l)) /\ l \in PresentIn(Seen(c))
           /\ \A l \in Line : tx[c].lines[l].state = "unwritten" => Newest(c, l) = lines[l]
<1>1. SoundOf(pc[c], tx[c]) /\ Rows /\ Seen(c) = SeenBy(tx[c])
  BY SoundSoFar DEF LinesInv
<1>2. /\ tx[c].lines \in [Line -> GoodRow] /\ lines \in [Line -> GoodRow] /\ KeptStays(tx[c])
      /\ \A l \in Line : lines[l].state # "unwritten"
      /\ \A l \in Kept : Present(lines[l])
  BY <1>1 DEF SoundOf, Shape, Rows
<1>3. \A l \in Line : Seen(c)[l] = Newest(c, l)
  BY DEF Seen
<1>4. \A l \in Line : Newest(c, l) \in GoodRow /\ Newest(c, l).state # "unwritten"
  BY <1>2 DEF Newest
<1>5. ASSUME NEW l \in Line, Present(tx[c].lines[l])
      PROVE  Newest(c, l) = tx[c].lines[l] /\ l \in PresentIn(Seen(c))
  BY <1>3, <1>5 DEF Newest, PresentIn, Present
<1>6. ASSUME NEW l \in Kept
      PROVE  l \in Line /\ Present(Newest(c, l)) /\ l \in PresentIn(Seen(c))
  BY <1>2, <1>3, OrderLinesAssumptions DEF Newest, PresentIn, KeptStays
<1>7. \A l \in Line : tx[c].lines[l].state = "unwritten" => Newest(c, l) = lines[l]
  BY DEF Newest
<1>8. PresentIn(Seen(c)) \subseteq Line
  BY DEF PresentIn
<1> QED
  BY <1>1, <1>4, <1>5, <1>6, <1>7, <1>8

\* The UPDATE of the lines is of all there are.
LEMMA StartLinesKeeps ==
    ASSUME LinesInv, NEW c \in Client, StartLines(c) PROVE LinesInv'
<1> DEFINE t == tx[c]
           S == PresentIn(Seen(c))
           m == [t EXCEPT !.todo = S]
           next == IF S = {} THEN "sum" ELSE "updateLines"
<1>1. SoundOf("startLines", t) /\ Local(c, m) /\ Goto(c, next)
  BY SoundSoFar DEF StartLines, At
<1>2. IsTx(t)
  BY <1>1 DEF SoundOf, Shape
<1>3. /\ IsTx(m) /\ m.todo = S /\ SameRequest(t, m) /\ SameWrites(t, m) /\ SameRecords(t, m)
  BY <1>2, SetTodo
<1>4. Local(c, m)
  BY <1>1
<1> HIDE DEF m
<1>5. S \subseteq Line
  BY SeenLines
<1>6. (\A l \in Line : Present(t.lines[l]) => l \in S) /\ \A l \in Kept : l \in S
  BY SeenLines
<1> HIDE DEF S
<1>7. next \in {"sum", "updateLines"} /\ (next = "sum" => S = {})
  OBVIOUS
<1> HIDE DEF next
<1>8. Shape(m) /\ Parameters(next, m) /\ Untouched(next, m) /\ Billed(next, m)
  BY <1>1, <1>3, <1>5, <1>7
     DEF SoundOf, Shape, Parameters, Untouched, Billed, First, SameWrites, SameRecords
<1>9. Taken(next, m)
  BY <1>1, <1>3, <1>7 DEF SoundOf, Taken, OrderTaken, First, SameRequest, SameWrites
<1>10. KeptStays(m) /\ LinesAudited(m) /\ LinesLeft(m)
  BY <1>1, <1>3 DEF SoundOf, KeptStays, LinesAudited, LinesLeft, SameRequest, SameWrites
<1>11. OrderAudited(next, m) /\ FiguresOf(next, m)
  BY <1>1, <1>3, <1>7
     DEF SoundOf, OrderAudited, FiguresOf, Summed, SameRequest, SameWrites
<1>12. Recalculated(next, m)
  BY <1>3, <1>6, <1>7 DEF Recalculated, Summed, SameWrites
<1>13. SoundOf(next, m) /\ next \in Statements
  BY <1>7, <1>8, <1>9, <1>10, <1>11, <1>12 DEF SoundOf, Statements, Started, Summed
<1> QED
  BY <1>1, <1>3, <1>4, <1>13, LocalKeeps

\* One of them brought up to date, or passed over.
LEMMA UpdateLineKeeps ==
    ASSUME LinesInv, NEW c \in Client, NEW l \in Line, UpdateLine(c, l) PROVE LinesInv'
<1> DEFINE t == tx[c]
           row == Newest(c, l)
           updated == [row EXCEPT !.amount = CurrentAmount(row)]
           rest == [t EXCEPT !.todo = t.todo \ {l}]
           next == IF rest.todo = {} THEN "sum" ELSE "updateLines"
<1>1. /\ SoundOf("updateLines", t) /\ l \in t.todo /\ Goto(c, next)
      /\ \/ Present(row) /\ WriteLine(c, l, updated, rest)
         \/ ~Present(row) /\ Local(c, rest)
  BY SoundSoFar DEF UpdateLine, At
<1>2. IsTx(t) /\ Shape(t)
  BY <1>1 DEF SoundOf, Shape
<1>3. /\ IsTx(rest) /\ rest.todo = t.todo \ {l}
      /\ SameRequest(t, rest) /\ SameWrites(t, rest) /\ SameRecords(t, rest)
  BY <1>2, SetTodo
<1>4. /\ row \in GoodRow /\ row.state # "unwritten"
      /\ Present(t.lines[l]) => row = t.lines[l]
      /\ l \in Kept => Present(row)
      /\ t.lines[l].state = "unwritten" => row = lines[l]
  BY SeenLines
<1>5. next \in {"sum", "updateLines"} /\ (next = "sum" => rest.todo = {})
  OBVIOUS
<1> HIDE DEF rest, next
<1>6. Parameters(next, t) /\ Untouched(next, t) /\ Taken(next, t) /\ OrderAudited(next, t)
  BY <1>1, <1>5
     DEF SoundOf, Parameters, Untouched, Taken, OrderTaken, OrderAudited, First
<1>7. t.invoiced = {}
  BY <1>1 DEF SoundOf, Billed
<1>8. ASSUME ~Present(row), Local(c, rest) PROVE LinesInv'
  <2>1. Shape(rest) /\ KeptStays(rest) /\ LinesAudited(rest) /\ LinesLeft(rest)
    BY <1>1, <1>2, <1>3
       DEF SoundOf, Shape, KeptStays, LinesAudited, LinesLeft, SameRequest, SameWrites
  <2>2. Parameters(next, rest) /\ Untouched(next, rest) /\ Taken(next, rest)
        /\ OrderAudited(next, rest)
    BY <1>3, <1>5, <1>6
       DEF Parameters, Untouched, Taken, OrderTaken, OrderAudited, First, SameRequest, SameWrites
  <2>3. Recalculated(next, rest)
    BY <1>1, <1>3, <1>4, <1>5, <1>8, OrderLinesAssumptions
       DEF SoundOf, Recalculated, Started, Summed, SameWrites
  <2>4. FiguresOf(next, rest) /\ Billed(next, rest)
    BY <1>3, <1>5, <1>7 DEF FiguresOf, Billed, Summed, SameRecords
  <2>5. SoundOf(next, rest) /\ next \in Statements
    BY <1>5, <2>1, <2>2, <2>3, <2>4 DEF SoundOf, Statements, Started, Summed
  <2> QED
    BY <1>1, <1>3, <1>8, <2>5, LocalKeeps
<1>9. ASSUME Present(row), WriteLine(c, l, updated, rest) PROVE LinesInv'
  <2> DEFINE m == [rest EXCEPT !.lines[l] = updated]
  <2>1. /\ updated \in GoodRow /\ Present(updated) /\ updated.state # "unwritten"
        /\ updated.discount = row.discount /\ Current(updated)
        /\ Current(row) => updated = row
    <3>1. CurrentAmount(row) \in Int
      BY <1>4, <1>9, AmountsAreIntegers
    <3>2. /\ updated \in GoodRow /\ updated.state = row.state
          /\ updated.discount = row.discount /\ updated.item = row.item
          /\ updated.quantity = row.quantity /\ updated.amount = CurrentAmount(row)
          /\ CurrentAmount(row) = row.amount => updated = row
      <4> DEFINE x == CurrentAmount(row)
      <4> HIDE DEF row, x
      <4>1. x \in Int
        BY <3>1 DEF x
      <4>2. LET n == [row EXCEPT !.amount = x]
            IN  /\ n \in GoodRow /\ n.state = row.state /\ n.discount = row.discount
                /\ n.item = row.item /\ n.quantity = row.quantity /\ n.amount = x
                /\ x = row.amount => n = row
        BY <1>4, <4>1, SetAmount
      <4> QED
        BY <4>2 DEF x
    <3> QED
      BY <1>4, <1>9, <3>2 DEF Present, Current, CurrentAmount
  <2> HIDE DEF updated
  <2>2. rest.lines = t.lines /\ rest.lines \in [Line -> GoodRow] /\ WriteLine(c, l, updated, rest)
    BY <1>2, <1>3, <1>9 DEF Shape, SameWrites
  <2>3. /\ UNCHANGED database /\ UNCHANGED orderLock /\ tx' = [tx EXCEPT ![c] = m]
        /\ IsTx(m) /\ m.lines \in [Line -> GoodRow] /\ m.lines[l] = updated
        /\ \A k \in Line \ {l} : m.lines[k] = rest.lines[k]
        /\ m.order = rest.order /\ m.adjusted = rest.adjusted /\ m.todo = rest.todo
        /\ SameRequest(rest, m) /\ SameRecords(rest, m)
        /\ lineLock' \in [Line -> Client \cup {Nobody}] /\ lineLock'[l] = c
        /\ \A k \in Line, d \in Client : lineLock[k] = d => lineLock'[k] = d
        /\ \A d \in Client : orderLock = d => orderLock' = d
    BY <1>3, <2>1, <2>2, LineLocked
  <2> HIDE DEF m
  <2>4. /\ m.order = t.order /\ m.adjusted = t.adjusted /\ m.todo = t.todo \ {l}
        /\ m.op = t.op /\ m.choice = t.choice /\ m.line = t.line /\ m.item = t.item
        /\ m.action = t.action /\ m.invoiced = {}
        /\ \A k \in Line \ {l} : m.lines[k] = t.lines[k]
    BY <1>3, <1>7, <2>2, <2>3 DEF SameWrites, SameRequest, SameRecords
  <2>5. Shape(m) /\ Billed(next, m) /\ FiguresOf(next, m)
    BY <1>2, <1>5, <2>3, <2>4 DEF Shape, Billed, FiguresOf, Summed
  <2>6. Parameters(next, m) /\ Untouched(next, m) /\ Taken(next, m) /\ OrderAudited(next, m)
    BY <1>5, <1>6, <2>4
       DEF Parameters, Untouched, Taken, OrderTaken, OrderAudited, First
  <2>7. KeptStays(m)
    BY <1>1, <2>1, <2>3, <2>4, OrderLinesAssumptions DEF SoundOf, KeptStays
  <2>8. Recalculated(next, m)
    BY <1>1, <1>3, <1>5, <2>1, <2>3, <2>4, OrderLinesAssumptions
       DEF SoundOf, Recalculated, Started, Summed
  <2>9. LinesAudited(m)
    <3>1. LineAudited(l, row.discount, t.adjusted)
          \/ (Present(lines[l]) /\ LineAudited(l, row.discount, adjustments))
      <4>1. CASE t.lines[l].state = "unwritten"
        BY <1>4, <1>9, <4>1 DEF LinesInv, EveryDiscountAudited, PresentIn, LineAudited
      <4>2. CASE t.lines[l].state # "unwritten"
        <5>1. Present(t.lines[l])
          BY <1>9, <4>2 DEF Newest
        <5> QED
          BY <1>1, <1>4, <5>1 DEF SoundOf, LinesAudited
      <4> QED
        BY <4>1, <4>2
    <3> QED
      BY <1>1, <2>1, <2>3, <2>4, <3>1 DEF SoundOf, LinesAudited
  <2>10. LinesLeft(m)
    <3>1. ASSUME t.op = "discount" PROVE updated = lines[l]
      <4>1. row = lines[l]
        BY <1>1, <1>4, <3>1 DEF SoundOf, LinesLeft, Newest
      <4>2. Current(row)
        BY <1>9, <4>1 DEF LinesInv, LineDiscountsCurrent, PresentIn, Current, CurrentAmount
      <4> QED
        BY <2>1, <4>1, <4>2
    <3> QED
      BY <1>1, <2>3, <2>4, <3>1 DEF SoundOf, LinesLeft
  <2>11. SoundOf(next, m) /\ next \in Statements
    BY <1>5, <2>5, <2>6, <2>7, <2>8, <2>9, <2>10 DEF SoundOf, Statements, Started, Summed
  <2>12. HoldingOf(c, m, lineLock', orderLock')
    <3>1. HoldingOf(c, t, lineLock, orderLock)
      BY SoundSoFar
    <3> QED
      BY <2>3, <2>4, <3>1 DEF HoldingOf
  <2>13. /\ \A k \in Line, d \in Client \ {c} : lineLock[k] = d => lineLock'[k] = d
         /\ \A d \in Client \ {c} : orderLock = d => orderLock' = d
         /\ UNCHANGED database /\ tx' = [tx EXCEPT ![c] = m] /\ pc' = [pc EXCEPT ![c] = next]
         /\ lineLock' \in [Line -> Client \cup {Nobody}]
    BY <1>1, <2>3 DEF Goto
  <2> QED
    BY <2>11, <2>12, <2>13, StatementKeeps
<1> QED
  BY <1>1, <1>8, <1>9

\* The sums are those of the lines it sees.
LEMMA SumKeeps ==
    ASSUME LinesInv, NEW c \in Client, Sum(c) PROVE LinesInv'
<1> DEFINE t == tx[c]
           s == Subtotal(Seen(c))
           b == LineDiscounts(Seen(c))
           m == [t EXCEPT !.subtotal = s, !.lineDiscount = b]
<1>1. SoundOf("sum", t) /\ Local(c, m) /\ Goto(c, "readChoice") /\ Seen(c) = SeenBy(t)
  BY SoundSoFar DEF Sum, At
<1>2. /\ IsTx(m) /\ m.subtotal = s /\ m.lineDiscount = b
      /\ m.todo = t.todo /\ SameRequest(t, m) /\ SameWrites(t, m) /\ SameRecords(t, m)
  <2>1. IsTx(t)
    BY <1>1 DEF SoundOf, Shape
  <2> HIDE DEF s, b, t
  <2> QED
    BY <2>1 DEF m, IsTx, Fields, SameRequest, SameWrites, SameRecords
<1>3. Local(c, m)
  BY <1>1
<1> HIDE DEF m
<1>4. Shape(m) /\ Parameters("readChoice", m) /\ Untouched("readChoice", m)
      /\ Taken("readChoice", m) /\ Billed("readChoice", m)
  BY <1>1, <1>2
     DEF SoundOf, Shape, Parameters, Untouched, Taken, OrderTaken, Billed, First,
         SameRequest, SameWrites, SameRecords
<1>5. KeptStays(m) /\ LinesAudited(m) /\ LinesLeft(m)
  BY <1>1, <1>2 DEF SoundOf, KeptStays, LinesAudited, LinesLeft, SameRequest, SameWrites
<1>6. OrderAudited("readChoice", m) /\ Recalculated("readChoice", m)
  BY <1>1, <1>2
     DEF SoundOf, OrderAudited, Recalculated, Started, Summed, SameRequest, SameWrites
<1>7. SeenBy(m) = SeenBy(t)
  BY <1>2 DEF SeenBy, SameWrites
<1>8. FiguresOf("readChoice", m)
  BY <1>1, <1>2, <1>7 DEF FiguresOf
<1>9. SoundOf("readChoice", m) /\ "readChoice" \in Statements
  BY <1>4, <1>5, <1>6, <1>8 DEF SoundOf, Statements, Started, Summed
<1> QED
  BY <1>1, <1>2, <1>3, <1>9, LocalKeeps

\* The totals are those of the sums and of the discount it sees.
LEMMA ReadChoiceKeeps ==
    ASSUME LinesInv, NEW c \in Client, ReadChoice(c) PROVE LinesInv'
<1> DEFINE t == tx[c]
           x == Totals(t.subtotal, t.lineDiscount, SeenOrder(c).chosen, Tax)
           m == [t EXCEPT !.totals = x]
<1>1. /\ SoundOf("readChoice", t) /\ Local(c, m) /\ Goto(c, "writeTotals")
      /\ SeenOrder(c) = SeenOrderBy(t)
  BY SoundSoFar DEF ReadChoice, At
<1>2. /\ IsTx(m) /\ m.totals = x /\ m.subtotal = t.subtotal /\ m.lineDiscount = t.lineDiscount
      /\ m.todo = t.todo /\ SameRequest(t, m) /\ SameWrites(t, m) /\ SameRecords(t, m)
  BY <1>1, SetTotals DEF SoundOf, Shape
<1>3. Local(c, m)
  BY <1>1
<1> HIDE DEF m
<1>4. Shape(m) /\ Parameters("writeTotals", m) /\ Untouched("writeTotals", m)
      /\ Taken("writeTotals", m) /\ Billed("writeTotals", m)
  BY <1>1, <1>2
     DEF SoundOf, Shape, Parameters, Untouched, Taken, OrderTaken, Billed, First,
         SameRequest, SameWrites, SameRecords
<1>5. KeptStays(m) /\ LinesAudited(m) /\ LinesLeft(m)
  BY <1>1, <1>2 DEF SoundOf, KeptStays, LinesAudited, LinesLeft, SameRequest, SameWrites
<1>6. OrderAudited("writeTotals", m) /\ Recalculated("writeTotals", m)
  BY <1>1, <1>2
     DEF SoundOf, OrderAudited, Recalculated, Started, Summed, SameRequest, SameWrites
<1>7. SeenBy(m) = SeenBy(t) /\ SeenOrderBy(m) = SeenOrderBy(t)
  BY <1>2 DEF SeenBy, SeenOrderBy, SameWrites
<1>8. FiguresOf("writeTotals", m)
  BY <1>1, <1>2, <1>7 DEF SoundOf, FiguresOf, Firm, Summed, SameRequest
<1>9. SoundOf("writeTotals", m) /\ "writeTotals" \in Statements
  BY <1>4, <1>5, <1>6, <1>8 DEF SoundOf, Statements, Started, Summed
<1> QED
  BY <1>1, <1>2, <1>3, <1>9, LocalKeeps

\* The order a request sees, with the audit of its discount.
LEMMA SeenOrderSound ==
    ASSUME LinesInv, NEW c \in Client
    PROVE  LET o == SeenOrder(c)
           IN  /\ IsOrder(o) /\ o.status # "unwritten" /\ o = SeenOrderBy(tx[c])
               /\ \/ ChoiceAudited(o.chosen, discounts)
                  \/ tx[c].op = "discount" /\ o.chosen = tx[c].choice
               /\ tx[c].order.status # "unwritten" => o = tx[c].order
<1>1. SoundOf(pc[c], tx[c]) /\ SeenOrder(c) = SeenOrderBy(tx[c])
  BY SoundSoFar
<1>2. Rows /\ EveryDiscountAudited
  BY DEF LinesInv
<1>3. CASE tx[c].order.status # "unwritten"
  BY <1>1, <1>3 DEF SoundOf, Shape, OrderAudited, SeenOrder
<1>4. CASE tx[c].order.status = "unwritten"
  BY <1>1, <1>2, <1>4 DEF Rows, EveryDiscountAudited, ChoiceAudited, SeenOrder
<1> QED
  BY <1>3, <1>4

\* Whatever amounts an order is given, the rest of it stays.
LEMMA AmountsOnly ==
    ASSUME NEW r, IsOrder(r), NEW a
    PROVE  LET n == WithAmounts(r, a)
           IN  IsOrder(n) /\ n.status = r.status /\ n.chosen = r.chosen
  BY DEF IsOrder, OrderColumns, WithAmounts

\* The totals of an order are a row of amounts.
LEMMA TotalsTaken ==
    ASSUME NEW r, IsOrder(r), NEW s, NEW b, NEW d
    PROVE  Amounts(WithAmounts(r, Totals(s, b, d, Tax))) = Totals(s, b, d, Tax)
  BY SetAmounts DEF Totals

\* The totals written to the order.
LEMMA WriteTotalsKeeps ==
    ASSUME LinesInv, NEW c \in Client, WriteTotals(c) PROVE LinesInv'
<1> DEFINE t == tx[c]
           n == WithAmounts(SeenOrder(c), t.totals)
           m == [t EXCEPT !.order = n]
           next == CASE t.op = "discount" -> "audit" [] t.op = "close" -> "close"
                     [] OTHER -> "commit"
<1>1. /\ SoundOf("writeTotals", t) /\ WriteOrder(c, n, t) /\ Goto(c, next)
      /\ SeenOrder(c) = SeenOrderBy(t)
  BY SoundSoFar DEF WriteTotals, At
<1>2. /\ IsOrder(n) /\ n.status # "unwritten" /\ n.chosen = SeenOrder(c).chosen
      /\ \/ ChoiceAudited(n.chosen, discounts)
         \/ t.op = "discount" /\ n.chosen = t.choice
  BY SeenOrderSound, AmountsOnly
<1>3. Firm(t) => Amounts(n) = t.totals
  <2> SUFFICES ASSUME Firm(t) PROVE Amounts(n) = t.totals
    OBVIOUS
  <2>1. t.totals = Totals(t.subtotal, t.lineDiscount, SeenOrder(c).chosen, Tax)
    BY <1>1 DEF SoundOf, FiguresOf
  <2>2. IsOrder(SeenOrder(c))
    BY SeenOrderSound
  <2> QED
    BY <2>1, <2>2, TotalsTaken
<1>4. /\ IsTx(m) /\ m.order = n /\ m.lines = t.lines /\ m.adjusted = t.adjusted
      /\ m.todo = t.todo /\ SameRequest(t, m) /\ SameFigures(t, m) /\ SameRecords(t, m)
  BY <1>1, SetOrder DEF SoundOf, Shape
<1>5. /\ next \in {"audit", "close", "commit"}
      /\ next = "audit" <=> t.op = "discount"
      /\ next = "close" => t.op = "close"
  OBVIOUS
<1>6. t.invoiced = {}
  BY <1>1 DEF SoundOf, Billed
<1> HIDE DEF m, n, next
<1>7. Shape(m) /\ Parameters(next, m) /\ Untouched(next, m)
      /\ Taken(next, m) /\ Billed(next, m)
  BY <1>1, <1>2, <1>4, <1>5, <1>6
     DEF SoundOf, Shape, Parameters, Untouched, Taken, OrderTaken, Billed, First,
         SameRequest, SameRecords
<1>8. KeptStays(m) /\ LinesAudited(m) /\ LinesLeft(m)
  BY <1>1, <1>4 DEF SoundOf, KeptStays, LinesAudited, LinesLeft, SameRequest
<1>9. OrderAudited(next, m)
  BY <1>2, <1>4, <1>5 DEF OrderAudited, SameRequest
<1>10. Recalculated(next, m)
  BY <1>1, <1>4, <1>5 DEF SoundOf, Recalculated, Started, Summed
<1>11. SeenBy(m) = SeenBy(t) /\ SeenOrderBy(m) = n
  BY <1>2, <1>4 DEF SeenBy, SeenOrderBy
<1>12. FiguresOf(next, m)
  BY <1>1, <1>2, <1>3, <1>4, <1>5, <1>11
     DEF SoundOf, FiguresOf, Firm, Summed, SameRequest, SameFigures
<1>13. SoundOf(next, m) /\ next \in Statements
  BY <1>5, <1>7, <1>8, <1>9, <1>10, <1>12 DEF SoundOf, Statements, Started, Summed
<1>14. SoundOf(next, [t EXCEPT !.order = n]) /\ IsTx(t)
  BY <1>1, <1>13 DEF m, SoundOf, Shape
<1> QED
  BY <1>1, <1>13, <1>14, OrderWriteKeeps

-----------------------------------------------------------------------------
(* The ends of SetOrderDiscount and CloseOrder                             *)

\* The audit row of the discount of an order.
LEMMA AuditDiscountKeeps ==
    ASSUME LinesInv, NEW c \in Client, AuditDiscount(c) PROVE LinesInv'
<1> DEFINE t == tx[c]
           amount == SeenOrder(c).discount - LineDiscounts(Seen(c))
           log == {[discount |-> t.choice, amount |-> amount]}
           m == [t EXCEPT !.audited = log]
<1>1. /\ SoundOf("audit", t) /\ Local(c, m) /\ Goto(c, "commit") /\ Seen(c) = SeenBy(t)
  BY SoundSoFar DEF AuditDiscount, At
<1>2. t.op = "discount" /\ t.order.status # "unwritten" /\ t.invoiced = {}
  BY <1>1 DEF SoundOf, Parameters, Taken, OrderTaken, Billed
<1>3. SeenOrder(c) = t.order
  BY <1>2, SeenOrderSound
<1>4. /\ IsTx(m) /\ m.audited = log /\ m.invoiced = t.invoiced /\ m.todo = t.todo
      /\ SameRequest(t, m) /\ SameWrites(t, m) /\ SameFigures(t, m)
  BY <1>1, SetAudited DEF SoundOf, Shape
<1>5. /\ \A a \in log : a.amount = t.order.discount - LineDiscounts(SeenBy(t))
      /\ \E a \in log : a.discount = t.choice
  BY <1>1, <1>3
<1>6. Local(c, m)
  BY <1>1
<1> HIDE DEF m, log
<1>7. Shape(m) /\ Parameters("commit", m) /\ Untouched("commit", m)
      /\ Taken("commit", m) /\ Billed("commit", m)
  BY <1>1, <1>2, <1>4
     DEF SoundOf, Shape, Parameters, Untouched, Taken, OrderTaken, Billed, First,
         SameRequest, SameWrites
<1>8. KeptStays(m) /\ LinesAudited(m) /\ LinesLeft(m)
  BY <1>1, <1>4 DEF SoundOf, KeptStays, LinesAudited, LinesLeft, SameRequest, SameWrites
<1>9. OrderAudited("commit", m) /\ Recalculated("commit", m)
  BY <1>1, <1>4, <1>5
     DEF SoundOf, OrderAudited, ChoiceAudited, Recalculated, Started, Summed,
         SameRequest, SameWrites
<1>10. SeenBy(m) = SeenBy(t) /\ SeenOrderBy(m) = SeenOrderBy(t)
  BY <1>4 DEF SeenBy, SeenOrderBy, SameWrites
<1>11. FiguresOf("commit", m)
  BY <1>1, <1>4, <1>5, <1>10
     DEF SoundOf, FiguresOf, Firm, Summed, SameRequest, SameWrites, SameFigures
<1>12. SoundOf("commit", m) /\ "commit" \in Statements
  BY <1>7, <1>8, <1>9, <1>11 DEF SoundOf, Statements, Started, Summed
<1> QED
  BY <1>1, <1>4, <1>6, <1>12, LocalKeeps

\* The order is closed and invoiced with its amounts, or the request undone.
LEMMA CloseAndInvoiceKeeps ==
    ASSUME LinesInv, NEW c \in Client, CloseAndInvoice(c) PROVE LinesInv'
<1> DEFINE t == tx[c]
           row == SeenOrder(c)
           taxable == row.subtotal - row.discount
           closed == [row EXCEPT !.status = "closed", !.tax = TaxAmount(taxable, Tax),
                                 !.total = TotalAmount(taxable, Tax)]
           bill == {Amounts(closed)}
           mine == [t EXCEPT !.invoiced = bill]
           m == [mine EXCEPT !.order = closed]
<1>1. SoundOf("close", t) /\ t.op = "close" /\ t.order.status # "unwritten" /\ IsTx(t)
  BY SoundSoFar DEF CloseAndInvoice, At, SoundOf, Parameters, Taken, OrderTaken, Shape
<1>2. row = t.order /\ IsOrder(row) /\ ChoiceAudited(row.chosen, discounts)
  BY <1>1, SeenOrderSound
<1>3. CASE Rollback(c)
  BY <1>3, RollbackKeeps
<1>4. ASSUME WriteOrder(c, closed, mine), Goto(c, "commit") PROVE LinesInv'
  <2>1. /\ IsOrder(closed) /\ closed.status = "closed" /\ closed.chosen = row.chosen
        /\ closed.subtotal = row.subtotal /\ closed.discount = row.discount
        /\ closed.tax = TaxAmount(taxable, Tax) /\ closed.total = TotalAmount(taxable, Tax)
    <3> HIDE DEF row, taxable
    <3> QED
      BY <1>2 DEF IsOrder, OrderColumns
  <2>2. Firm(t) => Amounts(closed) = t.totals
    <3> SUFFICES ASSUME Firm(t) PROVE Amounts(closed) = t.totals
      OBVIOUS
    <3>1. t.totals = Totals(t.subtotal, t.lineDiscount, SeenOrderBy(t).chosen, Tax)
          /\ Amounts(row) = t.totals
      BY <1>1, <1>2 DEF SoundOf, FiguresOf
    <3>2. /\ t.totals.tax = TaxAmount(t.totals.subtotal - t.totals.discount, Tax)
          /\ t.totals.total = TotalAmount(t.totals.subtotal - t.totals.discount, Tax)
      BY <3>1 DEF Totals
    <3>3. /\ row.subtotal = t.totals.subtotal /\ row.discount = t.totals.discount
          /\ row.tax = t.totals.tax /\ row.total = t.totals.total
      <4> HIDE DEF row
      <4> QED
        BY <3>1 DEF Amounts
    <3>4. Amounts(closed) = Amounts(row)
      <4> HIDE DEF row, closed
      <4> QED
        BY <2>1, <3>2, <3>3 DEF Amounts
    <3> QED
      BY <3>1, <3>4
  <2>3. /\ IsTx(mine) /\ mine.invoiced = bill /\ mine.todo = t.todo
        /\ SameRequest(t, mine) /\ SameWrites(t, mine) /\ SameFigures(t, mine)
    BY <1>1, SetInvoiced
  <2>4. WriteOrder(c, closed, mine)
    BY <1>4
  <2> HIDE DEF mine, closed, bill
  <2>5. /\ IsTx(m) /\ m.order = closed /\ m.lines = mine.lines /\ m.adjusted = mine.adjusted
        /\ m.todo = mine.todo
        /\ SameRequest(mine, m) /\ SameFigures(mine, m) /\ SameRecords(mine, m)
    BY <2>3, SetOrder
  <2> HIDE DEF m, row
  <2>6. /\ m.op = "close" /\ m.choice = t.choice /\ m.lines = t.lines /\ m.adjusted = t.adjusted
        /\ m.todo = t.todo /\ m.invoiced = bill
        /\ m.subtotal = t.subtotal /\ m.lineDiscount = t.lineDiscount /\ m.totals = t.totals
    BY <1>1, <2>3, <2>5 DEF SameRequest, SameWrites, SameFigures, SameRecords
  <2>7. Shape(m) /\ Parameters("commit", m) /\ Untouched("commit", m) /\ Taken("commit", m)
    BY <1>1, <2>1, <2>5, <2>6 DEF SoundOf, Shape, Parameters, Untouched, Taken, First
  <2>8. Billed("commit", m)
    BY <2>5, <2>6 DEF Billed, bill
  <2>9. KeptStays(m) /\ LinesAudited(m) /\ LinesLeft(m) /\ Recalculated("commit", m)
    BY <1>1, <2>6
       DEF SoundOf, KeptStays, LinesAudited, LinesLeft, Recalculated, Started, Summed
  <2>10. OrderAudited("commit", m)
    BY <1>2, <2>1, <2>5, <2>6 DEF OrderAudited
  <2>11. SeenBy(m) = SeenBy(t) /\ SeenOrderBy(m).chosen = SeenOrderBy(t).chosen
    BY <1>1, <1>2, <2>1, <2>5, <2>6 DEF SeenBy, SeenOrderBy
  <2>12. FiguresOf("commit", m)
    BY <1>1, <2>2, <2>5, <2>6, <2>11 DEF SoundOf, FiguresOf, Firm, Summed
  <2>13. SoundOf("commit", [mine EXCEPT !.order = closed])
    BY <2>7, <2>8, <2>9, <2>10, <2>12 DEF SoundOf, m
  <2>14. mine.lines = t.lines /\ "commit" \in Statements
    BY <2>3 DEF SameWrites, Statements, Started, Summed
  <2> QED
    BY <1>4, <2>3, <2>4, <2>13, <2>14, OrderWriteKeeps
<1> QED
  BY <1>3, <1>4 DEF CloseAndInvoice

-----------------------------------------------------------------------------
(* The invariant, and what it says                                         *)

\* Every step of the system keeps the invariant.
LEMMA StepKeeps == LinesInv /\ [Next]_vars => LinesInv'
<1> SUFFICES ASSUME LinesInv, [Next]_vars PROVE LinesInv'
  OBVIOUS
<1>1. ASSUME NEW c \in Client, Step(c) PROVE LinesInv'
  <2>1. CASE FindLine(c) \/ AddToLine(c)
    BY <2>1, FindLineKeeps, AddToLineKeeps
  <2>2. CASE ReadQuantity(c) \/ WriteQuantity(c)
    BY <2>2, ReadQuantityKeeps, WriteQuantityKeeps
  <2>3. CASE WriteDiscount(c) \/ WriteChoice(c)
    BY <2>3, WriteDiscountKeeps, WriteChoiceKeeps
  <2>4. CASE AuditDiscount(c) \/ CloseAndInvoice(c)
    BY <2>4, AuditDiscountKeeps, CloseAndInvoiceKeeps
  <2>5. CASE StartLines(c) \/ \E l \in Line : UpdateLine(c, l)
    BY <2>5, StartLinesKeeps, UpdateLineKeeps
  <2>6. CASE Sum(c) \/ ReadChoice(c) \/ WriteTotals(c)
    BY <2>6, SumKeeps, ReadChoiceKeeps, WriteTotalsKeeps
  <2>7. CASE Commit(c)
    BY <2>7, CommitKeeps
  <2>8. CASE DeadlockVictim(c)
    BY <2>8, RollbackKeeps DEF DeadlockVictim
  <2> QED
    BY <1>1, <2>1, <2>2, <2>3, <2>4, <2>5, <2>6, <2>7, <2>8 DEF Step
<1>2. ASSUME NEW c \in Client, Abort(c) PROVE LinesInv'
  BY <1>2, RollbackKeeps DEF Abort
<1>3. CASE UNCHANGED vars
  BY <1>3
     DEF vars, database, locks, LinesInv, Rows, Requesting, LineDiscountsCurrent,
         EveryDiscountAudited, TotalsMatchLines, PresentIn, Sound, Shape, Parameters, Untouched,
         Taken, OrderTaken, Holding, KeptStays, Recalculated, LinesAudited, OrderAudited,
         LinesLeft, Figures, Firm, Billed, Seen, Newest, SeenOrder
<1> QED
  BY <1>1, <1>2, <1>3, RequestKeeps DEF Next

\* The invariant holds in every state.
LEMMA LinesInvariant == Spec => []LinesInv
  BY InitInvariant, StepKeeps, PTL DEF Spec

\* The committed discount of a line is the one its quantity, price and discount
\* give, whatever handlers interleave on it.
THEOREM DiscountsCurrent == Spec => []LineDiscountsCurrent
<1>1. LinesInv => LineDiscountsCurrent
  BY DEF LinesInv
<1> QED
  BY <1>1, LinesInvariant, PTL

\* No discount of a line or of the order is without its audit row.
THEOREM DiscountsAudited == Spec => []EveryDiscountAudited
<1>1. LinesInv => EveryDiscountAudited
  BY DEF LinesInv
<1> QED
  BY <1>1, LinesInvariant, PTL

\* The totals of an order that keeps a line are those of its lines and
\* discounts: every RecalculateOrderTotals locks that line before it sums.
THEOREM TotalsExact == ASSUME Kept # {} PROVE Spec => []TotalsMatchLines
<1>1. LinesInv => TotalsMatchLines
  BY DEF LinesInv
<1> QED
  BY <1>1, LinesInvariant, PTL

\* The only step that invoices is the commit of a request.
LEMMA OnlyCommitsWrite ==
    ASSUME [Next]_vars, ~UNCHANGED database PROVE \E c \in Client : Commit(c)
<1>1. ASSUME NEW c \in Client, Request(c) PROVE UNCHANGED database
  BY <1>1
     DEF Request, AddOrderItem, UpdateItemQty, OverrideItemPrice, SetOrderDiscount, CloseOrder, Begin
<1>2. ASSUME NEW c \in Client, Step(c), ~Commit(c) PROVE UNCHANGED database
  BY <1>2
     DEF Step, FindLine, AddToLine, ReadQuantity, WriteQuantity, WriteDiscount, WriteChoice,
         AuditDiscount, CloseAndInvoice, StartLines, UpdateLine, Sum, ReadChoice, WriteTotals,
         DeadlockVictim, Rollback, Local, WriteLine, WriteOrder
<1>3. ASSUME NEW c \in Client, Abort(c) PROVE UNCHANGED database
  BY <1>3 DEF Abort, Rollback
<1>4. UNCHANGED vars => UNCHANGED database
  BY DEF vars
<1> QED
  BY <1>1, <1>2, <1>3, <1>4 DEF Next

\* An order that keeps a line is billed what is on it when CloseOrder commits.
THEOREM BilledExactly == ASSUME Kept # {} PROVE Spec => BilledAsServed
<1>1. ASSUME LinesInv, [Next]_vars
      PROVE  \A i \in invoices' \ invoices : i = TotalsOf(lines', order'.chosen)
  <2> SUFFICES ASSUME NEW i \in invoices' \ invoices
               PROVE  i = TotalsOf(lines', order'.chosen)
    OBVIOUS
  <2>1. PICK c \in Client : Commit(c)
    BY <1>1, OnlyCommitsWrite DEF database
  <2>2. i \in tx[c].invoiced /\ pc[c] = "commit" /\ order' = tx[c].order
    BY <1>1, <2>1, CommitWrites DEF Commit
  <2>3. i = Amounts(order')
    BY <1>1, <2>2 DEF LinesInv, Sound, Billed
  <2>4. TotalsMatchLines'
    BY <1>1, <2>1, CommitExact DEF Firm
  <2> QED
    BY <2>3, <2>4 DEF TotalsMatchLines
<1>2. LinesInv /\ [Next]_vars =>
        \A i \in invoices' \ invoices : i = TotalsOf(lines, order.chosen)'
  BY <1>1
<1> QED
  BY <1>2, LinesInvariant, PTL DEF Spec, BilledAsServed

\* What lets go of the order that a request holds is its own last step.
LEMMA OnlyItsEnd ==
    ASSUME LinesInv, [Next]_vars, NEW c \in Client, pc[c] = "commit", orderLock' = Nobody
    PROVE  Commit(c) \/ UNCHANGED database
<1>1. orderLock = c /\ Nobody \notin Client
  BY CommitterHolds, OrderLinesAssumptions
<1>2. ASSUME NEW d \in Client, Commit(d) PROVE d = c
  BY <1>1, <1>2, CommitterHolds DEF Commit, At
<1> QED
  BY <1>2, OnlyCommitsWrite

\* The discount that SetOrderDiscount leaves is exact, and so is its audit row,
\* whatever handlers run beside it and whatever lines the order has.
THEOREM DiscountExact == Spec => OrderDiscountExact
<1>1. ASSUME LinesInv, [Next]_vars, NEW c \in Client,
             tx[c].op = "discount", At(c, "commit"), orderLock' = Nobody, order' = tx[c].order
      PROVE  /\ TotalsMatchLines'
             /\ \A a \in tx[c].audited : a.amount = order'.discount - LineDiscounts(lines')
  <2>1. CASE Commit(c)
    BY <1>1, <2>1, CommitExact DEF Firm
  <2>2. CASE UNCHANGED database
    <3>1. Sound(c) /\ lines \in [Line -> GoodRow] /\ tx[c].order.status # "unwritten"
      BY <1>1, CommitterHolds DEF LinesInv, Rows, At
    <3>2. Seen(c) = lines
      BY <1>1, <3>1 DEF Sound, LinesLeft, Seen, Newest
    <3>3. order' = SeenOrder(c) /\ lines' = Seen(c)
      BY <1>1, <2>2, <3>1, <3>2 DEF SeenOrder, database
    <3>4. /\ tx[c].subtotal = Subtotal(lines') /\ tx[c].lineDiscount = LineDiscounts(lines')
          /\ tx[c].totals = Totals(tx[c].subtotal, tx[c].lineDiscount, order'.chosen, Tax)
          /\ Amounts(order') = tx[c].totals
          /\ \A a \in tx[c].audited : a.amount = order'.discount - LineDiscounts(lines')
      BY <1>1, <3>1, <3>3 DEF Sound, Figures, Firm, Summed, At
    <3> QED
      BY <3>4 DEF TotalsMatchLines, TotalsOf
  <2> QED
    BY <1>1, <2>1, <2>2, OnlyItsEnd DEF At
<1>2. LinesInv /\ [Next]_vars =>
        \A c \in Client :
          tx[c].op = "discount" /\ At(c, "commit") /\ orderLock' = Nobody /\ order' = tx[c].order
          => /\ TotalsMatchLines'
             /\ \A a \in tx[c].audited : a.amount = order'.discount - LineDiscounts(lines')
  BY <1>1
<1> QED
  BY <1>2, LinesInvariant, PTL DEF Spec, OrderDiscountExact

-----------------------------------------------------------------------------
(* Sums over finite sets                                                   *)

\* Induction over the natural numbers, for a set.
LEMMA NumbersByInduction ==
    ASSUME NEW G, 0 \in G, \A n \in Nat : n \in G => n + 1 \in G
    PROVE  \A n \in Nat : n \in G
<1> DEFINE less == OpToRel(<, Nat)
           rest == {n \in Nat : n \notin G}
<1>1. IsWellFoundedOn(less, Nat)
  BY NatLessThanWellFounded, Zenon
<1>2. \A x, y \in Nat : x < y => <<x, y>> \in less
  BY DEF OpToRel
<1> HIDE DEF less
<1>3. CASE rest # {}
  <2> HIDE DEF rest
  <2>0. rest \subseteq Nat
    BY DEF rest
  <2>1. PICK n \in rest : \A m \in rest : ~(<<m, n>> \in less)
    BY <1>1, <1>3, <2>0, WFMin, Zenon
  <2>2. n \in Nat /\ n \notin G
    BY DEF rest
  <2>3. n # 0 /\ n - 1 \in Nat /\ n - 1 < n
    BY <2>2
  <2>4. n - 1 \notin rest
    BY <1>2, <2>1, <2>2, <2>3, Zenon
  <2>5. n - 1 \in G
    BY <2>3, <2>4 DEF rest
  <2> QED
    BY <2>2, <2>3, <2>5
<1> QED
  BY <1>3

\* F folds the weights of the subsets of S.
IsSum(F, S, w) ==
    F = [s \in SUBSET S |-> IF s = {} THEN 0
                            ELSE LET x == CHOOSE x \in s : TRUE
                                 IN  w[x] + F[s \ {x}]]

\* The subsets with at most n members.
Upto(S, n) == {s \in SUBSET S : Cardinality(s) <= n}

\* Such a fold exists over a finite set: it is built up by cardinality.
LEMMA SumExists ==
    ASSUME NEW S, IsFiniteSet(S), NEW w \in [S -> Int]
    PROVE  \E F : IsSum(F, S, w)
<1> DEFINE first(s) == CHOOSE x \in s : TRUE
           left(s) == s \ {first(s)}
           Folds(F, n) == \A s \in Upto(S, n) :
                            F[s] = IF s = {} THEN 0 ELSE w[first(s)] + F[left(s)]
           good == {n \in Nat : \E F : Folds(F, n)}
<1>1. ASSUME NEW s \in SUBSET S
      PROVE  /\ IsFiniteSet(s) /\ Cardinality(s) \in Nat
             /\ Cardinality(s) <= Cardinality(S)
             /\ Cardinality(s) = 0 <=> s = {}
             /\ s # {} => /\ first(s) \in s /\ left(s) \in SUBSET S
                          /\ Cardinality(left(s)) = Cardinality(s) - 1
  <2>1. IsFiniteSet(s) /\ Cardinality(s) <= Cardinality(S)
    BY FS_Subset
  <2>2. Cardinality(s) \in Nat /\ (Cardinality(s) = 0 <=> s = {})
    BY <2>1, FS_CardinalityType, FS_EmptySet
  <2>3. s # {} => first(s) \in s
    OBVIOUS
  <2>4. s # {} => Cardinality(left(s)) = Cardinality(s) - 1
    BY <2>1, <2>3, FS_RemoveElement
  <2> QED
    BY <2>1, <2>2, <2>3, <2>4
<1>s. IsFiniteSet(S) /\ Cardinality(S) \in Nat
  BY FS_CardinalityType
<1> HIDE DEF first, left
<1>2. 0 \in good
  <2> DEFINE F == [s \in SUBSET S |-> 0]
  <2>1. \A s \in Upto(S, 0) : s = {}
    BY <1>1 DEF Upto
  <2>2. \A s \in Upto(S, 0) : F[s] = 0
    BY DEF Upto
  <2> HIDE DEF F
  <2>3. Folds(F, 0)
    BY <2>1, <2>2
  <2> QED
    BY <2>3
<1>3. ASSUME NEW n \in Nat, n \in good PROVE n + 1 \in good
  <2>1. PICK F : Folds(F, n)
    BY <1>3
  <2> DEFINE G == [s \in SUBSET S |-> IF s = {} THEN 0 ELSE w[first(s)] + F[left(s)]]
  <2>2. \A s \in Upto(S, n) : G[s] = F[s]
    BY <2>1 DEF Upto
  <2>3. ASSUME NEW s \in Upto(S, n + 1), s # {} PROVE G[s] = w[first(s)] + G[left(s)]
    <3>1. s \in SUBSET S /\ Cardinality(s) <= n + 1
      BY DEF Upto
    <3>2. left(s) \in SUBSET S /\ Cardinality(left(s)) = Cardinality(s) - 1 /\ Cardinality(s) \in Nat
      BY <1>1, <2>3, <3>1
    <3>4. left(s) \in Upto(S, n)
      BY <3>1, <3>2 DEF Upto
    <3> QED
      BY <2>2, <2>3, <3>1, <3>4
  <2>4. \A s \in Upto(S, n + 1) : s = {} => G[s] = 0
    BY DEF Upto
  <2> HIDE DEF G
  <2>5. Folds(G, n + 1)
    BY <2>3, <2>4
  <2> QED
    BY <2>5
<1> HIDE DEF good
<1>4. Cardinality(S) \in good
  BY <1>2, <1>3, <1>s, NumbersByInduction
<1>5. PICK F : Folds(F, Cardinality(S))
  BY <1>4 DEF good
<1>6. SUBSET S = Upto(S, Cardinality(S))
  BY <1>1 DEF Upto
<1> DEFINE G == [s \in SUBSET S |-> F[s]]
<1>7. \A s \in SUBSET S : G[s] = IF s = {} THEN 0 ELSE w[first(s)] + G[left(s)]
  BY <1>1, <1>5, <1>6
<1> HIDE DEF G
<1>8. G = [s \in SUBSET S |-> IF s = {} THEN 0 ELSE w[first(s)] + G[left(s)]]
  BY <1>7 DEF G
<1>9. IsSum(G, S, w)
  BY <1>8 DEF IsSum, first, left
<1> QED
  BY <1>9

\* and its value is an integer, by the same induction.
LEMMA SumIsInteger ==
    ASSUME NEW S, IsFiniteSet(S), NEW w \in [S -> Int], NEW F, IsSum(F, S, w)
    PROVE  F[S] \in Int
<1> DEFINE good == {n \in Nat : \A s \in Upto(S, n) : F[s] \in Int}
<1>1. ASSUME NEW s \in SUBSET S
      PROVE  /\ IsFiniteSet(s) /\ Cardinality(s) \in Nat
             /\ Cardinality(s) <= Cardinality(S)
             /\ s = {} => F[s] = 0
             /\ s # {} => \E x \in s : /\ s \ {x} \in SUBSET S
                                       /\ F[s] = w[x] + F[s \ {x}]
                                       /\ Cardinality(s \ {x}) = Cardinality(s) - 1
             /\ Cardinality(s) = 0 <=> s = {}
  <2>1. IsFiniteSet(s) /\ Cardinality(s) <= Cardinality(S)
    BY FS_Subset
  <2>2. Cardinality(s) \in Nat /\ (Cardinality(s) = 0 <=> s = {})
    BY <2>1, FS_CardinalityType, FS_EmptySet
  <2> DEFINE x == CHOOSE x \in s : TRUE
  <2>3. s # {} => x \in s
    OBVIOUS
  <2>4. F[s] = IF s = {} THEN 0 ELSE w[x] + F[s \ {x}]
    BY DEF IsSum
  <2> HIDE DEF x
  <2>5. s # {} => Cardinality(s \ {x}) = Cardinality(s) - 1
    BY <2>1, <2>3, FS_RemoveElement
  <2> QED
    BY <2>1, <2>2, <2>3, <2>4, <2>5
<1>2. 0 \in good
  BY <1>1 DEF Upto
<1>3. ASSUME NEW n \in Nat, n \in good PROVE n + 1 \in good
  <2>1. ASSUME NEW s \in Upto(S, n + 1), s # {} PROVE F[s] \in Int
    <3>1. s \in SUBSET S /\ Cardinality(s) <= n + 1
      BY DEF Upto
    <3>2. PICK x \in s : /\ s \ {x} \in SUBSET S /\ F[s] = w[x] + F[s \ {x}]
                         /\ Cardinality(s \ {x}) = Cardinality(s) - 1
      BY <1>1, <2>1, <3>1
    <3>3. Cardinality(s) \in Nat
      BY <1>1, <3>1
    <3>4. s \ {x} \in Upto(S, n)
      BY <3>1, <3>2, <3>3 DEF Upto
    <3>5. F[s \ {x}] \in Int /\ w[x] \in Int
      BY <1>3, <3>1, <3>4
    <3> QED
      BY <3>2, <3>5
  <2>2. \A s \in Upto(S, n + 1) : s = {} => F[s] \in Int
    BY <1>1 DEF Upto
  <2> QED
    BY <2>1, <2>2
<1> HIDE DEF good
<1>4. Cardinality(S) \in good
  BY <1>1, <1>2, <1>3, NumbersByInduction
<1>5. S \in Upto(S, Cardinality(S))
  BY <1>1 DEF Upto
<1> QED
  BY <1>4, <1>5 DEF good

-----------------------------------------------------------------------------
(* Types                                                                   *)

Choice == Discount \cup {NoDiscount}
AdjustmentRow == [line : Line, discount : Discount]
DiscountRow == [discount : Choice, amount : Nat]

Typed(t) ==
    /\ t.order \in OrderRow /\ t.choice \in Choice
    /\ t.subtotal \in Int /\ t.lineDiscount \in Int /\ t.totals \in AmountsRow
    /\ t.adjusted \subseteq AdjustmentRow /\ t.audited \subseteq DiscountRow
    /\ t.invoiced \subseteq AmountsRow

RowsTyped ==
    /\ order \in OrderRow /\ adjustments \subseteq AdjustmentRow
    /\ discounts \subseteq DiscountRow /\ invoices \subseteq AmountsRow

TypesInv ==
    /\ RowsTyped
    /\ orderLock \in Client \cup {Nobody}
    /\ \A c \in Client : Typed(tx[c])

\* The arithmetic of an order is one of integers.
LEMMA AmountsTyped ==
    /\ \A t \in Int : TaxAmount(t, Tax) \in Int /\ TotalAmount(t, Tax) \in Int
    /\ \A s, b \in Int, d \in Choice : Totals(s, b, d, Tax) \in AmountsRow
<1>1. Tax.vat \in Nat /\ Tax.service \in Nat
  BY OrderLinesAssumptions DEF TaxSettings
<1>2. ASSUME NEW t \in Int PROVE TaxAmount(t, Tax) \in Int
  <2>1. (t * 10000) \div (10000 + Tax.vat) \in Int /\ (t * Tax.vat) \div 10000 \in Int
    <3>1. t * 10000 \in Int /\ t * Tax.vat \in Int /\ 10000 + Tax.vat \in Nat \ {0}
      BY <1>1
    <3>2. \A a \in Int, n \in Nat \ {0} : a \div n \in Int
      OBVIOUS
    <3> QED
      BY <3>1, <3>2
  <2> QED
    BY <2>1 DEF TaxAmount
<1>3. ASSUME NEW t \in Int PROVE TotalAmount(t, Tax) \in Int
  <2>1. ServiceCharge(t, Tax) \in Int
    BY <1>1 DEF ServiceCharge
  <2> QED
    BY <1>2, <2>1 DEF TotalAmount
<1>4. ASSUME NEW s \in Int, NEW b \in Int, NEW d \in Choice
      PROVE  Totals(s, b, d, Tax) \in AmountsRow
  <2> DEFINE own == CalculateDiscount(s - b, d)
             discount == b + own
  <2>1. own \in Int
    <3>1. CalculateDiscount(s - b, NoDiscount) = 0
      BY DEF CalculateDiscount, NoDiscount
    <3> QED
      BY <3>1, AmountsAreIntegers DEF Choice
  <2> HIDE DEF own
  <2>2. discount \in Int /\ s - discount \in Int
    BY <2>1
  <2>3. Totals(s, b, d, Tax) = [subtotal |-> s, discount |-> discount,
                                tax |-> TaxAmount(s - discount, Tax),
                                total |-> TotalAmount(s - discount, Tax)]
    BY DEF Totals, own
  <2> HIDE DEF discount
  <2> QED
    BY <1>2, <1>3, <2>2, <2>3 DEF AmountsRow
<1> QED
  BY <1>2, <1>3, <1>4

\* So are the sums over its lines.
LEMMA SumsTyped ==
    ASSUME NEW rows \in [Line -> GoodRow]
    PROVE  Subtotal(rows) \in Int /\ LineDiscounts(rows) \in Int
<1> DEFINE S == PresentIn(rows)
           price == [l \in S |-> rows[l].quantity * Price[rows[l].item]]
           amount == [l \in S |-> rows[l].amount]
           Sub == CHOOSE F : IsSum(F, S, price)
           Dis == CHOOSE F : IsSum(F, S, amount)
<1>1. IsFiniteSet(S)
  BY OrderLinesAssumptions, FS_Subset DEF PresentIn
<1>2. ASSUME NEW l \in S
      PROVE  rows[l].quantity \in Int /\ Price[rows[l].item] \in Int /\ rows[l].amount \in Int
  BY OrderLinesAssumptions DEF PresentIn, GoodRow, LineRow
<1>3. price \in [S -> Int] /\ amount \in [S -> Int]
  BY <1>2
<1>4. Subtotal(rows) = Sub[S]
  <2>1. \A F : IsSum(F, S, price) <=>
                 F = [s \in SUBSET S |->
                        IF s = {} THEN 0
                        ELSE LET x == CHOOSE x \in s : TRUE
                             IN  rows[x].quantity * Price[rows[x].item] + F[s \ {x}]]
    BY DEF IsSum
  <2> QED
    BY <2>1 DEF Subtotal, MapThenSumSet, MapThenFoldSet
<1>5. LineDiscounts(rows) = Dis[S]
  <2>1. \A F : IsSum(F, S, amount) <=>
                 F = [s \in SUBSET S |->
                        IF s = {} THEN 0
                        ELSE LET x == CHOOSE x \in s : TRUE
                             IN  rows[x].amount + F[s \ {x}]]
    BY DEF IsSum
  <2> QED
    BY <2>1 DEF LineDiscounts, MapThenSumSet, MapThenFoldSet
<1> HIDE DEF price, amount, S
<1>6. IsSum(Sub, S, price) /\ IsSum(Dis, S, amount)
  BY <1>1, <1>3, SumExists
<1> QED
  BY <1>1, <1>3, <1>4, <1>5, <1>6, SumIsInteger

\* A resting connection has figures of nothing.
LEMMA RestingTyped == Typed(NoTx)
<1>1. OrderIn("unwritten") \in OrderRow /\ Amounts(OrderIn("unwritten")) \in AmountsRow
  BY DEF OrderIn, OrderRow, Amounts, AmountsRow
<1>2. /\ NoTx.order = OrderIn("unwritten") /\ NoTx.choice = NoDiscount
      /\ NoTx.subtotal = 0 /\ NoTx.lineDiscount = 0
      /\ NoTx.totals = Amounts(OrderIn("unwritten"))
      /\ NoTx.adjusted = {} /\ NoTx.audited = {} /\ NoTx.invoiced = {}
  BY DEF NoTx
<1> QED
  BY <1>1, <1>2 DEF Typed, Choice

\* An order with integers for amounts.
LEMMA OrderTyped ==
    ASSUME NEW r, IsOrder(r), r.status \in {"open", "closed", "unwritten"}, r.chosen \in Choice,
           r.subtotal \in Int, r.discount \in Int, r.tax \in Int, r.total \in Int
    PROVE  r \in OrderRow
  BY DEF IsOrder, OrderColumns, OrderRow, Choice

\* What a request sees and has.
LEMMA RequestTyped ==
    ASSUME LinesInv, TypesInv, NEW c \in Client
    PROVE  /\ Typed(tx[c]) /\ IsTx(tx[c]) /\ tx[c].lines \in [Line -> GoodRow]
           /\ Seen(c) \in [Line -> GoodRow] /\ SeenOrder(c) \in OrderRow /\ IsOrder(SeenOrder(c))
<1>1. Shape(tx[c]) /\ lines \in [Line -> GoodRow]
  BY DEF LinesInv, Sound, Rows
<1>2. Seen(c) \in [Line -> GoodRow]
  BY <1>1 DEF Seen, Newest, Shape
<1>3. SeenOrder(c) \in OrderRow /\ IsOrder(SeenOrder(c))
  BY SeenOrderSound DEF TypesInv, RowsTyped, SeenOrder, Typed
<1> QED
  BY <1>1, <1>2, <1>3 DEF TypesInv, Shape

\* A step of one request that commits nothing.
LEMMA TypesKept ==
    ASSUME LinesInv, TypesInv, NEW c \in Client, NEW m, Typed(m), tx' = [tx EXCEPT ![c] = m],
           UNCHANGED database, orderLock' \in {orderLock, c, Nobody}
    PROVE  TypesInv'
<1>1. RowsTyped'
  BY DEF TypesInv, RowsTyped, database
<1>2. \A d \in Client : tx'[d] = IF d = c THEN m ELSE tx[d]
  BY DEF LinesInv, Requesting
<1>3. \A d \in Client : Typed(tx'[d])
  BY <1>2 DEF TypesInv
<1>4. orderLock' \in Client \cup {Nobody}
  BY DEF TypesInv
<1> QED
  BY <1>1, <1>3, <1>4 DEF TypesInv

\* A request that is undone.
LEMMA TypesOfRollback ==
    ASSUME LinesInv, TypesInv, NEW c \in Client, Rollback(c) PROVE TypesInv'
  BY TypesKept, RestingTyped DEF Rollback, End

\* A statement that reads.
LEMMA TypesOfLocal ==
    ASSUME LinesInv, TypesInv, NEW c \in Client, NEW m, Typed(m), Local(c, m)
    PROVE  TypesInv'
  BY TypesKept DEF Local, locks

\* A statement that writes a line.
LEMMA TypesOfLine ==
    ASSUME LinesInv, TypesInv, NEW c \in Client, NEW l \in Line, NEW row, NEW mine,
           IsTx(mine), mine.lines \in [Line -> GoodRow], Typed(mine), WriteLine(c, l, row, mine)
    PROVE  TypesInv'
<1> DEFINE m == [mine EXCEPT !.lines[l] = row]
<1>1. m.order = mine.order /\ m.adjusted = mine.adjusted
      /\ SameRequest(mine, m) /\ SameFigures(mine, m) /\ SameRecords(mine, m)
  BY SetRow
<1>2. UNCHANGED <<database, orderLock>> /\ tx' = [tx EXCEPT ![c] = m]
  BY DEF WriteLine
<1> HIDE DEF m
<1>3. Typed(m)
  BY <1>1 DEF Typed, SameRequest, SameFigures, SameRecords
<1> QED
  BY <1>2, <1>3, TypesKept

\* A statement that writes the order.
LEMMA TypesOfOrder ==
    ASSUME LinesInv, TypesInv, NEW c \in Client, NEW row \in OrderRow, NEW mine,
           IsTx(mine), Typed(mine), WriteOrder(c, row, mine)
    PROVE  TypesInv'
<1> DEFINE m == [mine EXCEPT !.order = row]
<1>1. m.order = row /\ m.adjusted = mine.adjusted
      /\ SameRequest(mine, m) /\ SameFigures(mine, m) /\ SameRecords(mine, m)
  BY SetOrder
<1>2. UNCHANGED database /\ orderLock' = c /\ tx' = [tx EXCEPT ![c] = m]
  BY DEF WriteOrder
<1> HIDE DEF m
<1>3. Typed(m)
  BY <1>1 DEF Typed, SameRequest, SameFigures, SameRecords
<1> QED
  BY <1>2, <1>3, TypesKept

\* A request that arrives, with the discount it asks for.
LEMMA TypesOfRequest ==
    ASSUME LinesInv, TypesInv, NEW c \in Client, Request(c) PROVE TypesInv'
<1> DEFINE With(m) == m.order = NoTx.order /\ m.adjusted = NoTx.adjusted
                      /\ SameFigures(NoTx, m) /\ SameRecords(NoTx, m)
<1>0. IsTx(NoTx)
  BY Resting
<1>1. ASSUME NEW op, NEW m, NEW first, With(m), IsTx(m), m.choice \in Choice, Begin(c, op, m, first)
      PROVE  TypesInv'
  <2> DEFINE n == [m EXCEPT !.op = op]
  <2>1. n.order = m.order /\ n.adjusted = m.adjusted /\ n.choice = m.choice
        /\ SameFigures(m, n) /\ SameRecords(m, n)
    BY <1>1 DEF IsTx, Fields, SameFigures, SameRecords
  <2>2. UNCHANGED <<database, locks>> /\ tx' = [tx EXCEPT ![c] = n]
    BY <1>1 DEF Begin
  <2> HIDE DEF n
  <2>3. Typed(n)
    BY <1>1, <2>1, RestingTyped DEF Typed, SameFigures, SameRecords
  <2> QED
    BY <2>2, <2>3, TypesKept DEF locks
<1>2. NoTx.choice \in Choice /\ Asked \subseteq Choice
  BY OrderLinesAssumptions DEF NoTx, Choice, ParsedDiscount
<1>3. ASSUME NEW i \in Item, NEW l \in Line, AddOrderItem(c, i, l) PROVE TypesInv'
  <2> DEFINE m == [NoTx EXCEPT !.item = i, !.line = l]
  <2>1. With(m) /\ IsTx(m) /\ m.choice \in Choice
    BY <1>0, <1>2 DEF IsTx, Fields, SameFigures, SameRecords
  <2>2. Begin(c, "add", m, "findLine")
    BY <1>3 DEF AddOrderItem
  <2> HIDE DEF m
  <2> QED
    BY <1>1, <2>1, <2>2
<1>4. ASSUME NEW l \in Line, NEW action, UpdateItemQty(c, l, action) PROVE TypesInv'
  <2> DEFINE m == [NoTx EXCEPT !.line = l, !.action = action]
  <2>1. With(m) /\ IsTx(m) /\ m.choice \in Choice
    BY <1>0, <1>2 DEF IsTx, Fields, SameFigures, SameRecords
  <2>2. Begin(c, "quantity", m, "readQuantity")
    BY <1>4 DEF UpdateItemQty
  <2> HIDE DEF m
  <2> QED
    BY <1>1, <2>1, <2>2
<1>5. ASSUME NEW l \in Line, NEW d \in Asked, OverrideItemPrice(c, l, d) PROVE TypesInv'
  <2> DEFINE m == [NoTx EXCEPT !.line = l, !.choice = d, !.quantity = lines[l].quantity]
  <2>1. With(m) /\ IsTx(m) /\ m.choice \in Choice
    BY <1>0, <1>2 DEF IsTx, Fields, SameFigures, SameRecords
  <2>2. Begin(c, "override", m, "writeDiscount")
    BY <1>5 DEF OverrideItemPrice
  <2> HIDE DEF m
  <2> QED
    BY <1>1, <2>1, <2>2
<1>6. ASSUME NEW d \in Asked \cup {NoDiscount}, SetOrderDiscount(c, d) PROVE TypesInv'
  <2> DEFINE m == [NoTx EXCEPT !.choice = d]
  <2>1. With(m) /\ IsTx(m) /\ m.choice \in Choice
    BY <1>0, <1>2 DEF IsTx, Fields, SameFigures, SameRecords, Choice
  <2>2. Begin(c, "discount", m, "writeChoice")
    BY <1>6 DEF SetOrderDiscount
  <2> HIDE DEF m
  <2> QED
    BY <1>1, <2>1, <2>2
<1>7. ASSUME CloseOrder(c) PROVE TypesInv'
  <2>1. With(NoTx)
    BY DEF SameFigures, SameRecords
  <2> QED
    BY <1>0, <1>1, <1>2, <1>7, <2>1 DEF CloseOrder
<1> QED
  BY <1>3, <1>4, <1>5, <1>6, <1>7 DEF Request

\* The statements that write lines.
LEMMA TypesOfLines ==
    ASSUME LinesInv, TypesInv, NEW c \in Client,
           \/ FindLine(c) \/ AddToLine(c) \/ ReadQuantity(c) \/ WriteQuantity(c)
           \/ WriteDiscount(c)
           \/ StartLines(c) \/ \E l \in Line : UpdateLine(c, l)
    PROVE  TypesInv'
<1> DEFINE t == tx[c]
<1>1. Typed(t) /\ IsTx(t) /\ t.lines \in [Line -> GoodRow] /\ Parameters(pc[c], t)
  BY RequestTyped DEF LinesInv, Sound
<1>2. ASSUME NEW m, SameRequest(t, m) \/ m.choice = t.choice, SameWrites(t, m),
             SameFigures(t, m), SameRecords(t, m)
      PROVE  Typed(m)
  BY <1>1, <1>2 DEF Typed, SameRequest, SameWrites, SameFigures, SameRecords
<1>3. CASE FindLine(c)
  <2>1. ASSUME NEW l PROVE Typed([t EXCEPT !.line = l])
    BY <1>1, <1>2, SetLine
  <2> QED
    BY <1>1, <1>3, <2>1, TypesOfLocal DEF FindLine
<1>4. CASE AddToLine(c)
  <2>1. t.line \in Line
    BY <1>1, <1>4 DEF AddToLine, At, Parameters
  <2> QED
    BY <1>1, <1>4, <2>1, TypesOfLocal, TypesOfLine DEF AddToLine
<1>5. CASE ReadQuantity(c)
  <2>1. ASSUME NEW q PROVE Typed([t EXCEPT !.quantity = q])
    BY <1>1, <1>2, SetQuantity
  <2> QED
    BY <1>5, <2>1, TypesOfLocal, TypesOfRollback DEF ReadQuantity
<1>6. CASE WriteQuantity(c)
  <2>1. t.line \in Line
    BY <1>1, <1>6 DEF WriteQuantity, At, Parameters
  <2> QED
    BY <1>1, <1>6, <2>1, TypesOfLocal, TypesOfLine DEF WriteQuantity
<1>7. CASE WriteDiscount(c)
  <2> DEFINE mine == [t EXCEPT !.adjusted = Audited(t.line, t.choice)]
  <2>1. t.line \in Line /\ t.choice \in Discount
    BY <1>1, <1>7 DEF WriteDiscount, At, Parameters
  <2>2. /\ IsTx(mine) /\ mine.adjusted = Audited(t.line, t.choice) /\ mine.order = t.order
        /\ mine.lines = t.lines
        /\ SameRequest(t, mine) /\ SameFigures(t, mine) /\ SameRecords(t, mine)
    BY <1>1, SetAdjusted
  <2>3. Audited(t.line, t.choice) \subseteq AdjustmentRow
    BY <2>1 DEF Audited, AdjustmentRow
  <2>4. Rollback(c) \/ \E row : WriteLine(c, t.line, row, mine)
    BY <1>7 DEF WriteDiscount
  <2> HIDE DEF mine
  <2>5. Typed(mine)
    BY <1>1, <2>2, <2>3 DEF Typed, SameRequest, SameFigures, SameRecords
  <2> QED
    BY <1>1, <2>1, <2>2, <2>4, <2>5, TypesOfLine, TypesOfRollback
<1>8. CASE StartLines(c)
  <2>1. ASSUME NEW S PROVE Typed([t EXCEPT !.todo = S])
    BY <1>1, <1>2, SetTodo
  <2> QED
    BY <1>8, <2>1, TypesOfLocal DEF StartLines
<1>9. ASSUME NEW l \in Line, UpdateLine(c, l) PROVE TypesInv'
  <2> DEFINE rest == [t EXCEPT !.todo = @ \ {l}]
  <2>1. IsTx(rest) /\ SameRequest(t, rest) /\ SameWrites(t, rest)
        /\ SameFigures(t, rest) /\ SameRecords(t, rest)
    BY <1>1, SetTodo
  <2>2. Local(c, rest) \/ \E row : WriteLine(c, l, row, rest)
    BY <1>9 DEF UpdateLine
  <2> HIDE DEF rest
  <2>3. Typed(rest) /\ rest.lines \in [Line -> GoodRow]
    BY <1>1, <1>2, <2>1 DEF SameWrites
  <2> QED
    BY <2>1, <2>2, <2>3, TypesOfLocal, TypesOfLine
<1> QED
  BY <1>3, <1>4, <1>5, <1>6, <1>7, <1>8, <1>9

\* The statements on the order and its totals.
LEMMA TypesOfTotals ==
    ASSUME LinesInv, TypesInv, NEW c \in Client,
           \/ WriteChoice(c) \/ AuditDiscount(c) \/ CloseAndInvoice(c)
           \/ Sum(c) \/ ReadChoice(c) \/ WriteTotals(c)
    PROVE  TypesInv'
<1> DEFINE t == tx[c]
           row == SeenOrder(c)
<1>1. /\ Typed(t) /\ IsTx(t) /\ Seen(c) \in [Line -> GoodRow] /\ row \in OrderRow /\ IsOrder(row)
  BY RequestTyped
<1>2. /\ row.status \in {"open", "closed", "unwritten"} /\ row.chosen \in Choice
      /\ row.subtotal \in Int /\ row.discount \in Int /\ row.tax \in Int /\ row.total \in Int
  BY <1>1 DEF OrderRow, Choice
<1>3. Subtotal(Seen(c)) \in Int /\ LineDiscounts(Seen(c)) \in Int
  BY <1>1, SumsTyped
<1> HIDE DEF row
<1>4. CASE WriteChoice(c)
  <2> DEFINE n == [row EXCEPT !.chosen = t.choice]
  <2>1. /\ IsOrder(n) /\ n.status = row.status /\ n.chosen = t.choice /\ n.subtotal = row.subtotal
        /\ n.discount = row.discount /\ n.tax = row.tax /\ n.total = row.total
    BY <1>1 DEF IsOrder, OrderColumns
  <2>2. WriteOrder(c, n, t)
    BY <1>4 DEF WriteChoice, row
  <2> HIDE DEF n
  <2>3. n \in OrderRow
    BY <1>1, <1>2, <2>1, OrderTyped DEF Typed
  <2> QED
    BY <1>1, <2>2, <2>3, TypesOfOrder
<1>5. CASE AuditDiscount(c)
  <2> DEFINE amount == row.discount - LineDiscounts(Seen(c))
             log == {[discount |-> t.choice, amount |-> amount]}
             m == [t EXCEPT !.audited = log]
  <2>1. amount >= 0 /\ Local(c, m)
    BY <1>5 DEF AuditDiscount, row
  <2>2. amount \in Nat
    BY <1>2, <1>3, <2>1
  <2> HIDE DEF amount
  <2>3. log \subseteq DiscountRow
    BY <1>1, <2>2 DEF DiscountRow, Typed
  <2>4. m.audited = log /\ m.invoiced = t.invoiced
        /\ SameRequest(t, m) /\ SameWrites(t, m) /\ SameFigures(t, m)
    BY <1>1, SetAudited
  <2>5. Local(c, m)
    BY <2>1
  <2> HIDE DEF m, log
  <2>6. Typed(m)
    BY <1>1, <2>3, <2>4 DEF Typed, SameRequest, SameWrites, SameFigures
  <2> QED
    BY <2>5, <2>6, TypesOfLocal
<1>6. CASE CloseAndInvoice(c)
  <2> DEFINE taxable == row.subtotal - row.discount
             closed == [row EXCEPT !.status = "closed", !.tax = TaxAmount(taxable, Tax),
                                   !.total = TotalAmount(taxable, Tax)]
             mine == [t EXCEPT !.invoiced = {Amounts(closed)}]
  <2>1. Rollback(c) \/ WriteOrder(c, closed, mine)
    BY <1>6 DEF CloseAndInvoice, row
  <2>2. taxable \in Int
    BY <1>2
  <2> HIDE DEF taxable
  <2>3. /\ IsOrder(closed) /\ closed.status = "closed" /\ closed.chosen = row.chosen
        /\ closed.subtotal = row.subtotal /\ closed.discount = row.discount
        /\ closed.tax = TaxAmount(taxable, Tax) /\ closed.total = TotalAmount(taxable, Tax)
    BY <1>1 DEF IsOrder, OrderColumns
  <2> HIDE DEF closed
  <2>4. closed \in OrderRow /\ Amounts(closed) \in AmountsRow
    <3>1. TaxAmount(taxable, Tax) \in Int /\ TotalAmount(taxable, Tax) \in Int
      BY <2>2, AmountsTyped
    <3>2. closed \in OrderRow
      BY <1>2, <2>3, <3>1, OrderTyped
    <3> QED
      BY <1>2, <2>3, <3>1, <3>2 DEF Amounts, AmountsRow
  <2>5. /\ IsTx(mine) /\ mine.invoiced = {Amounts(closed)} /\ mine.audited = t.audited
        /\ SameRequest(t, mine) /\ SameWrites(t, mine) /\ SameFigures(t, mine)
    BY <1>1, SetInvoiced
  <2> HIDE DEF mine
  <2>6. Typed(mine)
    BY <1>1, <2>4, <2>5 DEF Typed, SameRequest, SameWrites, SameFigures
  <2> QED
    BY <2>1, <2>4, <2>5, <2>6, TypesOfOrder, TypesOfRollback
<1>7. CASE Sum(c)
  <2> DEFINE m == [t EXCEPT !.subtotal = Subtotal(Seen(c)), !.lineDiscount = LineDiscounts(Seen(c))]
  <2>1. /\ m.subtotal = Subtotal(Seen(c)) /\ m.lineDiscount = LineDiscounts(Seen(c))
        /\ m.totals = t.totals
        /\ SameRequest(t, m) /\ SameWrites(t, m) /\ SameRecords(t, m)
    BY <1>1 DEF IsTx, Fields, SameRequest, SameWrites, SameRecords
  <2>2. Local(c, m)
    BY <1>7 DEF Sum
  <2> HIDE DEF m
  <2>3. Typed(m)
    BY <1>1, <1>3, <2>1 DEF Typed, SameRequest, SameWrites, SameRecords
  <2> QED
    BY <2>2, <2>3, TypesOfLocal
<1>8. CASE ReadChoice(c)
  <2> DEFINE x == Totals(t.subtotal, t.lineDiscount, row.chosen, Tax)
             m == [t EXCEPT !.totals = x]
  <2>1. /\ m.totals = x /\ m.subtotal = t.subtotal /\ m.lineDiscount = t.lineDiscount
        /\ SameRequest(t, m) /\ SameWrites(t, m) /\ SameRecords(t, m)
    BY <1>1, SetTotals
  <2>2. Local(c, m)
    BY <1>8 DEF ReadChoice, row
  <2>3. x \in AmountsRow
    BY <1>1, <1>2, AmountsTyped DEF Typed
  <2> HIDE DEF m, x
  <2>4. Typed(m)
    BY <1>1, <2>1, <2>3 DEF Typed, SameRequest, SameWrites, SameRecords
  <2> QED
    BY <2>2, <2>4, TypesOfLocal
<1>9. CASE WriteTotals(c)
  <2> DEFINE n == WithAmounts(row, t.totals)
  <2>1. WriteOrder(c, n, t)
    BY <1>9 DEF WriteTotals, row
  <2>2. /\ t.totals.subtotal \in Int /\ t.totals.discount \in Int
        /\ t.totals.tax \in Int /\ t.totals.total \in Int
    BY <1>1 DEF Typed, AmountsRow
  <2>3. /\ IsOrder(n) /\ n.status = row.status /\ n.chosen = row.chosen
        /\ n.subtotal = t.totals.subtotal /\ n.discount = t.totals.discount
        /\ n.tax = t.totals.tax /\ n.total = t.totals.total
    BY <1>1 DEF IsOrder, OrderColumns, WithAmounts
  <2> HIDE DEF n
  <2>4. n \in OrderRow
    BY <1>2, <2>2, <2>3, OrderTyped
  <2> QED
    BY <1>1, <2>1, <2>4, TypesOfOrder
<1> QED
  BY <1>4, <1>5, <1>6, <1>7, <1>8, <1>9

\* A commit leaves rows of what its request has written.
LEMMA TypesOfCommit ==
    ASSUME LinesInv, TypesInv, NEW c \in Client, Commit(c) PROVE TypesInv'
<1>1. Typed(tx[c]) /\ RowsTyped
  BY DEF TypesInv
<1>2. /\ order' = tx[c].order /\ adjustments' \subseteq adjustments \cup tx[c].adjusted
      /\ discounts' = discounts \cup tx[c].audited /\ invoices' = invoices \cup tx[c].invoiced
      /\ tx' = [tx EXCEPT ![c] = NoTx] /\ orderLock' = Nobody
  BY CommitWrites DEF Commit
<1>3. RowsTyped'
  BY <1>1, <1>2 DEF RowsTyped, Typed
<1>4. \A d \in Client : tx'[d] = IF d = c THEN NoTx ELSE tx[d]
  BY <1>2 DEF LinesInv, Requesting
<1>5. \A d \in Client : Typed(tx'[d])
  BY <1>4, RestingTyped DEF TypesInv
<1> QED
  BY <1>2, <1>3, <1>5 DEF TypesInv

\* Rows, locks and requests keep their types: whatever handlers interleave, no
\* amount is computed from anything but integers.
THEOREM TypesCorrect == Spec => []TypeOK
<1>1. Init => TypesInv
  <2> SUFFICES ASSUME Init PROVE TypesInv
    OBVIOUS
  <2>1. lines \in [Line -> GoodRow]
    BY InitInvariant DEF LinesInv, Rows
  <2>2. TotalsOf(lines, NoDiscount) \in AmountsRow
    BY <2>1, SumsTyped, AmountsTyped DEF TotalsOf, Choice
  <2>3. order = WithAmounts(OrderIn("open"), TotalsOf(lines, NoDiscount))
    BY DEF Init
  <2> DEFINE a == TotalsOf(lines, NoDiscount)
  <2>4. a.subtotal \in Int /\ a.discount \in Int /\ a.tax \in Int /\ a.total \in Int
    BY <2>2 DEF AmountsRow
  <2> HIDE DEF a
  <2>5. WithAmounts(OrderIn("open"), a) \in OrderRow
    BY <2>4 DEF WithAmounts, OrderIn, OrderRow
  <2>6. order \in OrderRow
    BY <2>3, <2>5 DEF a
  <2>7. /\ adjustments = {} /\ discounts = {} /\ invoices = {} /\ orderLock = Nobody
        /\ \A c \in Client : tx[c] = NoTx
    BY DEF Init
  <2> QED
    BY <2>6, <2>7, RestingTyped DEF TypesInv, RowsTyped
<1>2. LinesInv /\ TypesInv /\ [Next]_vars => TypesInv'
  <2> SUFFICES ASSUME LinesInv, TypesInv, [Next]_vars PROVE TypesInv'
    OBVIOUS
  <2>1. ASSUME NEW c \in Client, Step(c) PROVE TypesInv'
    BY <2>1, TypesOfLines, TypesOfTotals, TypesOfCommit, TypesOfRollback DEF Step, DeadlockVictim
  <2>2. ASSUME NEW c \in Client, Abort(c) PROVE TypesInv'
    BY <2>2, TypesOfRollback DEF Abort
  <2>3. CASE UNCHANGED vars
    BY <2>3 DEF vars, database, locks, TypesInv, RowsTyped
  <2> QED
    BY <2>1, <2>2, <2>3, TypesOfRequest DEF Next
<1>3. LinesInv /\ TypesInv => TypeOK
  <2> SUFFICES ASSUME LinesInv, TypesInv PROVE TypeOK
    OBVIOUS
  <2>1. /\ order \in OrderRow /\ order.status # "unwritten"
        /\ adjustments \subseteq AdjustmentRow /\ discounts \subseteq DiscountRow
        /\ invoices \subseteq AmountsRow
        /\ orderLock \in Client \cup {Nobody} /\ lineLock \in [Line -> Client \cup {Nobody}]
    BY DEF LinesInv, Rows, Requesting, TypesInv, RowsTyped
  <2>2. GoodRow \subseteq LineRow
    BY DEF GoodRow
  <2>3. /\ lines \in [Line -> LineRow] /\ \A l \in Line : lines[l].state # "unwritten"
        /\ \A c \in Client : tx[c].lines \in [Line -> LineRow]
    BY <2>2 DEF LinesInv, Rows, Sound, Shape
  <2>4. \A c \in Client : tx[c].order \in OrderRow
    BY DEF TypesInv, Typed
  <2> QED
    BY <2>1, <2>3, <2>4 DEF TypeOK, AdjustmentRow, DiscountRow, Choice
<1> QED
  BY <1>1, <1>2, <1>3, InitInvariant, LinesInvariant, PTL DEF Spec

=============================================================================
