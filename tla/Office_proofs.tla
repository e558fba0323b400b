---------------------------- MODULE Office_proofs ----------------------------
(***************************************************************************)
(* Proofs about the parts of module Office, at work all at once, for any   *)
(* number of connections, browsers, rows and keys.                         *)
(*                                                                         *)
(* The parts share no variable, so each has an inductive invariant of its  *)
(* own, and a section that shows it is kept by every step of the part.     *)
(* Each says of a request what it may rely on at its next statement: whose *)
(* locks it has, what it has read that is still so, and what nobody else   *)
(* can do meanwhile.  Stock has its invariant in module Inventory_proofs.  *)
(***************************************************************************)
EXTENDS Office, Sequences, TLAPS, WellFoundedInduction

-----------------------------------------------------------------------------
(* The subscription of an account                                          *)

PlanNames == Plan \cup {Subs!AnyPlan}

SubRow == [status : Subs!Status \cup {"none"}, plan : PlanNames]

SubTx == [plan : PlanNames, status : Subs!Status \cup {"none"}, row : Row \cup {NoRow},
                   written : SubRow, paid : SUBSET Plan]

SubStatement == {"idle", "find", "lock", "update", "insert", "extend", "commit"}

SubTypes ==
    /\ subscriptions \in [Row -> SubRow]
    /\ payments \subseteq Plan
    /\ rowLock \in [Row -> Client \cup {Nobody}]
    /\ subPc \in [Client -> SubStatement]
    /\ subTx \in [Client -> SubTx]

\* Nobody else has that row.
OwnRow(c) == subTx[c].row \in Row /\ \A d \in Client \ {c} : subTx[d].row # subTx[c].row

Revives(c) == subPc[c] = "commit" /\ Subs!IsCurrent(subTx[c].written)

HoldsCurrent(c) ==
    \A r \in Row : rowLock[r] = c =>
        r \in Subs!Current /\ subTx[c].row = r /\ subPc[c] \in {"update", "commit"}

WaitsForRow(c) == subPc[c] \in {"lock", "update"} => subTx[c].row \in Row

Updating(c) == subPc[c] = "update" => rowLock[subTx[c].row] = c

InsertsAlone(c) ==
    /\ subscriptions[subTx[c].row] = Subs!Absent
    /\ OwnRow(c)
    /\ Revives(c) => Subs!Current = {} /\ \A d \in Client \ {c} : ~Revives(d)

Committing(c) ==
    subPc[c] = "commit" => (subTx[c].row \in Row /\ rowLock[subTx[c].row] = c) \/ InsertsAlone(c)

Subscribing(c) == HoldsCurrent(c) /\ WaitsForRow(c) /\ Updating(c) /\ Committing(c)

SubInv ==
    /\ SubTypes
    /\ \A r, s \in Subs!Current : r = s
    /\ \A c \in Client : Subscribing(c)

\* A resting request has no row, and a row that is not there is not current.
LEMMA SubRest ==
    /\ Subs!NoTx \in SubTx /\ Subs!NoTx.row = NoRow
    /\ Subs!Absent \in SubRow /\ ~Subs!IsCurrent(Subs!Absent)
  BY DEF Subs!NoTx, SubTx, SubRow, Subs!Absent, PlanNames, Subs!IsCurrent

\* The invariant holds for a customer on trial and for one without a subscription.
LEMMA SubInit == Subs!Init => SubInv
<1> SUFFICES ASSUME Subs!Init PROVE SubInv
  OBVIOUS
<1>1. PICK trial \in SUBSET Row :
        /\ \A r, s \in trial : r = s
        /\ subscriptions = [r \in Row |->
              IF r \in trial THEN [Subs!Absent EXCEPT !.status = "trialing"] ELSE Subs!Absent]
  BY DEF Subs!Init
<1>2. /\ payments = {} /\ rowLock = [r \in Row |-> Nobody]
      /\ subPc = [c \in Client |-> "idle"] /\ subTx = [c \in Client |-> Subs!NoTx]
  BY DEF Subs!Init
<1>3. [Subs!Absent EXCEPT !.status = "trialing"] \in SubRow
  BY DEF Subs!Absent, SubRow, Subs!Status, PlanNames
<1>4. SubTypes
  BY <1>1, <1>2, <1>3, SubRest DEF SubTypes, SubStatement
<1>5. Subs!Current \subseteq trial
  BY <1>1, SubRest DEF Subs!Current
<1>6. \A r, s \in Subs!Current : r = s
  BY <1>1, <1>5
<1>7. ASSUME NEW c \in Client PROVE Subscribing(c)
  BY <1>2, NobodyIsElse DEF Subscribing, HoldsCurrent, WaitsForRow, Updating, Committing
<1> QED
  BY <1>4, <1>6, <1>7 DEF SubInv

\* A step of one request that changes no row keeps the invariant if it takes nobody's
\* row or lock, makes no row current beside another, and is sound itself.
LEMMA SubStep ==
    ASSUME SubInv, NEW c \in Client, NEW mine \in SubTx, NEW next \in SubStatement,
           UNCHANGED Subs!rows,
           subTx' = [subTx EXCEPT ![c] = mine], subPc' = [subPc EXCEPT ![c] = next],
           rowLock' \in [Row -> Client \cup {Nobody}],
           \A r \in Row, d \in Client \ {c} : rowLock'[r] = d <=> rowLock[r] = d,
           \/ mine.row \in {NoRow, subTx[c].row}
           \/ subscriptions[mine.row] # Subs!Absent
           \/ \A d \in Client \ {c} : subTx[d].row # mine.row,
           next = "commit" /\ Subs!IsCurrent(mine.written) =>
               Subs!Current # {} \/ \A d \in Client \ {c} : ~Revives(d),
           Subscribing(c)'
    PROVE  SubInv'
<1>1. /\ UNCHANGED <<subscriptions, payments>>
      /\ subPc'[c] = next /\ subTx'[c] = mine
      /\ \A d \in Client \ {c} : subPc'[d] = subPc[d] /\ subTx'[d] = subTx[d]
  BY DEF Subs!rows, SubInv, SubTypes
<1>2. Subs!Current' = Subs!Current
  BY <1>1 DEF Subs!Current
<1>3. SubTypes'
  BY <1>1 DEF SubInv, SubTypes
<1>4. ASSUME NEW d \in Client \ {c} PROVE Subscribing(d)'
  <2>1. HoldsCurrent(d) /\ WaitsForRow(d) /\ Updating(d) /\ Committing(d)
    BY DEF SubInv, Subscribing
  <2>2. HoldsCurrent(d)'
    BY <1>1, <1>2, <2>1 DEF HoldsCurrent
  <2>3. WaitsForRow(d)'
    BY <1>1, <2>1 DEF WaitsForRow
  <2>4. Updating(d)'
    BY <1>1, <2>1, <2>3 DEF Updating, WaitsForRow
  <2>5. Committing(d)'
    <3>1. CASE subPc[d] # "commit"
      BY <1>1, <3>1 DEF Committing
    <3>2. CASE subTx[d].row \in Row /\ rowLock[subTx[d].row] = d
      BY <1>1, <3>2 DEF Committing
    <3>3. CASE subPc[d] = "commit" /\ InsertsAlone(d)
      <4>1. subscriptions'[subTx'[d].row] = Subs!Absent
        BY <1>1, <3>3 DEF InsertsAlone
      <4>2. OwnRow(d)'
        BY <1>1, <3>3, NobodyIsElse DEF InsertsAlone, OwnRow
      <4>3. Revives(d)' => Subs!Current' = {} /\ \A e \in Client \ {d} : ~Revives(e)'
        BY <1>1, <1>2, <3>3 DEF InsertsAlone, Revives
      <4> QED
        BY <4>1, <4>2, <4>3 DEF Committing, InsertsAlone
    <3> QED
      BY <2>1, <3>1, <3>2, <3>3 DEF Committing
  <2> QED
    BY <2>2, <2>3, <2>4, <2>5 DEF Subscribing
<1>5. \A r, s \in Subs!Current' : r = s
  BY <1>2 DEF SubInv
<1> QED
  BY <1>3, <1>4, <1>5 DEF SubInv

\* A request that is undone, or refused, gives up its lock and its row.
LEMMA SubRollback ==
    ASSUME SubInv, NEW c \in Client, Subs!Rollback(c) PROVE SubInv'
<1>1. /\ UNCHANGED Subs!rows
      /\ rowLock' = [r \in Row |-> IF rowLock[r] = c THEN Nobody ELSE rowLock[r]]
      /\ subTx' = [subTx EXCEPT ![c] = Subs!NoTx] /\ subPc' = [subPc EXCEPT ![c] = "idle"]
  BY DEF Subs!Rollback, Subs!End, Subs!Local, Subs!Goto
<1>2. rowLock \in [Row -> Client \cup {Nobody}] /\ subPc'[c] = "idle" /\ "idle" \in SubStatement
  BY <1>1 DEF SubInv, SubTypes, SubStatement
<1>3. /\ rowLock' \in [Row -> Client \cup {Nobody}]
      /\ \A r \in Row : rowLock'[r] # c
      /\ \A r \in Row, d \in Client \ {c} : rowLock'[r] = d <=> rowLock[r] = d
  BY <1>1, <1>2, NobodyIsElse
<1>4. Subscribing(c)'
  BY <1>2, <1>3 DEF Subscribing, HoldsCurrent, WaitsForRow, Updating, Committing
<1> QED
  BY <1>1, <1>2, <1>3, <1>4, SubRest, SubStep

\* A statement that neither writes nor locks anything.
LEMMA SubRead ==
    ASSUME SubInv, NEW c \in Client, NEW mine \in SubTx,
           NEW next \in SubStatement \ {"update", "commit"},
           subPc[c] \notin {"update", "commit"},
           UNCHANGED <<Subs!rows, rowLock>>,
           subTx' = [subTx EXCEPT ![c] = mine], subPc' = [subPc EXCEPT ![c] = next],
           mine.row \in {NoRow, subTx[c].row} \cup Subs!Current,
           next = "lock" => mine.row \in Row
    PROVE  SubInv'
<1>1. /\ UNCHANGED Subs!rows /\ UNCHANGED <<subscriptions, rowLock>>
      /\ subPc'[c] = next /\ subTx'[c] = mine
  BY DEF Subs!rows, SubInv, SubTypes
<1>2. /\ rowLock' \in [Row -> Client \cup {Nobody}]
      /\ \A r \in Row : rowLock'[r] # c
      /\ \A r \in Row, d \in Client \ {c} : rowLock'[r] = d <=> rowLock[r] = d
  BY <1>1 DEF SubInv, SubTypes, Subscribing, HoldsCurrent
<1>3. Subscribing(c)'
  BY <1>1, <1>2 DEF Subscribing, HoldsCurrent, WaitsForRow, Updating, Committing
<1>4. mine.row \in {NoRow, subTx[c].row} \/ subscriptions[mine.row] # Subs!Absent
  BY SubRest DEF Subs!Current
<1> QED
  BY <1>1, <1>2, <1>3, <1>4, SubStep

\* The search finds a row that is current now, which proves nothing for later.
LEMMA SubFind ==
    ASSUME SubInv, NEW c \in Client, Subs!FindCurrent(c) PROVE SubInv'
<1>1. /\ subPc[c] = "find" /\ UNCHANGED <<Subs!rows, rowLock>> /\ subTx[c] \in SubTx
      /\ {"insert", "lock"} \subseteq SubStatement \ {"update", "commit"}
      /\ subTx \in [Client -> SubTx]
  BY DEF Subs!FindCurrent, Subs!At, SubInv, SubTypes, SubStatement
<1>2. CASE Subs!Current = {} /\ UNCHANGED subTx /\ Subs!Goto(c, "insert")
  <2>1. subTx' = [subTx EXCEPT ![c] = subTx[c]] /\ subPc' = [subPc EXCEPT ![c] = "insert"]
    BY <1>1, <1>2 DEF Subs!Goto
  <2> QED
    BY <1>1, <2>1, SubRead
<1>3. ASSUME NEW r \in Subs!Current, Subs!Local(c, [subTx[c] EXCEPT !.row = r]),
             Subs!Goto(c, "lock")
      PROVE  SubInv'
  <2>1. /\ [subTx[c] EXCEPT !.row = r] \in SubTx
        /\ [subTx[c] EXCEPT !.row = r].row = r
        /\ r \in Row
    BY <1>1 DEF SubTx, Subs!Current
  <2> QED
    BY <1>1, <1>3, <2>1, SubRead DEF Subs!Local, Subs!Goto
<1> QED
  BY <1>2, <1>3 DEF Subs!FindCurrent

\* Whoever gets the lock looks again, and goes on with a current row only.
LEMMA SubLock ==
    ASSUME SubInv, NEW c \in Client, Subs!LockCurrent(c) PROVE SubInv'
<1> DEFINE r == subTx[c].row
<1>1. /\ subPc[c] = "lock" /\ UNCHANGED Subs!rows /\ r \in Row /\ rowLock[r] = Nobody
      /\ subTx[c] \in SubTx /\ subTx \in [Client -> SubTx]
      /\ rowLock \in [Row -> Client \cup {Nobody}]
      /\ {"insert", "update"} \subseteq SubStatement
      /\ \A q \in Row : rowLock[q] # c
  BY DEF Subs!LockCurrent, Subs!At, SubInv, SubTypes, SubStatement, Subscribing, WaitsForRow,
         HoldsCurrent
<1>2. CASE /\ Subs!IsCurrent(subscriptions[r])
           /\ rowLock' = [rowLock EXCEPT ![r] = c]
           /\ Subs!Goto(c, "update")
           /\ UNCHANGED subTx
  <2>1. /\ subTx' = [subTx EXCEPT ![c] = subTx[c]] /\ subPc' = [subPc EXCEPT ![c] = "update"]
        /\ subPc'[c] = "update"
        /\ subTx'[c] = subTx[c]
        /\ r \in Subs!Current'
        /\ subscriptions' = subscriptions
    BY <1>1, <1>2 DEF Subs!Goto, Subs!rows, Subs!Current, SubInv, SubTypes
  <2>2. /\ rowLock' \in [Row -> Client \cup {Nobody}]
        /\ \A q \in Row : rowLock'[q] = c <=> q = r
        /\ \A q \in Row, d \in Client \ {c} : rowLock'[q] = d <=> rowLock[q] = d
    BY <1>1, <1>2, NobodyIsElse
  <2>3. Subscribing(c)'
    BY <1>1, <2>1, <2>2 DEF Subscribing, HoldsCurrent, WaitsForRow, Updating, Committing
  <2> QED
    BY <1>1, <2>1, <2>2, <2>3, SubStep
<1>3. CASE /\ Subs!Local(c, [subTx[c] EXCEPT !.row = NoRow])
           /\ Subs!Goto(c, "insert")
           /\ UNCHANGED rowLock
  <2>1. [subTx[c] EXCEPT !.row = NoRow] \in SubTx /\ [subTx[c] EXCEPT !.row = NoRow].row = NoRow
    BY <1>1 DEF SubTx
  <2> QED
    BY <1>1, <1>3, <2>1, SubRead DEF Subs!Local, Subs!Goto
<1> QED
  BY <1>2, <1>3 DEF Subs!LockCurrent

\* An update computes its row under the lock.
LEMMA SubUpdate ==
    ASSUME SubInv, NEW c \in Client, Subs!UpdateCurrent(c) PROVE SubInv'
<1> DEFINE mine == [subTx[c] EXCEPT !.written = Subs!Wanted(c)]
<1>1. /\ subPc[c] = "update" /\ UNCHANGED <<Subs!rows, rowLock>> /\ UNCHANGED subscriptions
      /\ subTx[c] \in SubTx /\ subTx \in [Client -> SubTx]
      /\ subTx[c].row \in Row /\ rowLock[subTx[c].row] = c /\ subTx[c].row \in Subs!Current
      /\ rowLock \in [Row -> Client \cup {Nobody}]
      /\ "commit" \in SubStatement /\ subPc \in [Client -> SubStatement]
      /\ \A q \in Row : rowLock[q] = c => subTx[c].row = q
  BY DEF Subs!UpdateCurrent, Subs!At, SubInv, SubTypes, SubStatement, Subscribing,
         WaitsForRow, HoldsCurrent, Updating, Subs!rows
<1>2. mine \in SubTx /\ mine.row = subTx[c].row
  BY <1>1 DEF SubTx, Subs!Wanted, SubRow
<1>3. subTx' = [subTx EXCEPT ![c] = mine] /\ subPc' = [subPc EXCEPT ![c] = "commit"]
  BY DEF Subs!UpdateCurrent, Subs!Local, Subs!Goto
<1> HIDE DEF mine
<1>4. subPc'[c] = "commit" /\ subTx'[c] = mine /\ Subs!Current' = Subs!Current
  BY <1>1, <1>3 DEF Subs!Current
<1>5. Subscribing(c)'
  BY <1>1, <1>2, <1>4 DEF Subscribing, HoldsCurrent, WaitsForRow, Updating, Committing
<1>6. /\ rowLock' \in [Row -> Client \cup {Nobody}]
      /\ \A q \in Row, d \in Client \ {c} : rowLock'[q] = d <=> rowLock[q] = d
  BY <1>1
<1>7. UNCHANGED Subs!rows /\ Subs!Current # {}
  BY <1>1
<1> QED
  BY <1>1, <1>2, <1>3, <1>5, <1>6, <1>7, SubStep

\* An insert of a current row gets by the index only when there is none and nobody
\* else is about to commit one.
LEMMA SubInsert ==
    ASSUME SubInv, NEW c \in Client, Subs!InsertSubscription(c) PROVE SubInv'
<1>1. CASE /\ Subs!IsCurrent(Subs!Wanted(c)) => Subs!Current = {}
           /\ \E r \in Row :
                   Subs!Fresh(r) /\ Subs!Local(c, [subTx[c] EXCEPT !.row = r, !.written = Subs!Wanted(c)])
           /\ Subs!Goto(c, "commit")
           /\ UNCHANGED <<Subs!rows, rowLock>>
  <2>1. PICK r \in Row :
             Subs!Fresh(r) /\ Subs!Local(c, [subTx[c] EXCEPT !.row = r, !.written = Subs!Wanted(c)])
    BY <1>1
  <2> DEFINE mine == [subTx[c] EXCEPT !.row = r, !.written = Subs!Wanted(c)]
  <2>2. /\ UNCHANGED <<Subs!rows, rowLock>> /\ UNCHANGED subscriptions
        /\ subTx[c] \in SubTx /\ subTx \in [Client -> SubTx]
        /\ rowLock \in [Row -> Client \cup {Nobody}]
        /\ "commit" \in SubStatement /\ subPc \in [Client -> SubStatement]
        /\ subPc[c] = "insert"
        /\ \A q \in Row : rowLock[q] # c
    BY <1>1 DEF Subs!InsertSubscription, Subs!At, SubInv, SubTypes, SubStatement, Subscribing,
                HoldsCurrent, Subs!rows
  <2>3. mine \in SubTx /\ mine.row = r /\ mine.written = Subs!Wanted(c)
    BY <2>2 DEF SubTx, Subs!Wanted, SubRow
  <2>4. subTx' = [subTx EXCEPT ![c] = mine] /\ subPc' = [subPc EXCEPT ![c] = "commit"]
    BY <1>1, <2>1 DEF Subs!Local, Subs!Goto
  <2>5. subscriptions[r] = Subs!Absent /\ \A d \in Client : subTx[d].row # r
    BY <2>1 DEF Subs!Fresh
  <2>6. Subs!IsCurrent(mine.written) => Subs!Current = {} /\ \A d \in Client \ {c} : ~Revives(d)
    BY <1>1, <2>3 DEF Subs!InsertSubscription, Subs!IndexUndecided, Revives, Subs!At
  <2> HIDE DEF mine
  <2>7. /\ subPc'[c] = "commit" /\ subTx'[c] = mine /\ Subs!Current' = Subs!Current
        /\ \A d \in Client \ {c} : subTx'[d] = subTx[d] /\ subPc'[d] = subPc[d]
    BY <2>2, <2>4 DEF Subs!Current
  <2>8. InsertsAlone(c)'
    BY <2>2, <2>3, <2>5, <2>6, <2>7 DEF InsertsAlone, OwnRow, Revives
  <2>9. Subscribing(c)'
    BY <2>2, <2>3, <2>7, <2>8 DEF Subscribing, HoldsCurrent, WaitsForRow, Updating, Committing
  <2>10. /\ rowLock' \in [Row -> Client \cup {Nobody}]
         /\ \A q \in Row, d \in Client \ {c} : rowLock'[q] = d <=> rowLock[q] = d
         /\ \A d \in Client \ {c} : subTx[d].row # mine.row
         /\ UNCHANGED Subs!rows
    BY <2>2, <2>3, <2>5
  <2> QED
    BY <2>2, <2>3, <2>4, <2>6, <2>9, <2>10, SubStep
<1> QED
  BY <1>1, SubRollback DEF Subs!InsertSubscription

\* A commit makes a row current only when no other is, or rewrites the one it holds.
LEMMA SubCommit ==
    ASSUME SubInv, NEW c \in Client, Subs!Commit(c) PROVE SubInv'
<1> DEFINE row == subTx[c].row
           written == subTx[c].written
<1>1. /\ subPc[c] = "commit" /\ Committing(c) /\ row \in Row /\ written \in SubRow
      /\ subTx[c].paid \subseteq Plan /\ payments \subseteq Plan
      /\ subscriptions \in [Row -> SubRow]
      /\ rowLock \in [Row -> Client \cup {Nobody}]
      /\ subTx \in [Client -> SubTx] /\ subPc \in [Client -> SubStatement]
      /\ "idle" \in SubStatement
  BY DEF Subs!Commit, Subs!At, SubInv, SubTypes, Subscribing, Committing, InsertsAlone,
         OwnRow, SubTx, SubStatement
<1>2. /\ subscriptions' = [r \in Row |-> IF r = row THEN written ELSE subscriptions[r]]
      /\ payments' = payments \cup subTx[c].paid
      /\ rowLock' = [r \in Row |-> IF rowLock[r] = c THEN Nobody ELSE rowLock[r]]
      /\ subTx' = [subTx EXCEPT ![c] = Subs!NoTx] /\ subPc' = [subPc EXCEPT ![c] = "idle"]
  BY DEF Subs!Commit, Subs!End, Subs!Local, Subs!Goto
<1>3. SubTypes'
  BY <1>1, <1>2, SubRest DEF SubTypes
<1>4. /\ subTx'[c] = Subs!NoTx /\ subPc'[c] = "idle"
      /\ \A d \in Client \ {c} : subTx'[d] = subTx[d] /\ subPc'[d] = subPc[d]
      /\ \A r \in Row : rowLock'[r] # c
      /\ \A r \in Row, d \in Client \ {c} : rowLock'[r] = d <=> rowLock[r] = d
  BY <1>1, <1>2, NobodyIsElse
<1>5. /\ \A r \in Row \ {row} : subscriptions'[r] = subscriptions[r]
      /\ \A r \in Row \ {row} : r \in Subs!Current' <=> r \in Subs!Current
      /\ row \in Subs!Current' <=> Subs!IsCurrent(written)
  BY <1>1, <1>2 DEF Subs!Current
<1>6. (rowLock[row] = c /\ row \in Subs!Current) \/ InsertsAlone(c)
  BY <1>1 DEF Committing, SubInv, Subscribing, HoldsCurrent
<1>7. \A r, s \in Subs!Current' : r = s
  <2>1. CASE row \in Subs!Current
    <3>1. Subs!Current' \subseteq Subs!Current
      BY <2>1, <1>5 DEF Subs!Current
    <3> QED
      BY <3>1 DEF SubInv
  <2>2. CASE InsertsAlone(c)
    <3>1. CASE Subs!IsCurrent(written)
      <4>1. Subs!Current = {}
        BY <1>1, <2>2, <3>1 DEF InsertsAlone, Revives
      <4>2. Subs!Current' \subseteq {row}
        BY <1>5, <4>1 DEF Subs!Current
      <4> QED
        BY <4>2
    <3>2. CASE ~Subs!IsCurrent(written)
      <4>1. Subs!Current' \subseteq Subs!Current
        BY <1>5, <3>2 DEF Subs!Current
      <4> QED
        BY <4>1 DEF SubInv
    <3> QED
      BY <3>1, <3>2
  <2> QED
    BY <1>6, <2>1, <2>2
<1>8. ASSUME NEW d \in Client \ {c} PROVE Subscribing(d)'
  <2>1. HoldsCurrent(d) /\ WaitsForRow(d) /\ Updating(d) /\ Committing(d)
    BY DEF SubInv, Subscribing
  <2>2. HoldsCurrent(d)'
    <3>1. \A r \in Row : rowLock[r] = d => r # row
      BY <1>6, <2>1, NobodyIsElse, SubRest DEF HoldsCurrent, InsertsAlone, OwnRow
    <3> QED
      BY <1>4, <1>5, <2>1, <3>1 DEF HoldsCurrent
  <2>3. WaitsForRow(d)' /\ Updating(d)'
    BY <1>4, <2>1 DEF WaitsForRow, Updating
  <2>4. Committing(d)'
    <3>1. CASE subTx[d].row \in Row /\ rowLock[subTx[d].row] = d
      BY <1>4, <2>1, <3>1 DEF Committing
    <3>2. CASE subPc[d] = "commit" /\ InsertsAlone(d)
      <4>1. subTx[d].row \in Row \ {row} /\ OwnRow(d)'
        BY <1>4, <3>2, NobodyIsElse, SubRest DEF InsertsAlone, OwnRow
      <4>2. subscriptions'[subTx'[d].row] = Subs!Absent
        BY <1>4, <1>5, <3>2, <4>1 DEF InsertsAlone
      <4>3. Revives(d)' => Subs!Current' = {} /\ \A e \in Client \ {d} : ~Revives(e)'
        <5>1. SUFFICES ASSUME Revives(d)
                       PROVE  Subs!Current' = {} /\ \A e \in Client \ {d} : ~Revives(e)'
          BY <1>4 DEF Revives
        <5>2. Subs!Current = {} /\ \A e \in Client \ {d} : ~Revives(e)
          BY <3>2, <5>1 DEF InsertsAlone
        <5>3. ~Subs!IsCurrent(written)
          BY <1>1, <5>2 DEF Revives
        <5>4. Subs!Current' = {}
          BY <1>5, <5>2, <5>3 DEF Subs!Current
        <5> QED
          BY <1>4, <5>2, <5>4 DEF Revives
      <4> QED
        BY <4>1, <4>2, <4>3 DEF Committing, InsertsAlone
    <3>3. CASE subPc[d] # "commit"
      BY <1>4, <3>3 DEF Committing
    <3> QED
      BY <2>1, <3>1, <3>2, <3>3 DEF Committing
  <2> QED
    BY <2>2, <2>3, <2>4 DEF Subscribing
<1>9. Subscribing(c)'
  BY <1>4 DEF Subscribing, HoldsCurrent, WaitsForRow, Updating, Committing
<1> QED
  BY <1>3, <1>7, <1>8, <1>9 DEF SubInv

\* A new request has no row yet.
LEMMA SubBegin ==
    ASSUME SubInv, NEW c \in Client, NEW p \in Plan,
           \/ \E status \in Subs!Status : Subs!UpdateAccountSubscription(c, p, status)
           \/ Subs!TriggerMockCheckout(c, p)
    PROVE  SubInv'
<1>1. /\ subTx[c] \in SubTx /\ Subs!NoTx \in SubTx /\ Subs!NoTx.row = NoRow
      /\ {"find", "extend"} \subseteq SubStatement \ {"update", "commit"}
  BY SubRest DEF SubInv, SubTypes, SubStatement
<1>2. ASSUME NEW status \in Subs!Status, Subs!UpdateAccountSubscription(c, p, status)
      PROVE  SubInv'
  <2> DEFINE mine == [Subs!NoTx EXCEPT !.plan = p, !.status = status]
  <2>1. mine \in SubTx /\ mine.row = NoRow
    BY <1>1 DEF SubTx, PlanNames
  <2> HIDE DEF mine
  <2>2. /\ subPc[c] = "idle" /\ UNCHANGED <<Subs!rows, rowLock>>
        /\ subTx' = [subTx EXCEPT ![c] = mine] /\ subPc' = [subPc EXCEPT ![c] = "find"]
    BY <1>2 DEF Subs!UpdateAccountSubscription, Subs!At, Subs!Local, Subs!Goto, mine
  <2> QED
    BY <1>1, <2>1, <2>2, SubRead
<1>3. ASSUME Subs!TriggerMockCheckout(c, p) PROVE SubInv'
  <2> DEFINE mine == [Subs!NoTx EXCEPT !.plan = p, !.paid = {p}]
  <2>1. mine \in SubTx /\ mine.row = NoRow
    BY <1>1 DEF SubTx, PlanNames
  <2> HIDE DEF mine
  <2>2. /\ subPc[c] = "idle" /\ UNCHANGED <<Subs!rows, rowLock>>
        /\ subTx' = [subTx EXCEPT ![c] = mine] /\ subPc' = [subPc EXCEPT ![c] = "extend"]
    BY <1>3 DEF Subs!TriggerMockCheckout, Subs!At, Subs!Local, Subs!Goto, mine
  <2> QED
    BY <1>1, <2>1, <2>2, SubRead
<1> QED
  BY <1>2, <1>3

\* Every step keeps the invariant.
LEMMA SubNext == SubInv /\ [Subs!Next]_(Subs!vars) => SubInv'
<1> SUFFICES ASSUME SubInv, [Subs!Next]_(Subs!vars) PROVE SubInv'
  OBVIOUS
<1>1. CASE UNCHANGED Subs!vars
  BY <1>1 DEF Subs!vars, Subs!rows, SubInv, SubTypes, Subscribing, HoldsCurrent, WaitsForRow,
              Updating, Committing, InsertsAlone, OwnRow, Revives, Subs!Current
<1>2. ASSUME NEW c \in Client,
             \/ Subs!ExtendSubscription(c) \/ Subs!Abort(c)
             \/ Subs!FindCurrent(c) \/ Subs!LockCurrent(c)
             \/ Subs!UpdateCurrent(c) \/ Subs!InsertSubscription(c)
             \/ Subs!Commit(c)
      PROVE  SubInv'
  BY <1>2, SubRollback, SubFind, SubLock, SubUpdate, SubInsert, SubCommit
     DEF Subs!ExtendSubscription, Subs!Abort
<1> QED
  BY <1>1, <1>2, SubBegin DEF Subs!Next

\* What the invariant is for.
LEMMA SubSafe == SubInv => Subs!OneCurrentSubscription
  BY DEF SubInv, Subscribing, HoldsCurrent, Subs!OneCurrentSubscription

-----------------------------------------------------------------------------
(* Sessions                                                                *)

RequestFields == {"user", "role", "cookie", "restaurant"}
IsRequest(r) == r = [f \in RequestFields |-> r[f]]

CookieNames == {"session", "platform", "active"}

\* Sessions are those of customers.
SignedIn(held) ==
    /\ held = [f \in CookieNames |-> held[f]]
    /\ held.session # Nobody => RoleOf[held.session.user] = "none"

SessionCookies ==
    /\ cookies = [b \in Browser |-> cookies[b]]
    /\ \A b \in Browser : SignedIn(cookies[b])

SessionTypes ==
    /\ accessPc = [b \in Browser |-> accessPc[b]]
    /\ req = [b \in Browser |-> req[b]]
    /\ barred = [b \in Browser |-> barred[b]]
    /\ \A b \in Browser : IsRequest(req[b])

Barring(b) == barred[b] \subseteq suspended

CustomerOnly(b) ==
    accessPc[b] \in {"role", "memberships", "act"} => RoleOf[req[b].user] = "none"

Acting(b) ==
    accessPc[b] = "act" => /\ req[b].restaurant \in MemberOf[req[b].user]
                           /\ AccountOf[req[b].restaurant] \notin barred[b]

Serving(b) == Barring(b) /\ CustomerOnly(b) /\ Acting(b)

SessionInv == SessionTypes /\ SessionCookies /\ \A b \in Browser : Serving(b)

\* A resting browser has a request of the right shape.
LEMMA NoRequestIsOne == IsRequest(Sessions!NoRequest)
  BY DEF IsRequest, Sessions!NoRequest, RequestFields

\* Who signs in as a customer is one, and the other cookies do not matter.
LEMMA CookiesHeld ==
    ASSUME SessionInv, NEW b \in Browser, NEW x
    PROVE  /\ SignedIn([cookies[b] EXCEPT !.session = Nobody])
           /\ SignedIn([cookies[b] EXCEPT !.platform = x])
           /\ SignedIn([cookies[b] EXCEPT !.active = x])
           /\ RoleOf[x.user] = "none" => SignedIn([cookies[b] EXCEPT !.session = x])
<1>1. SignedIn(cookies[b])
  BY DEF SessionInv, SessionCookies
<1> QED
  BY <1>1 DEF SignedIn, CookieNames

\* A browser gets new cookies.
LEMMA CookiesSet ==
    ASSUME SessionInv, NEW b \in Browser, NEW held, SignedIn(held),
           cookies' = [cookies EXCEPT ![b] = held]
    PROVE  SessionCookies'
<1>1. /\ cookies'[b] = held /\ cookies' = [d \in Browser |-> cookies'[d]]
      /\ \A d \in Browser \ {b} : cookies'[d] = cookies[d]
  BY DEF SessionInv, SessionCookies
<1>2. \A d \in Browser : SignedIn(cookies'[d])
  BY <1>1 DEF SessionInv, SessionCookies
<1> QED
  BY <1>1, <1>2 DEF SessionCookies, SignedIn

\* The invariant holds while nobody has signed in.
LEMMA SessionInit == Sessions!Init => SessionInv
<1> SUFFICES ASSUME Sessions!Init PROVE SessionInv
  OBVIOUS
<1>1. /\ accessPc = [b \in Browser |-> "idle"] /\ req = [b \in Browser |-> Sessions!NoRequest]
      /\ barred = [b \in Browser |-> {}]
  BY DEF Sessions!Init
<1>2. SessionTypes
  BY <1>1, NoRequestIsOne DEF SessionTypes
<1>3. \A b \in Browser : Serving(b)
  BY <1>1 DEF Serving, Barring, CustomerOnly, Acting
<1>4. SessionCookies
  BY DEF Sessions!Init, SessionCookies, SignedIn, CookieNames, Sessions!NoCookies
<1> QED
  BY <1>2, <1>3, <1>4 DEF SessionInv

\* A statement of the request of one browser.
LEMMA SessionStep ==
    ASSUME SessionInv, NEW b \in Browser, NEW mine, NEW next, IsRequest(mine),
           req' = [req EXCEPT ![b] = mine], Sessions!Goto(b, next), SessionCookies',
           UNCHANGED <<suspended, barred>> \/ 
              (UNCHANGED suspended /\ barred' = [barred EXCEPT ![b] = suspended]),
           next \in {"role", "memberships", "act"} => RoleOf[mine.user] = "none",
           next = "act" =>
               /\ mine.restaurant \in MemberOf[mine.user]
               /\ AccountOf[mine.restaurant] \notin suspended
    PROVE  SessionInv'
<1>1. /\ accessPc'[b] = next /\ req'[b] = mine
      /\ \A d \in Browser \ {b} : accessPc'[d] = accessPc[d] /\ req'[d] = req[d] /\ barred'[d] = barred[d]
      /\ barred'[b] \subseteq suspended /\ suspended' = suspended
  BY DEF Sessions!Goto, SessionInv, SessionTypes, Serving, Barring
<1>2. SessionTypes'
  <2>1. accessPc' = [d \in Browser |-> accessPc'[d]] /\ req' = [d \in Browser |-> req'[d]]
    BY DEF Sessions!Goto, SessionInv, SessionTypes
  <2>2. barred' = [d \in Browser |-> barred'[d]]
    BY DEF SessionInv, SessionTypes
  <2>3. \A d \in Browser : IsRequest(req'[d])
    BY <1>1 DEF SessionInv, SessionTypes
  <2> QED
    BY <2>1, <2>2, <2>3 DEF SessionTypes, IsRequest
<1>3. ASSUME NEW d \in Browser \ {b} PROVE Serving(d)'
  BY <1>1 DEF SessionInv, Serving, Barring, CustomerOnly, Acting
<1>4. Serving(b)'
  BY <1>1 DEF Serving, Barring, CustomerOnly, Acting
<1> QED
  BY <1>2, <1>3, <1>4 DEF SessionInv

\* A statement that leaves the browser's cookies and those barred alone.
LEMMA SessionGo ==
    ASSUME SessionInv, NEW b \in Browser, NEW mine, NEW next, IsRequest(mine),
           Sessions!Go(b, mine, next), UNCHANGED barred,
           next \in {"role", "memberships", "act"} => RoleOf[mine.user] = "none",
           next = "act" =>
               /\ mine.restaurant \in MemberOf[mine.user]
               /\ AccountOf[mine.restaurant] \notin suspended
    PROVE  SessionInv'
<1>1. SessionCookies'
  BY DEF Sessions!Go, SessionInv, SessionCookies, SignedIn
<1> QED
  BY <1>1, SessionStep DEF Sessions!Go

\* A refused request is over.
LEMMA SessionRefuse ==
    ASSUME SessionInv, NEW b \in Browser, NEW held, SignedIn(held), Sessions!Refuse(b, held)
    PROVE  SessionInv'
<1>1. SessionCookies'
  BY CookiesSet DEF Sessions!Refuse
<1> QED
  BY <1>1, SessionStep, NoRequestIsOne DEF Sessions!Refuse

\* A request begins with the accounts suspended at that moment barred.
LEMMA SessionRequireAuth ==
    ASSUME SessionInv, NEW b \in Browser, Sessions!RequireAuth(b) PROVE SessionInv'
<1> DEFINE mine == [Sessions!NoRequest EXCEPT !.user = cookies[b].session.user, !.cookie = cookies[b].active]
<1>1. IsRequest(mine)
  BY DEF IsRequest, Sessions!NoRequest, RequestFields
<1>2. /\ req' = [req EXCEPT ![b] = mine] /\ Sessions!Goto(b, "role") /\ UNCHANGED suspended
      /\ barred' = [barred EXCEPT ![b] = suspended] /\ UNCHANGED cookies
  BY DEF Sessions!RequireAuth, Sessions!Go
<1>3. SessionCookies'
  BY <1>2 DEF SessionInv, SessionCookies, SignedIn
<1>4. mine.user = cookies[b].session.user /\ RoleOf[cookies[b].session.user] = "none"
  BY DEF Sessions!RequireAuth, Sessions!VerifySessionToken, SessionInv, SessionCookies,
         SignedIn, Sessions!NoRequest
<1> HIDE DEF mine
<1> QED
  BY <1>1, <1>2, <1>3, <1>4, SessionStep

\* The active restaurant is one of the memberships read, whatever the cookie says,
\* and those are of accounts that are not suspended.
LEMMA SessionMemberships ==
    ASSUME SessionInv, NEW b \in Browser, Sessions!ReadMemberships(b) PROVE SessionInv'
<1> DEFINE mine == Sessions!ActiveRestaurants(req[b].user)
<1>1. IsRequest(req[b]) /\ RoleOf[req[b].user] = "none"
  BY DEF Sessions!ReadMemberships, Sessions!At, SessionInv, SessionTypes, Serving,
         CustomerOnly
<1>2. ASSUME NEW r \in Sessions!GetActiveRestaurantID(req[b].cookie, mine),
             Sessions!Go(b, [req[b] EXCEPT !.restaurant = r], "act"), UNCHANGED barred
      PROVE  SessionInv'
  <2> DEFINE served == [req[b] EXCEPT !.restaurant = r]
  <2>1. r \in MemberOf[req[b].user] /\ AccountOf[r] \notin suspended
    BY DEF Sessions!GetActiveRestaurantID, Sessions!ActiveRestaurants
  <2>2. IsRequest(served) /\ served.restaurant = r /\ served.user = req[b].user
    BY <1>1 DEF IsRequest, RequestFields
  <2> HIDE DEF served
  <2>3. Sessions!Go(b, served, "act")
    BY <1>2 DEF served
  <2> QED
    BY <1>1, <1>2, <2>1, <2>2, <2>3, SessionGo
<1> QED
  BY <1>2, SessionRefuse, CookiesHeld DEF Sessions!ReadMemberships

\* The platform's staff never gets to act as a customer.
LEMMA SessionPlatform ==
    ASSUME SessionInv, NEW b \in Browser,
           Sessions!RequirePlatformAuth(b) \/ Sessions!ReadPlatformRole(b)
    PROVE  SessionInv'
<1> DEFINE mine == [Sessions!NoRequest EXCEPT !.user = cookies[b].platform.user]
           agent == [req[b] EXCEPT !.role = RoleOf[req[b].user]]
<1>1. IsRequest(mine) /\ IsRequest(agent)
  <2>1. IsRequest(req[b])
    BY DEF SessionInv, SessionTypes
  <2> QED
    BY <2>1 DEF IsRequest, Sessions!NoRequest, RequestFields
<1>2. \/ Sessions!Go(b, mine, "platform role") /\ UNCHANGED barred
      \/ Sessions!Go(b, agent, "platform") /\ UNCHANGED barred
      \/ Sessions!Refuse(b, [cookies[b] EXCEPT !.platform = Nobody])
  BY DEF Sessions!RequirePlatformAuth, Sessions!ReadPlatformRole
<1> QED
  BY <1>1, <1>2, SessionGo, SessionRefuse, CookiesHeld

\* The other statements of a request.
LEMMA SessionRequest ==
    ASSUME SessionInv, NEW b \in Browser,
           \/ Sessions!ReadRole(b) \/ Sessions!Act(b) \/ Sessions!PlatformAct(b)
           \/ \E r \in Restaurant : Sessions!SwitchRestaurant(b, r)
           \/ \E a \in Account : Sessions!UpdateAccountStatus(b, a)
    PROVE  SessionInv'
<1>1. IsRequest(req[b]) /\ IsRequest(Sessions!NoRequest)
  BY NoRequestIsOne DEF SessionInv, SessionTypes
<1>2. ASSUME Sessions!ReadRole(b) PROVE SessionInv'
  <2>1. RoleOf[req[b].user] = "none"
    BY <1>2 DEF Sessions!ReadRole, Sessions!At, SessionInv, Serving, CustomerOnly
  <2> QED
    BY <1>1, <1>2, <2>1, SessionGo, SessionRefuse, CookiesHeld DEF Sessions!ReadRole
<1>3. CASE Sessions!Go(b, Sessions!NoRequest, "idle") /\ UNCHANGED barred
  BY <1>1, <1>3, SessionGo
<1> QED
  BY <1>2, <1>3, SessionRefuse, CookiesHeld
     DEF Sessions!Act, Sessions!PlatformAct, Sessions!SwitchRestaurant,
         Sessions!UpdateAccountStatus

\* Suspensions, and what happens between requests.
LEMMA SessionRest ==
    ASSUME SessionInv, SessionCookies',
           \/ \E a \in Account : Sessions!Suspend(a) \/ Sessions!Reinstate(a)
           \/ UNCHANGED <<suspended, accessPc, req, barred>>
    PROVE  SessionInv'
<1>1. ASSUME NEW a \in Account, Sessions!Reinstate(a) PROVE SessionInv'
  <2>1. UNCHANGED <<accessPc, req>> /\ suspended' = suspended \ {a}
        /\ barred' = [b \in Browser |-> barred[b] \ {a}]
    BY <1>1 DEF Sessions!Reinstate
  <2>2. SessionTypes'
    BY <2>1 DEF SessionInv, SessionTypes, IsRequest
  <2>3. ASSUME NEW b \in Browser PROVE Serving(b)'
    BY <2>1 DEF SessionInv, Serving, Barring, CustomerOnly, Acting
  <2> QED
    BY <2>2, <2>3 DEF SessionInv
<1>2. ASSUME UNCHANGED <<accessPc, req, barred>>, suspended \subseteq suspended'
      PROVE  SessionInv'
  BY <1>2 DEF SessionInv, SessionTypes, IsRequest, Serving, Barring, CustomerOnly, Acting
<1> QED
  BY <1>1, <1>2 DEF Sessions!Suspend

\* Signing in and out gives a browser the cookies of a customer, or leaves it those.
LEMMA SessionSigning ==
    ASSUME SessionInv, NEW b \in Browser,
           \/ \E u \in User : Sessions!HandleLogin(b, u) \/ Sessions!HandlePlatformLogin(b, u)
           \/ Sessions!HandleLogout(b) \/ Sessions!HandlePlatformLogout(b)
    PROVE  SessionInv'
<1>1. ASSUME NEW held, SignedIn(held), Sessions!Holding(b, held) PROVE SessionInv'
  BY <1>1, CookiesSet, SessionRest DEF Sessions!Holding
<1>2. ASSUME NEW u \in User, Sessions!HandleLogin(b, u) PROVE SessionInv'
  <2>1. Sessions!GenerateSessionToken(u).user = u
    BY DEF Sessions!GenerateSessionToken
  <2> QED
    BY <1>1, <1>2, <2>1, CookiesHeld DEF Sessions!HandleLogin
<1> QED
  BY <1>1, <1>2, CookiesHeld
     DEF Sessions!HandlePlatformLogin, Sessions!HandleLogout, Sessions!HandlePlatformLogout

\* Every step keeps the invariant.
LEMMA SessionNext == SessionInv /\ [Sessions!Next]_(Sessions!vars) => SessionInv'
<1> SUFFICES ASSUME SessionInv, [Sessions!Next]_(Sessions!vars) PROVE SessionInv'
  OBVIOUS
<1>1. ASSUME UNCHANGED cookies PROVE SessionCookies'
  BY <1>1 DEF SessionInv, SessionCookies, SignedIn
<1>2. ASSUME \/ UNCHANGED Sessions!vars \/ Sessions!Tick
             \/ \E a \in Account : Sessions!Suspend(a) \/ Sessions!Reinstate(a)
      PROVE  SessionInv'
  <2>1. UNCHANGED cookies
    BY <1>2 DEF Sessions!vars, Sessions!Tick, Sessions!Suspend, Sessions!Reinstate
  <2> QED
    BY <1>1, <1>2, <2>1, SessionRest DEF Sessions!vars, Sessions!Tick
<1> QED
  BY <1>2, SessionSigning, SessionRequireAuth, SessionMemberships, SessionPlatform,
     SessionRequest
     DEF Sessions!Next

\* What the invariant is for.
LEMMA SessionSafe == SessionInv => Sessions!BarredNeverActs /\ Sessions!ActsAsMember
  BY DEF SessionInv, Serving, CustomerOnly, Acting, Sessions!BarredNeverActs,
         Sessions!ActsAsMember, Sessions!At

-----------------------------------------------------------------------------
(* The copy of a menu                                                      *)

IsCopy(m) == m = [f \in {"categories", "items"} |-> m[f]]

\* Dishes there were once; they keep their categories.
Known == menu \cup withdrawn

MenuTypes ==
    /\ categoryOf = [i \in Dish |-> categoryOf[i]]
    /\ Known \subseteq Dish
    /\ \A m \in moments : m = <<m[1], m[2]>>

\* What the next statement reads goes with what the last one read.
Copying ==
    /\ IsCopy(copy)
    /\ menuPc # "idle" => <<categories, menu>> \in moments
    /\ menuPc = "items" => <<copy.categories, menu>> \in moments
    /\ menuPc = "commit" => Menus!Fresh(copy) /\ \A entry \in copy.items : entry.item \in Known

MenuInv == MenuTypes /\ Copying

\* The new restaurant, which the next state has, was copied in these moments.
Created == created' = created \/ Menus!Fresh(created')

\* The variables of a request that has read nothing.
LEMMA NoCopyIsOne == IsCopy(Menus!NoCopy)
  BY DEF Menus!NoCopy, IsCopy

\* The invariant holds before the first category.
LEMMA MenuInit == Menus!Init => MenuInv
  BY NoCopyIsOne DEF Menus!Init, MenuInv, MenuTypes, Known, Copying

\* Edits keep the moments of a request, and add those that a copy may take from now
\* on; a dish has the category it got when it was added.
LEMMA MenuEdit ==
    ASSUME MenuInv, Menus!Edited, Known \subseteq Known', Known' \subseteq Dish,
           categoryOf' = [i \in Dish |-> categoryOf'[i]],
           \A i \in Known : categoryOf'[i] = categoryOf[i]
    PROVE  MenuInv' /\ Created
<1>1. /\ UNCHANGED <<created, menuPc, copy>>
      /\ moments' = IF menuPc = "idle" THEN moments
                    ELSE moments \cup {<<categories', menu'>>}
                                 \cup {<<m[1], menu'>> : m \in moments}
  BY DEF Menus!Edited
<1>2. MenuTypes'
  BY <1>1 DEF MenuInv, MenuTypes
<1>3. moments \subseteq moments'
  BY <1>1
<1>4. menuPc # "idle" => <<categories', menu'>> \in moments'
  BY <1>1
<1>5. menuPc = "items" => <<copy.categories, menu'>> \in moments'
  <2>1. SUFFICES ASSUME menuPc = "items" PROVE <<copy.categories, menu'>> \in moments'
    OBVIOUS
  <2>2. PICK m \in moments : m = <<copy.categories, menu>>
    BY <2>1 DEF MenuInv, Copying
  <2>3. m[1] = copy.categories
    BY <2>2
  <2> QED
    BY <1>1, <2>1, <2>3
<1>6. ASSUME menuPc = "commit"
      PROVE  Menus!Fresh(copy)' /\ \A entry \in copy.items : entry.item \in Known'
  <2>1. Menus!Fresh(copy) /\ \A entry \in copy.items : entry.item \in Known
    BY <1>6 DEF MenuInv, Copying
  <2>2. \A entry \in copy.items : categoryOf'[entry.item] = categoryOf[entry.item]
    BY <2>1
  <2> QED
    BY <1>1, <1>3, <2>1, <2>2 DEF Menus!Fresh
<1>7. Copying'
  BY <1>1, <1>4, <1>5, <1>6 DEF MenuInv, Copying, IsCopy
<1> QED
  BY <1>1, <1>2, <1>7 DEF MenuInv, Created

\* Every edit is one of those.
LEMMA MenuEdits ==
    ASSUME MenuInv,
           \/ \E g \in Category : Menus!AddCategory(g) \/ Menus!DeleteCategory(g)
           \/ \E i \in Dish : \/ Menus!DeleteMenuItem(i)
                              \/ \E g \in Category \cup {Nobody} : Menus!AddMenuItem(i, g)
    PROVE  MenuInv' /\ Created
<1>1. Known \subseteq Dish /\ categoryOf = [i \in Dish |-> categoryOf[i]]
  BY DEF MenuInv, MenuTypes
<1>2. ASSUME UNCHANGED categoryOf, Known' = Known, Menus!Edited PROVE MenuInv' /\ Created
  BY <1>1, <1>2, MenuEdit
<1>3. ASSUME NEW i \in Dish, NEW g, Menus!AddMenuItem(i, g) PROVE MenuInv' /\ Created
  <2>1. /\ Menus!Edited /\ menu' = menu \cup {i} /\ i \notin Known /\ UNCHANGED withdrawn
        /\ categoryOf' = [categoryOf EXCEPT ![i] = g]
    BY <1>3 DEF Menus!AddMenuItem, Known
  <2>2. /\ categoryOf' = [j \in Dish |-> categoryOf'[j]]
        /\ \A j \in Known : categoryOf'[j] = categoryOf[j]
    BY <1>1, <2>1
  <2>3. Known \subseteq Known' /\ Known' \subseteq Dish
    BY <1>1, <2>1 DEF Known
  <2> QED
    BY <2>1, <2>2, <2>3, MenuEdit
<1>4. ASSUME NEW i \in Dish, Menus!DeleteMenuItem(i) PROVE MenuInv' /\ Created
  <2>1. Known' = Known /\ UNCHANGED categoryOf /\ Menus!Edited
    BY <1>4 DEF Menus!DeleteMenuItem, Known
  <2> QED
    BY <1>2, <2>1
<1>5. ASSUME NEW g \in Category, Menus!AddCategory(g) \/ Menus!DeleteCategory(g)
      PROVE  MenuInv' /\ Created
  BY <1>2, <1>5 DEF Menus!AddCategory, Menus!DeleteCategory, Known
<1> QED
  BY <1>3, <1>4, <1>5

\* A statement of the copy.
LEMMA MenuStep ==
    ASSUME MenuInv, NEW mine, NEW statement, Menus!Proceed(mine, statement), IsCopy(mine),
           menuPc = "idle" => statement \in {"idle", "categories"},
           statement = "items" => mine.categories = categories,
           statement = "commit" =>
               Menus!Fresh(mine) /\ \A entry \in mine.items : entry.item \in Known
    PROVE  MenuInv'
<1>1. /\ copy' = mine /\ menuPc' = statement
      /\ UNCHANGED <<categories, retired, menu, withdrawn, categoryOf>>
      /\ moments' = CASE statement = "idle" -> {}
                      [] menuPc = "idle" -> {<<categories, menu>>}
                      [] OTHER -> moments
  BY DEF Menus!Proceed, Menus!source
<1>2. Known' = Known
  BY <1>1 DEF Known
<1>3. MenuTypes'
  <2>1. \A m \in moments' : m = <<m[1], m[2]>>
    BY <1>1 DEF MenuInv, MenuTypes
  <2> QED
    BY <1>1, <1>2, <2>1 DEF MenuInv, MenuTypes
<1>4. statement # "idle" => <<categories, menu>> \in moments'
  BY <1>1 DEF MenuInv, Copying
<1>5. statement = "commit" => moments' = moments
  BY <1>1
<1>6. statement = "commit" => Menus!Fresh(copy)'
  BY <1>1, <1>5 DEF Menus!Fresh
<1>7. Copying'
  BY <1>1, <1>2, <1>4, <1>6 DEF Copying
<1> QED
  BY <1>3, <1>7 DEF MenuInv

\* The items are read by one statement, and copied only if the categories read
\* before have all of theirs.
LEMMA MenuCopies ==
    ASSUME MenuInv,
           Menus!CreateRestaurant \/ Menus!CopyCategories \/ Menus!CopyItems \/ Menus!Commit \/ Menus!Abort
    PROVE  MenuInv' /\ Created
<1>1. IsCopy(Menus!NoCopy) /\ IsCopy(copy)
  BY NoCopyIsOne DEF MenuInv, Copying
<1>2. ASSUME Menus!Rollback PROVE MenuInv' /\ Created
  BY <1>1, <1>2, MenuStep DEF Menus!Rollback, Created
<1>3. ASSUME Menus!CreateRestaurant PROVE MenuInv' /\ Created
  BY <1>1, <1>3, MenuStep DEF Menus!CreateRestaurant, Created
<1>4. ASSUME Menus!CopyCategories PROVE MenuInv' /\ Created
  <2> DEFINE mine == [copy EXCEPT !.categories = categories]
  <2>1. IsCopy(mine) /\ mine.categories = categories
    BY <1>1 DEF IsCopy
  <2> HIDE DEF mine
  <2>2. Menus!Proceed(mine, "items") /\ UNCHANGED created /\ menuPc = "categories"
    BY <1>4 DEF Menus!CopyCategories, mine
  <2> QED
    BY <2>1, <2>2, MenuStep DEF Created
<1>5. ASSUME Menus!CopyItems, ~Menus!Rollback PROVE MenuInv' /\ Created
  <2> DEFINE entries == {[item |-> i, category |-> categoryOf[i]] : i \in menu}
             mine == [copy EXCEPT !.items = entries]
  <2>1. IsCopy(mine) /\ mine.categories = copy.categories /\ mine.items = entries
    BY <1>1 DEF IsCopy
  <2>2. /\ menuPc = "items" /\ \A i \in menu : Menus!CategoryKept(i)
        /\ Menus!Proceed(mine, "commit") /\ UNCHANGED created
    BY <1>5 DEF Menus!CopyItems
  <2>3. {entry.item : entry \in entries} = menu
    <3>1. \A entry \in entries : entry.item \in menu
      OBVIOUS
    <3>2. ASSUME NEW i \in menu PROVE \E entry \in entries : entry.item = i
      <4>1. [item |-> i, category |-> categoryOf[i]] \in entries
        OBVIOUS
      <4>2. [item |-> i, category |-> categoryOf[i]].item = i
        OBVIOUS
      <4> QED
        BY <4>1, <4>2
    <3> HIDE DEF entries
    <3> QED
      BY <3>1, <3>2
  <2>4. \A entry \in entries :
           /\ entry.category = categoryOf[entry.item]
           /\ entry.category \in copy.categories \cup {Nobody}
           /\ entry.item \in menu
    BY <2>2 DEF Menus!CategoryKept
  <2>5. <<copy.categories, menu>> \in moments
    BY <2>2 DEF MenuInv, Copying
  <2> HIDE DEF entries, mine
  <2>6. Menus!Fresh(mine)
    BY <2>1, <2>3, <2>4, <2>5 DEF Menus!Fresh
  <2>7. \A entry \in mine.items : entry.item \in Known
    BY <2>1, <2>4 DEF Known
  <2> QED
    BY <2>1, <2>2, <2>6, <2>7, MenuStep DEF Created
<1>6. ASSUME Menus!Commit PROVE MenuInv' /\ Created
  <2>1. Menus!Fresh(copy) /\ created' = copy /\ Menus!Proceed(Menus!NoCopy, "idle")
    BY <1>6 DEF Menus!Commit, MenuInv, Copying
  <2> QED
    BY <1>1, <2>1, MenuStep DEF Created, Menus!Fresh
<1> QED
  BY <1>2, <1>3, <1>4, <1>5, <1>6 DEF Menus!Abort

\* Every step keeps the invariant, and creates what was copied.
LEMMA MenuNext == MenuInv /\ [Menus!Next]_(Menus!vars) => MenuInv' /\ Created
<1> SUFFICES ASSUME MenuInv, [Menus!Next]_(Menus!vars) PROVE MenuInv' /\ Created
  OBVIOUS
<1>1. CASE UNCHANGED Menus!vars
  BY <1>1 DEF Menus!vars, Menus!source, MenuInv, MenuTypes, Known, Copying, IsCopy,
              Menus!Fresh, Created
<1> QED
  BY <1>1, MenuEdits, MenuCopies DEF Menus!Next

-----------------------------------------------------------------------------
(* The roster                                                              *)

RosterFields == {"op", "order", "member", "wasOpen", "wasActive"}
IsRosterTx(t) == t = [f \in RosterFields |-> t[f]]

RosterTypes ==
    /\ assigned = [o \in Order |-> assigned[o]]
    /\ staff = [s \in Staff |-> staff[s]]
    /\ rosterPc = [c \in Client |-> rosterPc[c]]
    /\ rosterTx = [c \in Client |-> rosterTx[c]]
    /\ \A c \in Client : IsRosterTx(rosterTx[c]) /\ rosterTx[c].member \in Staff \cup {Nobody}

\* What is open or active now has been so during every request under way.
Remembering(c) ==
    rosterPc[c] # "idle" =>
        open \subseteq rosterTx[c].wasOpen /\ Roster!Active \subseteq rosterTx[c].wasActive

Choosing(c) ==
    /\ rosterPc[c] \in {"status", "member", "assign"} => rosterTx[c].op = "assign"
    /\ rosterPc[c] = "close" => rosterTx[c].op = "close"
    /\ rosterPc[c] \in {"member", "assign", "commit"} /\ rosterTx[c].op = "assign" =>
         rosterTx[c].order \in rosterTx[c].wasOpen
    /\ rosterPc[c] \in {"assign", "commit"} /\ rosterTx[c].op = "assign" =>
         rosterTx[c].member \in rosterTx[c].wasActive \cup {Nobody}

RosterInv ==
    /\ RosterTypes
    /\ \A c \in Client : Remembering(c) /\ Choosing(c)

\* A resting connection has a request of the right shape.
LEMMA RosterRest == IsRosterTx(Roster!NoTx) /\ Roster!NoTx.member = Nobody
<1>1. ASSUME NEW o
      PROVE  LET t == [op |-> "none", order |-> o, member |-> Nobody,
                       wasOpen |-> {}, wasActive |-> {}]
             IN  IsRosterTx(t) /\ t.member = Nobody
  BY DEF IsRosterTx, RosterFields
<1> QED
  BY <1>1 DEF Roster!NoTx

\* The invariant holds before the first request.
LEMMA RosterInit == Roster!Init => RosterInv
<1> SUFFICES ASSUME Roster!Init PROVE RosterInv
  OBVIOUS
<1>1. RosterTypes
  <2>1. \A c \in Client : rosterTx[c] = Roster!NoTx
    BY DEF Roster!Init
  <2>2. \A c \in Client : IsRosterTx(rosterTx[c]) /\ rosterTx[c].member \in Staff \cup {Nobody}
    BY <2>1, RosterRest
  <2>3. assigned = [o \in Order |-> assigned[o]] /\ staff = [s \in Staff |-> staff[s]]
    BY DEF Roster!Init
  <2>4. rosterPc = [c \in Client |-> rosterPc[c]] /\ rosterTx = [c \in Client |-> rosterTx[c]]
    BY DEF Roster!Init
  <2> QED
    BY <2>2, <2>3, <2>4 DEF RosterTypes
<1>2. \A c \in Client : rosterPc[c] = "idle"
  BY DEF Roster!Init
<1> QED
  BY <1>1, <1>2 DEF RosterInv, Remembering, Choosing

\* A step of one request, which leaves the staff alone and opens no order.
LEMMA RosterStep ==
    ASSUME RosterInv, NEW c \in Client, NEW mine, NEW next,
           IsRosterTx(mine), mine.member \in Staff \cup {Nobody},
           rosterTx' = [rosterTx EXCEPT ![c] = mine], Roster!Goto(c, next),
           open' \subseteq open, UNCHANGED staff, assigned' = [o \in Order |-> assigned'[o]],
           next # "idle" => open \subseteq mine.wasOpen /\ Roster!Active \subseteq mine.wasActive,
           Choosing(c)'
    PROVE  RosterInv'
<1>1. /\ rosterTx'[c] = mine /\ rosterPc'[c] = next
      /\ \A d \in Client \ {c} : rosterTx'[d] = rosterTx[d] /\ rosterPc'[d] = rosterPc[d]
      /\ Roster!Active' = Roster!Active
  BY DEF Roster!Goto, RosterInv, RosterTypes, Roster!Active
<1>2. RosterTypes'
  <2>1. staff' = [s \in Staff |-> staff'[s]] /\ rosterPc' = [d \in Client |-> rosterPc'[d]]
    BY DEF Roster!Goto, RosterInv, RosterTypes
  <2>2. rosterTx' = [d \in Client |-> rosterTx'[d]]
    BY DEF RosterInv, RosterTypes
  <2>3. \A d \in Client : IsRosterTx(rosterTx'[d]) /\ rosterTx'[d].member \in Staff \cup {Nobody}
    BY <1>1 DEF RosterInv, RosterTypes
  <2> QED
    BY <2>1, <2>2, <2>3 DEF RosterTypes, IsRosterTx
<1>3. ASSUME NEW d \in Client \ {c} PROVE Remembering(d)' /\ Choosing(d)'
  BY <1>1 DEF RosterInv, Remembering, Choosing
<1>4. Remembering(c)'
  BY <1>1 DEF Remembering
<1> QED
  BY <1>2, <1>3, <1>4 DEF RosterInv

\* A request that is over remembers nothing.
LEMMA RosterRollback ==
    ASSUME RosterInv, NEW c \in Client, Roster!End(c), open' \subseteq open, UNCHANGED staff,
           assigned' = [o \in Order |-> assigned'[o]]
    PROVE  RosterInv'
<1>1. rosterTx' = [rosterTx EXCEPT ![c] = Roster!NoTx] /\ Roster!Goto(c, "idle")
  BY DEF Roster!End
<1>2. rosterPc'[c] = "idle"
  BY <1>1 DEF Roster!Goto, RosterInv, RosterTypes
<1>3. Choosing(c)'
  BY <1>2 DEF Choosing
<1> QED
  BY <1>1, <1>3, RosterRest, RosterStep

\* A statement that only reads or locks.
LEMMA RosterRead ==
    ASSUME RosterInv, NEW c \in Client, NEW next, Roster!Goto(c, next),
           UNCHANGED <<Roster!rows, rosterTx>>,
           rosterPc[c] # "idle", Choosing(c)'
    PROVE  RosterInv'
<1>1. /\ rosterTx' = [rosterTx EXCEPT ![c] = rosterTx[c]] /\ IsRosterTx(rosterTx[c])
      /\ rosterTx[c].member \in Staff \cup {Nobody}
      /\ UNCHANGED <<open, staff>> /\ assigned' = [o \in Order |-> assigned'[o]]
      /\ open \subseteq rosterTx[c].wasOpen /\ Roster!Active \subseteq rosterTx[c].wasActive
  BY DEF RosterInv, RosterTypes, Roster!rows, Remembering
<1> QED
  BY <1>1, RosterStep

\* A request begins with what is open and active now.
LEMMA RosterBegin ==
    ASSUME RosterInv, NEW c \in Client, NEW o \in Order,
           \/ \E s \in Staff \cup {Nobody} : Roster!SetOrderStaff(c, o, s)
           \/ Roster!CloseOrder(c, o)
    PROVE  RosterInv'
<1>1. ASSUME NEW s \in Staff \cup {Nobody}, NEW op, NEW first, Roster!Begin(c, op, o, s, first),
             \/ op = "assign" /\ first = "status"
             \/ op = "close" /\ first = "close"
      PROVE  RosterInv'
  <2> DEFINE mine == [op |-> op, order |-> o, member |-> s,
                      wasOpen |-> open, wasActive |-> Roster!Active]
  <2>1. /\ IsRosterTx(mine) /\ mine.member = s /\ mine.op = op
        /\ mine.wasOpen = open /\ mine.wasActive = Roster!Active
    BY DEF IsRosterTx, RosterFields
  <2> HIDE DEF mine
  <2>2. /\ rosterTx' = [rosterTx EXCEPT ![c] = mine]
        /\ Roster!Goto(c, first)
        /\ UNCHANGED <<open, assigned, staff>>
    BY <1>1 DEF Roster!Begin, Roster!rows, mine
  <2>3. /\ rosterTx'[c] = mine
        /\ rosterPc'[c] = first
        /\ assigned' = [q \in Order |-> assigned'[q]]
    BY <2>2 DEF Roster!Goto, RosterInv, RosterTypes
  <2>4. Choosing(c)'
    BY <1>1, <2>1, <2>3 DEF Choosing
  <2> QED
    BY <2>1, <2>2, <2>3, <2>4, RosterStep
<1> QED
  BY <1>1 DEF Roster!SetOrderStaff, Roster!CloseOrder

\* Each check makes sure of one of the two, and no later statement loses it.
LEMMA RosterStatements ==
    ASSUME RosterInv, NEW c \in Client,
           \/ Roster!CheckStatus(c) \/ Roster!CheckMember(c) \/ Roster!Assign(c)
           \/ Roster!CloseLocked(c) \/ Roster!Abort(c)
    PROVE  RosterInv'
<1>1. ASSUME NEW next, Roster!Goto(c, next), UNCHANGED <<Roster!rows, rosterTx>>,
             rosterPc[c] # "idle",
             \/ rosterPc[c] = "status" /\ next = "member" /\ rosterTx[c].order \in open
             \/ /\ rosterPc[c] = "status" /\ next = "assign" /\ rosterTx[c].order \in open
                /\ rosterTx[c].member = Nobody
             \/ rosterPc[c] = "member" /\ next = "assign" /\ staff[rosterTx[c].member] = "active"
             \/ rosterPc[c] = "assign" /\ next = "commit"
             \/ rosterPc[c] = "close" /\ next = "commit"
      PROVE  RosterInv'
  <2>1. rosterPc'[c] = next /\ rosterTx'[c] = rosterTx[c]
    BY <1>1 DEF Roster!Goto, RosterInv, RosterTypes
  <2>2. /\ Remembering(c) /\ Choosing(c) /\ rosterTx[c].member \in Staff \cup {Nobody}
    BY DEF RosterInv, RosterTypes
  <2>3. Choosing(c)'
    BY <1>1, <2>1, <2>2 DEF Choosing, Remembering, Roster!Active
  <2> QED
    BY <1>1, <2>3, RosterRead
<1>2. ASSUME Roster!Rollback(c) PROVE RosterInv'
  <2>1. Roster!End(c) /\ UNCHANGED <<open, staff>> /\ assigned' = [o \in Order |-> assigned'[o]]
    BY <1>2 DEF Roster!Rollback, Roster!rows, RosterInv, RosterTypes
  <2> QED
    BY <2>1, RosterRollback
<1>3. CASE Roster!CheckStatus(c)
  BY <1>1, <1>2, <1>3 DEF Roster!CheckStatus, Roster!At, Roster!Reads
<1>4. CASE Roster!CheckMember(c)
  BY <1>1, <1>2, <1>4 DEF Roster!CheckMember, Roster!At, Roster!Reads
<1>5. CASE Roster!Assign(c)
  BY <1>1, <1>5 DEF Roster!Assign, Roster!At, Roster!LockOrder
<1>6. CASE Roster!CloseLocked(c)
  BY <1>1, <1>2, <1>6 DEF Roster!CloseLocked, Roster!At, Roster!LockOrder
<1> QED
  BY <1>2, <1>3, <1>4, <1>5, <1>6 DEF Roster!Abort

\* Only the commit of a SetOrderStaff assigns anybody, its member to its order.
LEMMA RosterCommit ==
    ASSUME RosterInv, NEW c \in Client, Roster!Commit(c)
    PROVE  /\ RosterInv'
           /\ \A o \in Order : assigned'[o] # assigned[o] =>
                /\ rosterTx[c].order = o /\ o \in rosterTx[c].wasOpen
                /\ assigned'[o] \in rosterTx[c].wasActive \cup {Nobody}
<1>1. /\ rosterPc[c] = "commit" /\ Roster!End(c) /\ UNCHANGED staff
      /\ assigned = [o \in Order |-> assigned[o]] /\ Choosing(c)
  BY DEF Roster!Commit, Roster!At, RosterInv, RosterTypes
<1>2. \/ /\ rosterTx[c].op = "assign" /\ UNCHANGED open
         /\ assigned' = [assigned EXCEPT ![rosterTx[c].order] = rosterTx[c].member]
      \/ rosterTx[c].op = "close" /\ open' = open \ {rosterTx[c].order} /\ UNCHANGED assigned
  BY DEF Roster!Commit
<1>3. open' \subseteq open /\ assigned' = [o \in Order |-> assigned'[o]]
  BY <1>1, <1>2
<1>4. \A o \in Order : assigned'[o] # assigned[o] =>
        rosterTx[c].op = "assign" /\ rosterTx[c].order = o /\ assigned'[o] = rosterTx[c].member
  BY <1>1, <1>2
<1> QED
  BY <1>1, <1>3, <1>4, RosterRollback DEF Choosing

\* Who becomes active has been so during every request under way.
LEMMA RosterEdits ==
    ASSUME RosterInv, NEW s \in Staff,
           \/ Roster!AddRestaurantStaff(s)
           \/ \E status \in {"active", "inactive"} : Roster!UpdateRestaurantStaffStatus(s, status)
    PROVE  RosterInv'
<1>1. ASSUME NEW status, staff' = [staff EXCEPT ![s] = status],
             \/ rosterTx' = Roster!SeenActive(s)
             \/ status # "active" /\ UNCHANGED rosterTx,
             UNCHANGED <<open, assigned, rosterPc>>
      PROVE  RosterInv'
  <2>1. \/ Roster!Active' \subseteq Roster!Active \cup {s} /\ rosterTx' = Roster!SeenActive(s)
        \/ Roster!Active' \subseteq Roster!Active /\ UNCHANGED rosterTx
    BY <1>1 DEF Roster!Active, RosterInv, RosterTypes
  <2>2. ASSUME NEW c \in Client
        PROVE  LET t == [rosterTx[c] EXCEPT !.wasActive = @ \cup {s}]
               IN  /\ IsRosterTx(t) /\ t.member = rosterTx[c].member /\ t.op = rosterTx[c].op
                   /\ t.order = rosterTx[c].order /\ t.wasOpen = rosterTx[c].wasOpen
                   /\ t.wasActive = rosterTx[c].wasActive \cup {s}
    <3>1. IsRosterTx(rosterTx[c])
      BY DEF RosterInv, RosterTypes
    <3> QED
      BY <3>1 DEF IsRosterTx, RosterFields
  <2>3. ASSUME NEW c \in Client
        PROVE  /\ IsRosterTx(rosterTx'[c])
               /\ rosterTx'[c].member = rosterTx[c].member
               /\ rosterTx'[c].op = rosterTx[c].op
               /\ rosterTx'[c].order = rosterTx[c].order
               /\ rosterTx'[c].wasOpen = rosterTx[c].wasOpen
               /\ rosterTx[c].wasActive \subseteq rosterTx'[c].wasActive
               /\ rosterPc[c] # "idle" =>
                      Roster!Active' \subseteq Roster!Active \cup (rosterTx'[c].wasActive)
    <3>1. IsRosterTx(rosterTx[c])
      BY DEF RosterInv, RosterTypes
    <3>2. CASE UNCHANGED rosterTx /\ Roster!Active' \subseteq Roster!Active
      BY <3>1, <3>2
    <3>3. CASE rosterTx' = Roster!SeenActive(s) /\ Roster!Active' \subseteq Roster!Active \cup {s}
      <4>1. CASE rosterPc[c] = "idle"
        BY <3>1, <3>3, <4>1 DEF Roster!SeenActive, Roster!At
      <4>2. CASE rosterPc[c] # "idle"
        <5> DEFINE t == [rosterTx[c] EXCEPT !.wasActive = @ \cup {s}]
        <5>1. rosterTx'[c] = t
          BY <3>3, <4>2 DEF Roster!SeenActive, Roster!At
        <5>2. /\ IsRosterTx(t) /\ t.member = rosterTx[c].member /\ t.op = rosterTx[c].op
              /\ t.order = rosterTx[c].order /\ t.wasOpen = rosterTx[c].wasOpen
              /\ t.wasActive = rosterTx[c].wasActive \cup {s}
          BY <2>2
        <5> HIDE DEF t
        <5> QED
          BY <3>3, <5>1, <5>2
      <4> QED
        BY <4>1, <4>2
    <3> QED
      BY <2>1, <3>2, <3>3
  <2>4. RosterTypes'
    <3>1. staff' = [q \in Staff |-> staff'[q]]
      BY <1>1 DEF RosterInv, RosterTypes
    <3>2. rosterTx' = [c \in Client |-> rosterTx'[c]]
      BY <2>1 DEF RosterInv, RosterTypes, Roster!SeenActive
    <3>3. /\ assigned' = [o \in Order |-> assigned'[o]]
          /\ rosterPc' = [c \in Client |-> rosterPc'[c]]
      BY <1>1 DEF RosterInv, RosterTypes
    <3>4. \A c \in Client : IsRosterTx(rosterTx'[c]) /\ rosterTx'[c].member \in Staff \cup {Nobody}
      BY <2>3 DEF RosterInv, RosterTypes
    <3> QED
      BY <3>1, <3>2, <3>3, <3>4 DEF RosterTypes, IsRosterTx
  <2>5. ASSUME NEW c \in Client PROVE Remembering(c)' /\ Choosing(c)'
    <3>1. Remembering(c) /\ Choosing(c) /\ UNCHANGED <<open, rosterPc>>
      BY <1>1 DEF RosterInv
    <3>2. Remembering(c)'
      BY <2>3, <3>1 DEF Remembering
    <3>3. Choosing(c)'
      BY <2>3, <3>1 DEF Choosing
    <3> QED
      BY <3>2, <3>3
  <2> QED
    BY <2>4, <2>5 DEF RosterInv
<1> QED
  BY <1>1 DEF Roster!AddRestaurantStaff, Roster!UpdateRestaurantStaffStatus

RosterChange(c) ==
    \A o \in Order : assigned'[o] # assigned[o] =>
        /\ rosterPc[c] = "commit" /\ rosterPc'[c] = "idle"
        /\ rosterTx[c].order = o /\ o \in rosterTx[c].wasOpen
        /\ assigned'[o] \in rosterTx[c].wasActive \cup {Nobody}

\* Every step keeps the invariant, and assigns as the code promises.
LEMMA RosterNext ==
    RosterInv /\ [Roster!Next]_(Roster!vars) =>
        /\ RosterInv'
        /\ \/ UNCHANGED assigned
           \/ \E c \in Client : RosterChange(c)
<1> SUFFICES ASSUME RosterInv, [Roster!Next]_(Roster!vars)
             PROVE  RosterInv' /\ (UNCHANGED assigned \/ \E c \in Client : RosterChange(c))
  OBVIOUS
<1>1. CASE UNCHANGED Roster!vars
  BY <1>1 DEF Roster!vars, Roster!rows, RosterInv, RosterTypes, IsRosterTx, Remembering,
              Choosing, Roster!Active
<1>2. ASSUME NEW c \in Client,
             \/ Roster!CheckStatus(c) \/ Roster!CheckMember(c) \/ Roster!Assign(c)
             \/ Roster!CloseLocked(c) \/ Roster!Abort(c)
      PROVE  UNCHANGED assigned
  BY <1>2 DEF Roster!CheckStatus, Roster!CheckMember, Roster!Assign, Roster!CloseLocked,
              Roster!Abort, Roster!Reads, Roster!LockOrder, Roster!Rollback, Roster!rows
<1>3. ASSUME NEW c \in Client, NEW o \in Order,
             \/ \E s \in Staff \cup {Nobody} : Roster!SetOrderStaff(c, o, s)
             \/ Roster!CloseOrder(c, o)
      PROVE  UNCHANGED assigned
  BY <1>3 DEF Roster!SetOrderStaff, Roster!CloseOrder, Roster!Begin, Roster!rows
<1>4. ASSUME NEW s \in Staff,
             \/ Roster!AddRestaurantStaff(s)
             \/ \E status \in {"active", "inactive"} : Roster!UpdateRestaurantStaffStatus(s, status)
      PROVE  UNCHANGED assigned
  BY <1>4 DEF Roster!AddRestaurantStaff, Roster!UpdateRestaurantStaffStatus
<1>5. ASSUME NEW c \in Client, Roster!Commit(c) PROVE RosterInv' /\ RosterChange(c)
  <2>1. rosterPc[c] = "commit" /\ rosterPc'[c] = "idle"
    BY <1>5 DEF Roster!Commit, Roster!At, Roster!End, Roster!Goto, RosterInv, RosterTypes
  <2> QED
    BY <1>5, <2>1, RosterCommit DEF RosterChange
<1> QED
  BY <1>1, <1>2, <1>3, <1>4, <1>5, RosterBegin, RosterStatements, RosterEdits DEF Roster!Next

-----------------------------------------------------------------------------
(* Reports                                                                 *)

OrderRow == [status : {"open", "closed"}, closedAt : Nat, paidAt : Nat]
ClosingRow == [step : {"idle", "close", "commit"}, began : Nat, closedAt : Nat]
ReportRow == [kind : {"none", "screen", "export", "dashboard"}, from : Nat, to : Nat,
            found : [1 .. 5 -> SUBSET (Reported \cup Dish)], late : SUBSET Reported]

ReportTypes ==
    /\ clock \in Nat
    /\ orders \in [Reported -> OrderRow]
    /\ closing \in [Reported -> ClosingRow]
    /\ reportPc \in 0 .. 6
    /\ report \in ReportRow

\* An order is paid when its CloseOrder began, and closed once.
OrderTimes ==
    \A o \in Reported :
        /\ closing[o].step # "idle" => orders[o].status = "open" /\ closing[o].began <= clock
        /\ closing[o].step = "commit" => closing[o].began <= closing[o].closedAt
        /\ orders[o].status = "closed" => orders[o].paidAt <= orders[o].closedAt

\* What the revenue counts is still there, and what it misses was committed later.
RevenueFound ==
    1 < reportPc => /\ report.found[1] \subseteq Report!ClosedInRange
                    /\ Report!ClosedInRange \subseteq report.found[1] \cup report.late

\* A query in between finds at least the revenue's orders, at most the late ones too.
DiscountsFound ==
    2 < reportPc => /\ report.found[1] \subseteq report.found[2]
                    /\ report.found[2] \subseteq report.found[1] \cup report.late

DishesFound ==
    3 < reportPc => /\ report.found[3] \subseteq Report!SoldIn(report.found[1] \cup report.late)
                    /\ \/ Report!SoldIn(report.found[1]) \subseteq report.found[3]
                       \/ Report!IsFull(report.found[3])

CategoriesFound ==
    4 < reportPc =>
        /\ Report!WithCategory(report.found[1]) \subseteq report.found[4]
        /\ report.found[4] \subseteq Report!WithCategory(report.found[1] \cup report.late)

PaymentsFound ==
    5 < reportPc => /\ report.found[5] \subseteq Report!PaidInRange
                    /\ \A o \in report.found[1] \ report.found[5] : orders[o].paidAt < report.from

Figures == DiscountsFound /\ DishesFound /\ CategoriesFound

ReportInv == ReportTypes /\ OrderTimes /\ RevenueFound /\ Figures /\ PaymentsFound

\* The queries, by name.
LEMMA Queries ==
    /\ Len(Report!Query) = 5
    /\ Report!Query[1] = "revenue" /\ Report!Query[2] = "discounts" /\ Report!Query[3] = "items"
    /\ Report!Query[4] = "categories" /\ Report!Query[5] = "payments"
  BY DEF Report!Query

\* More orders have more dishes, with and without a category.
LEMMA MoreSold ==
    ASSUME NEW S, NEW T, S \subseteq T
    PROVE  /\ Report!SoldIn(S) \subseteq Report!SoldIn(T)
           /\ Report!WithCategory(S) \subseteq Report!WithCategory(T)
  BY DEF Report!SoldIn, Report!WithCategory

\* What is listed was sold; whatever was sold is listed, if there is room.
LEMMA WhatIsListed ==
    ASSUME NEW listed \in Report!Listings
    PROVE  /\ listed \subseteq Report!SoldIn(Report!ClosedInRange)
           /\ \/ listed = Report!SoldIn(Report!ClosedInRange)
              \/ Report!IsFull(listed)
  BY DEF Report!Listings

\* Rows and reports that nobody has touched.
LEMMA ReportRest ==
    /\ Report!NotClosed \in OrderRow /\ Report!NotClosed.status = "open"
    /\ Report!NotClosing \in ClosingRow /\ Report!NotClosing.step = "idle"
    /\ Report!NoReport \in ReportRow
<1>1. Report!Nothing \in [1 .. 5 -> SUBSET (Reported \cup Dish)]
  BY Queries DEF Report!Nothing
<1> QED
  BY <1>1 DEF Report!NotClosed, OrderRow, Report!NotClosing, ClosingRow, Report!NoReport,
              ReportRow

\* The invariant holds before the first order is closed.
LEMMA ReportInit == Report!Init => ReportInv
<1> SUFFICES ASSUME Report!Init PROVE ReportInv
  OBVIOUS
<1>1. /\ clock = 0
      /\ orders = [o \in Reported |-> Report!NotClosed]
      /\ closing = [o \in Reported |-> Report!NotClosing]
      /\ reportPc = 0 /\ report = Report!NoReport
  BY DEF Report!Init
<1>2. ReportTypes
  BY <1>1, ReportRest DEF ReportTypes
<1>3. OrderTimes
  BY <1>1, ReportRest DEF OrderTimes
<1> QED
  BY <1>1, <1>2, <1>3 DEF ReportInv, RevenueFound, Figures, DiscountsFound, DishesFound,
                         CategoriesFound, PaymentsFound

\* A step that leaves the report and the closed orders as they were keeps the
\* invariant, if what it closes is late.
LEMMA ReportKept ==
    ASSUME ReportInv, ReportTypes', OrderTimes', UNCHANGED reportPc,
           NEW late, late \subseteq Reported,
           report' = [report EXCEPT !.late = late],
           report.late \subseteq late,
           \A o \in Reported : orders[o].status = "closed" => orders'[o] = orders[o],
           \A o \in Reported : orders'[o].status = "closed" =>
               orders[o].status = "closed" \/ reportPc = 0 \/ o \in late
    PROVE  ReportInv'
<1>1. /\ report'.from = report.from /\ report'.to = report.to /\ report'.found = report.found
      /\ report'.late = late /\ report'.kind = report.kind
  BY DEF ReportInv, ReportTypes, ReportRow
<1>2. /\ Report!ClosedInRange \subseteq Report!ClosedInRange'
      /\ Report!PaidInRange \subseteq Report!PaidInRange'
  BY <1>1 DEF Report!ClosedInRange, Report!PaidInRange, Report!InRange
<1>3. reportPc # 0 => Report!ClosedInRange' \subseteq Report!ClosedInRange \cup late
  BY <1>1 DEF Report!ClosedInRange, Report!InRange
<1>4. RevenueFound'
  BY <1>1, <1>2, <1>3 DEF ReportInv, ReportTypes, RevenueFound
<1>5. Figures'
  <2>1. report.found[1] \cup report.late \subseteq report.found[1] \cup late
    OBVIOUS
  <2>2. DiscountsFound'
    BY <1>1, <2>1 DEF ReportInv, Figures, DiscountsFound
  <2>3. /\ Report!SoldIn(report.found[1] \cup report.late) \subseteq Report!SoldIn(report.found[1] \cup late)
        /\ Report!WithCategory(report.found[1] \cup report.late)
             \subseteq Report!WithCategory(report.found[1] \cup late)
    BY <2>1 DEF Report!SoldIn, Report!WithCategory
  <2>4. DishesFound'
    BY <1>1, <2>3 DEF ReportInv, Figures, DishesFound, Report!IsFull
  <2>5. CategoriesFound'
    BY <1>1, <2>3 DEF ReportInv, Figures, CategoriesFound
  <2> QED
    BY <2>2, <2>4, <2>5 DEF Figures
<1>6. PaymentsFound'
  <2>1. SUFFICES ASSUME 5 < reportPc
                 PROVE  /\ report.found[5] \subseteq Report!PaidInRange'
                        /\ \A o \in report.found[1] \ report.found[5] : orders'[o].paidAt < report.from
    BY <1>1 DEF PaymentsFound
  <2>2. PaymentsFound /\ report.found[1] \subseteq Report!ClosedInRange
    BY <2>1 DEF ReportInv, ReportTypes, RevenueFound
  <2>3. \A o \in report.found[1] : orders'[o] = orders[o]
    BY <2>2 DEF Report!ClosedInRange
  <2> QED
    BY <1>2, <2>1, <2>2, <2>3 DEF PaymentsFound
<1> QED
  BY <1>4, <1>5, <1>6 DEF ReportInv

\* The steps of CloseOrder before its commit, and the clock.
LEMMA ReportClosing ==
    ASSUME ReportInv,
           \/ Report!Tick \/ Report!ChangeFeature
           \/ \E o \in Reported : Report!BeginClose(o) \/ Report!MarkClosed(o) \/ Report!AbortClose(o)
    PROVE  ReportInv'
<1>1. UNCHANGED <<orders, reportPc, report>> /\ clock' \in Nat /\ clock <= clock'
  <2>1. UNCHANGED <<orders, reportPc, report>> /\ (clock' = clock \/ clock' = clock + 1)
    BY DEF Report!Tick, Report!ChangeFeature, Report!BeginClose, Report!MarkClosed,
           Report!AbortClose
  <2>2. clock \in Nat
    BY DEF ReportInv, ReportTypes
  <2> QED
    BY <2>1, <2>2
<1>2. closing' \in [Reported -> ClosingRow] /\ OrderTimes'
  <2>1. CASE UNCHANGED closing
    <3>1. \A o \in Reported : closing[o].began \in Nat
      BY DEF ReportInv, ReportTypes, ClosingRow
    <3> QED
      BY <1>1, <2>1, <3>1 DEF ReportInv, ReportTypes, OrderTimes
  <2>2. ASSUME NEW o \in Reported, NEW mine \in ClosingRow,
               closing' = [closing EXCEPT ![o] = mine],
               \/ mine.step = "idle"
               \/ /\ mine.step # "idle" /\ orders[o].status = "open" /\ mine.began <= clock
                  /\ mine.step = "commit" => mine.began <= mine.closedAt
        PROVE  closing' \in [Reported -> ClosingRow] /\ OrderTimes'
    <3>1. /\ closing' \in [Reported -> ClosingRow] /\ closing'[o] = mine
          /\ \A q \in Reported \ {o} : closing'[q] = closing[q]
      BY <2>2 DEF ReportInv, ReportTypes
    <3>2. \A q \in Reported : closing[q].began \in Nat
      BY DEF ReportInv, ReportTypes, ClosingRow
    <3>3. clock \in Nat /\ mine.began \in Nat
      BY DEF ReportInv, ReportTypes, ClosingRow
    <3>4. OrderTimes'
      <4>1. ASSUME NEW q \in Reported \ {o}
            PROVE  /\ closing'[q].step # "idle" =>
                        orders'[q].status = "open" /\ closing'[q].began <= clock'
                   /\ closing'[q].step = "commit" => closing'[q].began <= closing'[q].closedAt
        BY <1>1, <3>1, <3>2, <3>3 DEF ReportInv, OrderTimes
      <4>2. /\ mine.step # "idle" => orders'[o].status = "open" /\ mine.began <= clock'
            /\ mine.step = "commit" => mine.began <= mine.closedAt
        BY <1>1, <2>2, <3>3
      <4>3. \A q \in Reported : orders'[q].status = "closed" => orders'[q].paidAt <= orders'[q].closedAt
        BY <1>1 DEF ReportInv, OrderTimes
      <4> QED
        BY <3>1, <4>1, <4>2, <4>3 DEF OrderTimes
    <3> QED
      BY <3>1, <3>4
  <2>3. ASSUME NEW o \in Reported, Report!BeginClose(o)
        PROVE  closing' \in [Reported -> ClosingRow] /\ OrderTimes'
    <3> DEFINE mine == [Report!NotClosing EXCEPT !.step = "close", !.began = clock]
    <3>1. mine \in ClosingRow /\ mine.step = "close" /\ mine.began = clock /\ clock <= clock
      <4>1. clock \in Nat
        BY DEF ReportInv, ReportTypes
      <4>2. Report!NotClosing = [step |-> "idle", began |-> 0, closedAt |-> 0]
        BY DEF Report!NotClosing
      <4>3. mine.step = "close" /\ mine.began = clock /\ mine.closedAt = 0
        BY <4>2
      <4>4. mine \in ClosingRow
        BY <4>1, <4>2 DEF ClosingRow
      <4> QED
        BY <4>1, <4>3, <4>4
    <3> HIDE DEF mine
    <3>2. closing' = [closing EXCEPT ![o] = mine] /\ orders[o].status = "open"
      BY <2>3 DEF Report!BeginClose, mine
    <3> QED
      BY <2>2, <3>1, <3>2
  <2>4. ASSUME NEW o \in Reported, Report!MarkClosed(o)
        PROVE  closing' \in [Reported -> ClosingRow] /\ OrderTimes'
    <3> DEFINE mine == [closing[o] EXCEPT !.step = "commit", !.closedAt = clock]
    <3>1. closing[o] \in ClosingRow /\ clock \in Nat /\ closing[o].step = "close"
      BY <2>4 DEF ReportInv, ReportTypes, Report!MarkClosed
    <3>2. /\ mine \in ClosingRow /\ mine.step = "commit" /\ mine.closedAt = clock
          /\ mine.began = closing[o].began
      BY <3>1 DEF ClosingRow
    <3>3. closing' = [closing EXCEPT ![o] = mine]
      BY <2>4 DEF Report!MarkClosed, ReportInv, ReportTypes, ClosingRow
    <3>4. orders[o].status = "open" /\ closing[o].began <= clock
      BY <3>1 DEF ReportInv, OrderTimes
    <3> HIDE DEF mine
    <3> QED
      BY <2>2, <3>2, <3>3, <3>4
  <2>5. ASSUME NEW o \in Reported, Report!AbortClose(o)
        PROVE  closing' \in [Reported -> ClosingRow] /\ OrderTimes'
    BY <2>2, <2>5, ReportRest DEF Report!AbortClose
  <2> QED
    BY <2>1, <2>3, <2>4, <2>5 DEF Report!Tick, Report!ChangeFeature
<1>3. ReportTypes'
  BY <1>1, <1>2 DEF ReportInv, ReportTypes
<1>4. report' = [report EXCEPT !.late = report.late] /\ report.late \subseteq Reported
  BY <1>1 DEF ReportInv, ReportTypes, ReportRow
<1> QED
  BY <1>1, <1>2, <1>3, <1>4, ReportKept

\* An order is closed once, and is late for the report under way.
LEMMA ReportCommitClose ==
    ASSUME ReportInv, NEW o \in Reported, Report!CommitClose(o) PROVE ReportInv'
<1> DEFINE row == [status |-> "closed", closedAt |-> closing[o].closedAt, paidAt |-> Report!PaidAt(o)]
           late == IF reportPc = 0 THEN report.late ELSE report.late \cup {o}
<1>1. /\ closing[o].step = "commit"
      /\ closing[o] \in ClosingRow
      /\ UNCHANGED <<clock, reportPc>>
      /\ orders[o].status = "open" /\ closing[o].began <= closing[o].closedAt
      /\ orders' = [orders EXCEPT ![o] = row]
      /\ closing' = [closing EXCEPT ![o] = Report!NotClosing]
  BY DEF Report!CommitClose, ReportInv, ReportTypes, OrderTimes
<1>2. row \in OrderRow /\ row.status = "closed" /\ row.paidAt <= row.closedAt
  BY <1>1 DEF OrderRow, ClosingRow, Report!PaidAt
<1>3. /\ report' = [report EXCEPT !.late = late]
      /\ late \subseteq Reported
      /\ report.late \subseteq late
  BY DEF Report!CommitClose, ReportInv, ReportTypes, ReportRow
<1>4. reportPc # 0 => o \in late
  OBVIOUS
<1> HIDE DEF row, late
<1>5. ReportTypes'
  <2>1. report' \in ReportRow
    BY <1>3 DEF ReportInv, ReportTypes, ReportRow
  <2> QED
    BY <1>1, <1>2, <2>1, ReportRest DEF ReportInv, ReportTypes
<1>6. /\ orders'[o] = row /\ closing'[o] = Report!NotClosing
      /\ \A q \in Reported \ {o} : orders'[q] = orders[q] /\ closing'[q] = closing[q]
  BY <1>1 DEF ReportInv, ReportTypes
<1>7. OrderTimes'
  BY <1>1, <1>2, <1>6, ReportRest DEF ReportInv, OrderTimes
<1>8. /\ \A q \in Reported : orders[q].status = "closed" => orders'[q] = orders[q]
      /\ \A q \in Reported : orders'[q].status = "closed" =>
           orders[q].status = "closed" \/ reportPc = 0 \/ q \in late
  BY <1>1, <1>4, <1>6
<1> QED
  BY <1>1, <1>3, <1>5, <1>7, <1>8, ReportKept

\* A new report has found nothing.
LEMMA ReportBegin ==
    ASSUME ReportInv, NEW kind \in {"screen", "export", "dashboard"}, NEW from \in Report!Time,
           NEW to \in Report!Time, Report!BeginReport(kind, from, to)
    PROVE  ReportInv'
<1> DEFINE mine == [Report!NoReport EXCEPT !.kind = kind, !.from = from, !.to = to]
<1>1. mine \in ReportRow
  <2>1. from \in Nat /\ to \in Nat
    BY DatesAreNumbers DEF Report!Time
  <2> QED
    BY <2>1, ReportRest DEF ReportRow
<1>2. report' = mine /\ reportPc' = 1 /\ UNCHANGED <<clock, orders, closing>>
  BY DEF Report!BeginReport
<1> HIDE DEF mine
<1>3. ReportTypes' /\ OrderTimes'
  BY <1>1, <1>2 DEF ReportInv, ReportTypes, OrderTimes
<1> QED
  BY <1>2, <1>3 DEF ReportInv, RevenueFound, Figures, DiscountsFound, DishesFound,
                         CategoriesFound, PaymentsFound

\* Nor has one that is over.
LEMMA ReportEnd == ASSUME ReportInv, Report!EndReport PROVE ReportInv'
<1>1. report' = Report!NoReport /\ reportPc' = 0 /\ UNCHANGED <<clock, orders, closing>>
  BY DEF Report!EndReport
<1>2. ReportTypes' /\ OrderTimes'
  BY <1>1, ReportRest DEF ReportInv, ReportTypes, OrderTimes
<1> QED
  BY <1>1, <1>2 DEF ReportInv, RevenueFound, Figures, DiscountsFound, DishesFound,
                         CategoriesFound, PaymentsFound

\* A query finds what its range has now: nothing less than the revenue, nothing
\* more but what is late.
LEMMA ReportQuery == ASSUME ReportInv, Report!RunQuery PROVE ReportInv'
<1>1. PICK result \in Report!Results(Report!Query[reportPc]) :
         report' = [report EXCEPT !.found[reportPc] = result]
  BY DEF Report!RunQuery
<1>2. /\ reportPc \in {1, 2} => result = Report!ClosedInRange
      /\ reportPc = 3 => result \in Report!Listings
      /\ reportPc = 4 => result = Report!WithCategory(Report!ClosedInRange)
      /\ reportPc = 5 => result = Report!PaidInRange
  BY <1>1, Queries DEF Report!Results
<1>3. /\ reportPc \in 1 .. 5 /\ reportPc' = reportPc + 1 /\ UNCHANGED <<clock, orders, closing>>
      /\ result \in SUBSET (Reported \cup Dish)
  <2>1. /\ Report!SoldIn(Report!ClosedInRange) \subseteq Dish
        /\ Report!ClosedInRange \subseteq Reported /\ Report!PaidInRange \subseteq Reported
    BY DEF Report!SoldIn, Report!DishesOf, Report!ClosedInRange, Report!PaidInRange
  <2>2. Report!WithCategory(Report!ClosedInRange) \subseteq Reported
    BY <2>1 DEF Report!WithCategory
  <2>3. reportPc \in 1 .. 5 /\ reportPc' = reportPc + 1 /\ UNCHANGED <<clock, orders, closing>>
    BY Queries DEF Report!RunQuery, Report!LastQuery
  <2>4. reportPc = 3 => result \subseteq Dish
    BY <1>2, <2>1, WhatIsListed
  <2> QED
    BY <1>2, <2>1, <2>2, <2>3, <2>4
<1>4. /\ report' \in ReportRow /\ report'.found[reportPc] = result
      /\ \A n \in 1 .. 5 : n # reportPc => report'.found[n] = report.found[n]
      /\ report'.from = report.from /\ report'.to = report.to
      /\ report'.late = report.late /\ report'.kind = report.kind
  BY <1>1, <1>3 DEF ReportInv, ReportTypes, ReportRow
<1>5. ReportTypes' /\ OrderTimes'
  BY <1>3, <1>4 DEF ReportInv, ReportTypes, OrderTimes
<1>6. Report!ClosedInRange' = Report!ClosedInRange /\ Report!PaidInRange' = Report!PaidInRange
  BY <1>3, <1>4 DEF Report!ClosedInRange, Report!PaidInRange, Report!InRange
<1> DEFINE revenue == report.found[1]
           known == report.found[1] \cup report.late
<1>7. 1 < reportPc =>
         /\ report'.found[1] = revenue /\ report'.late = report.late
         /\ revenue \subseteq Report!ClosedInRange /\ Report!ClosedInRange \subseteq known
  BY <1>3, <1>4 DEF ReportInv, RevenueFound
<1>8. RevenueFound'
  <2>1. CASE reportPc = 1
    BY <1>2, <1>4, <1>6, <2>1 DEF RevenueFound
  <2>2. CASE reportPc # 1
    BY <1>3, <1>6, <1>7, <2>2 DEF RevenueFound
  <2> QED
    BY <2>1, <2>2
<1>9. PaymentsFound'
  <2>1. SUFFICES ASSUME reportPc = 5
                 PROVE  /\ report'.found[5] \subseteq Report!PaidInRange
                        /\ \A o \in report'.found[1] \ report'.found[5] : orders[o].paidAt < report.from
    BY <1>3, <1>4, <1>6 DEF PaymentsFound
  <2>2. report'.found[5] = Report!PaidInRange /\ report'.found[1] = report.found[1]
    BY <1>2, <1>4, <2>1
  <2>3. report.found[1] \subseteq Report!ClosedInRange
    BY <2>1 DEF ReportInv, RevenueFound
  <2>4. ASSUME NEW o \in report.found[1] \ Report!PaidInRange
        PROVE  orders[o].paidAt < report.from
    <3>1. /\ o \in Reported /\ orders[o].status = "closed" /\ orders[o].closedAt < report.to
          /\ orders[o].paidAt <= orders[o].closedAt
      BY <2>3 DEF ReportInv, OrderTimes, Report!ClosedInRange, Report!InRange
    <3>2. /\ orders[o].paidAt \in Nat /\ orders[o].closedAt \in Nat
          /\ report.from \in Nat /\ report.to \in Nat
      BY <3>1 DEF ReportInv, ReportTypes, OrderRow, ReportRow
    <3>3. ~(report.from <= orders[o].paidAt /\ orders[o].paidAt < report.to)
      BY <2>4, <3>1 DEF Report!PaidInRange, Report!InRange
    <3> QED
      BY <3>1, <3>2, <3>3
  <2> QED
    BY <2>2, <2>4
<1>10. Figures'
  <2>1. 1 < reportPc =>
           /\ Report!SoldIn(revenue) \subseteq Report!SoldIn(Report!ClosedInRange)
           /\ Report!SoldIn(Report!ClosedInRange) \subseteq Report!SoldIn(known)
           /\ Report!WithCategory(revenue) \subseteq Report!WithCategory(Report!ClosedInRange)
           /\ Report!WithCategory(Report!ClosedInRange) \subseteq Report!WithCategory(known)
    BY <1>7, MoreSold
  <2>2. DiscountsFound'
    <3>1. CASE reportPc = 2
      BY <1>2, <1>4, <1>7, <3>1 DEF DiscountsFound
    <3>2. CASE reportPc # 2
      BY <1>3, <1>4, <1>7, <3>2 DEF ReportInv, Figures, DiscountsFound
    <3> QED
      BY <3>1, <3>2
  <2>3. DishesFound'
    <3>1. CASE reportPc = 3
      <4>1. /\ result \subseteq Report!SoldIn(Report!ClosedInRange)
            /\ \/ result = Report!SoldIn(Report!ClosedInRange)
               \/ Report!IsFull(result)
        BY <1>2, <3>1, WhatIsListed
      <4>2. report'.found[3] = result /\ report'.kind = report.kind
        BY <1>4, <3>1
      <4> QED
        BY <1>7, <2>1, <3>1, <4>1, <4>2 DEF DishesFound, Report!IsFull
    <3>2. CASE reportPc # 3
      <4>1. report'.found[3] = report.found[3] /\ report'.kind = report.kind
        BY <1>4, <3>2
      <4>2. 3 < reportPc' => 3 < reportPc
        BY <1>3, <3>2
      <4> QED
        <5>1. ASSUME 3 < reportPc
              PROVE  /\ report.found[3] \subseteq Report!SoldIn(known)
                     /\ \/ Report!SoldIn(revenue) \subseteq report.found[3]
                        \/ Report!IsFull(report.found[3])
          BY <5>1 DEF ReportInv, Figures, DishesFound
        <5>2. Report!IsFull(report.found[3]) => Report!IsFull(report.found[3])'
          BY <4>1 DEF Report!IsFull
        <5>3. 3 < reportPc => report'.found[1] = revenue /\ report'.late = report.late
          BY <1>3, <1>7
        <5> QED
          BY <4>1, <4>2, <5>1, <5>2, <5>3 DEF DishesFound
    <3> QED
      BY <3>1, <3>2
  <2>4. CategoriesFound'
    <3>1. CASE reportPc = 4
      BY <1>2, <1>4, <1>7, <2>1, <3>1 DEF CategoriesFound
    <3>2. CASE reportPc # 4
      <4>1. report'.found[4] = report.found[4]
        BY <1>4, <3>2
      <4>2. 4 < reportPc' => 4 < reportPc
        BY <1>3, <3>2
      <4> QED
        BY <1>3, <1>7, <4>1, <4>2 DEF ReportInv, Figures, CategoriesFound
    <3> QED
      BY <3>1, <3>2
  <2> QED
    BY <2>2, <2>3, <2>4 DEF Figures
<1> QED
  BY <1>5, <1>8, <1>9, <1>10 DEF ReportInv

\* Every step keeps the invariant.
LEMMA ReportNext == ReportInv /\ [Report!Next]_(Report!vars) => ReportInv'
<1> SUFFICES ASSUME ReportInv, [Report!Next]_(Report!vars) PROVE ReportInv'
  OBVIOUS
<1>1. CASE UNCHANGED Report!vars
  BY <1>1 DEF Report!vars, ReportInv, ReportTypes, OrderTimes, RevenueFound, Figures,
              DiscountsFound, DishesFound, CategoriesFound, PaymentsFound,
              Report!ClosedInRange, Report!PaidInRange, Report!InRange, Report!IsFull
<1> QED
  BY <1>1, ReportClosing, ReportCommitClose, ReportBegin, ReportQuery, ReportEnd
     DEF Report!Next

\* What the invariant is for.
LEMMA ReportSafe == ReportInv => Report!ReportAddsUp
<1> DEFINE found(query) == report.found[CHOOSE n \in 1 .. Len(Report!Query) : Report!Query[n] = query]
           revenue == report.found[1]
           known == report.found[1] \cup report.late
<1>1. /\ found("revenue") = report.found[1] /\ found("discounts") = report.found[2]
      /\ found("items") = report.found[3] /\ found("categories") = report.found[4]
      /\ found("payments") = report.found[5]
  <2>1. ASSUME NEW n \in 1 .. 5
        PROVE  (CHOOSE k \in 1 .. 5 : Report!Query[k] = Report!Query[n]) = n
    <3>1. \A k \in 1 .. 5 : Report!Query[k] = Report!Query[n] => k = n
      <4>1. \A k \in 1 .. 5 : k = 1 \/ k = 2 \/ k = 3 \/ k = 4 \/ k = 5
        OBVIOUS
      <4> QED
        BY Queries, <4>1
    <3> QED
      BY <3>1
  <2> QED
    BY <2>1, Queries
<1> HIDE DEF found
<1>2. SUFFICES ASSUME ReportInv, Report!Complete, report.kind # "dashboard"
               PROVE  /\ revenue \subseteq found("discounts") /\ found("discounts") \subseteq known
                      /\ Report!WithCategory(revenue) \subseteq found("categories")
                      /\ found("categories") \subseteq Report!WithCategory(known)
                      /\ \/ Report!SoldIn(revenue) \subseteq found("items")
                         \/ Report!IsFull(found("items"))
                      /\ found("items") \subseteq Report!SoldIn(known)
                      /\ \A o \in revenue \ found("payments") : orders[o].paidAt < report.from
                      /\ \A o \in found("payments") \ revenue :
                            o \in report.late \/ orders[o].closedAt >= report.to
  BY <1>1 DEF Report!ReportAddsUp, found
<1>3. reportPc = 6
  BY <1>2, Queries DEF Report!Complete, Report!LastQuery
<1>4. \A o \in report.found[1] \ report.found[5] : orders[o].paidAt < report.from
  BY <1>2, <1>3 DEF ReportInv, PaymentsFound
<1>5. ASSUME NEW o \in report.found[5] \ report.found[1], o \notin report.late
      PROVE  orders[o].closedAt >= report.to
  <2>1. o \in Report!PaidInRange /\ o \notin Report!ClosedInRange
    BY <1>2, <1>3, <1>5 DEF ReportInv, PaymentsFound, RevenueFound
  <2>2. /\ o \in Reported /\ orders[o].paidAt \in Nat /\ orders[o].closedAt \in Nat
        /\ report.from \in Nat /\ report.to \in Nat
        /\ report.from <= orders[o].paidAt /\ orders[o].paidAt <= orders[o].closedAt
        /\ ~(report.from <= orders[o].closedAt /\ orders[o].closedAt < report.to)
    BY <1>2, <2>1 DEF ReportInv, ReportTypes, OrderTimes, OrderRow, ReportRow,
                      Report!PaidInRange, Report!ClosedInRange, Report!InRange
  <2> QED
    BY <2>2
<1>6. DiscountsFound /\ DishesFound /\ CategoriesFound
  BY <1>2 DEF ReportInv, Figures
<1>7. /\ revenue \subseteq report.found[2] /\ report.found[2] \subseteq known
      /\ Report!WithCategory(revenue) \subseteq report.found[4]
      /\ report.found[4] \subseteq Report!WithCategory(known)
      /\ Report!SoldIn(revenue) \subseteq report.found[3] \/ Report!IsFull(report.found[3])
      /\ report.found[3] \subseteq Report!SoldIn(known)
  BY <1>3, <1>6 DEF DiscountsFound, DishesFound, CategoriesFound
<1> HIDE DEF known
<1> QED
  BY <1>1, <1>4, <1>5, <1>7

-----------------------------------------------------------------------------
(* The catalog of plans                                                    *)

CatalogFields == {"values", "todo", "written"}
IsSave(t) == t = [f \in CatalogFields |-> t[f]]

CatalogTypes ==
    /\ featureType = [f \in Feature |-> featureType[f]]
    /\ grantLock = [f \in Feature |-> grantLock[f]]
    /\ catalogPc = [c \in Client |-> catalogPc[c]]
    /\ catalogTx = [c \in Client |-> catalogTx[c]]
    /\ \A c \in Client : /\ IsSave(catalogTx[c])
                         /\ catalogTx[c].todo \subseteq Feature
                         /\ catalogTx[c].written \subseteq Feature

\* Who has written the row of a feature holds it.
GrantLocks(c) == \A f \in Feature : grantLock[f] = c <=> f \in catalogTx[c].written

\* A save writes the features in their order.
InKeyOrder(c) ==
    /\ catalogPc[c] \in {"idle", "load"} => catalogTx[c].todo = {} /\ catalogTx[c].written = {}
    /\ catalogPc[c] = "upsert" => catalogTx[c].todo # {}
    /\ \A f \in catalogTx[c].written, g \in catalogTx[c].todo : f < g

\* It has looked at their types.
KindsFit(c) ==
    catalogPc[c] \in {"upsert", "commit"} =>
        \A f \in (catalogTx[c].todo \cup catalogTx[c].written) \ retyped :
            /\ featureType[f] # "none"
            /\ Plans!ValidFeatureValue(featureType[f], catalogTx[c].values[f])

Saving(c) == GrantLocks(c) /\ InKeyOrder(c) /\ KindsFit(c)

GrantsFit ==
    /\ \A f \in saved.features : f \in Feature /\ grants[f].by = saved.by
    /\ \A f \in Feature \ retyped :
          grants[f] # Plans!NoGrant =>
              featureType[f] # "none" /\ Plans!ValidFeatureValue(featureType[f], grants[f].kind)

CatalogInv == CatalogTypes /\ GrantsFit /\ \A c \in Client : Saving(c)

\* The first of the features that are left.
LEMMA FirstIsLeast ==
    ASSUME NEW todo \in SUBSET Nat, todo # {}
    PROVE  \E f \in todo : Plans!FirstOf(todo) = {f} /\ \A g \in todo : f <= g
<1> DEFINE less == OpToRel(<, Nat)
<1>1. IsWellFoundedOn(less, Nat)
  BY NatLessThanWellFounded, Zenon
<1>2. \A x, y \in Nat : x < y => <<x, y>> \in less
  BY DEF OpToRel
<1> HIDE DEF less
<1>3. PICK f \in todo : \A g \in todo : ~(<<g, f>> \in less)
  BY <1>1, WFMin, Zenon
<1>4. ASSUME NEW g \in todo PROVE f <= g
  <2>1. f \in Nat /\ g \in Nat
    OBVIOUS
  <2>2. ~(g < f)
    BY <1>2, <1>3, <2>1, Zenon
  <2> QED
    BY <2>1, <2>2
<1>5. Plans!Min(todo) \in todo /\ \A g \in todo : Plans!Min(todo) <= g
  BY <1>4 DEF Plans!Min
<1> QED
  BY <1>5 DEF Plans!FirstOf

\* A resting connection saves nothing.
LEMMA CatalogRest == IsSave(Plans!NoTx) /\ Plans!NoTx.todo = {} /\ Plans!NoTx.written = {}
  BY DEF IsSave, Plans!NoTx, CatalogFields

\* The invariant holds for an empty catalog.
LEMMA CatalogInit == Plans!Init => CatalogInv
<1> SUFFICES ASSUME Plans!Init PROVE CatalogInv
  OBVIOUS
<1>1. /\ featureType = [f \in Feature |-> "none"] /\ grants = [f \in Feature |-> Plans!NoGrant]
      /\ grantLock = [f \in Feature |-> Nobody] /\ saved = Plans!NothingSaved
      /\ catalogPc = [c \in Client |-> "idle"] /\ catalogTx = [c \in Client |-> Plans!NoTx]
  BY DEF Plans!Init
<1>2. CatalogTypes
  BY <1>1, CatalogRest DEF CatalogTypes
<1>3. GrantsFit
  BY <1>1 DEF GrantsFit, Plans!NothingSaved
<1>4. ASSUME NEW c \in Client PROVE Saving(c)
  BY <1>1, CatalogRest, NobodyIsElse DEF Saving, GrantLocks, InKeyOrder, KindsFit
<1> QED
  BY <1>2, <1>3, <1>4 DEF CatalogInv

\* A step of one save; the types stay.
LEMMA CatalogStep ==
    ASSUME CatalogInv, NEW c \in Client, NEW mine, NEW next, IsSave(mine),
           mine.todo \subseteq Feature, mine.written \subseteq Feature,
           Plans!Local(c, mine), Plans!Goto(c, next), UNCHANGED <<featureType, retyped>>,
           grantLock' = [f \in Feature |-> grantLock'[f]],
           \A f \in Feature, d \in Client \ {c} : grantLock'[f] = d <=> grantLock[f] = d,
           GrantsFit', Saving(c)'
    PROVE  CatalogInv'
<1>1. /\ catalogTx'[c] = mine /\ catalogPc'[c] = next
      /\ \A d \in Client \ {c} : catalogTx'[d] = catalogTx[d] /\ catalogPc'[d] = catalogPc[d]
  BY DEF Plans!Local, Plans!Goto, CatalogInv, CatalogTypes
<1>2. CatalogTypes'
  <2>1. /\ featureType' = [f \in Feature |-> featureType'[f]]
        /\ catalogPc' = [d \in Client |-> catalogPc'[d]]
        /\ catalogTx' = [d \in Client |-> catalogTx'[d]]
    BY DEF Plans!Local, Plans!Goto, CatalogInv, CatalogTypes
  <2>2. \A d \in Client : /\ IsSave(catalogTx'[d])
                          /\ catalogTx'[d].todo \subseteq Feature
                          /\ catalogTx'[d].written \subseteq Feature
    BY <1>1 DEF CatalogInv, CatalogTypes
  <2> QED
    BY <2>1, <2>2 DEF CatalogTypes, IsSave
<1>3. ASSUME NEW d \in Client \ {c} PROVE Saving(d)'
  BY <1>1 DEF CatalogInv, Saving, GrantLocks, InKeyOrder, KindsFit
<1> QED
  BY <1>2, <1>3 DEF CatalogInv

\* A save that is over has no lock.
LEMMA CatalogEnd ==
    ASSUME CatalogInv, NEW c \in Client, Plans!End(c), UNCHANGED <<featureType, retyped>>,
           GrantsFit'
    PROVE  CatalogInv'
<1>1. /\ Plans!Local(c, Plans!NoTx) /\ Plans!Goto(c, "idle")
      /\ grantLock' = [f \in Feature |-> IF grantLock[f] = c THEN Nobody ELSE grantLock[f]]
  BY DEF Plans!End
<1>2. /\ \A f \in Feature, d \in Client \ {c} : grantLock'[f] = d <=> grantLock[f] = d
      /\ \A f \in Feature : grantLock'[f] # c
      /\ grantLock' = [f \in Feature |-> grantLock'[f]]
  BY <1>1, NobodyIsElse
<1>3. catalogTx'[c] = Plans!NoTx /\ catalogPc'[c] = "idle"
  BY <1>1 DEF Plans!Local, Plans!Goto, CatalogInv, CatalogTypes
<1>4. Saving(c)'
  BY <1>2, <1>3, CatalogRest DEF Saving, GrantLocks, InKeyOrder, KindsFit
<1> QED
  BY <1>1, <1>2, <1>4, CatalogRest, CatalogStep

\* A save that is undone leaves the grants as they were.
LEMMA CatalogRollback ==
    ASSUME CatalogInv, NEW c \in Client, Plans!Rollback(c) PROVE CatalogInv'
<1>1. Plans!End(c) /\ UNCHANGED <<featureType, grants, retyped, saved>>
  BY DEF Plans!Rollback, Plans!rows, Plans!history
<1>2. GrantsFit'
  BY <1>1 DEF CatalogInv, GrantsFit
<1> QED
  BY <1>1, <1>2, CatalogEnd

\* A save begins with nothing to write.
LEMMA CatalogBegin ==
    ASSUME CatalogInv, NEW c \in Client, NEW form \in Forms,
           Plans!UpdatePlanFeatures(c, form)
    PROVE  CatalogInv'
<1> DEFINE mine == [Plans!NoTx EXCEPT !.values = form]
<1>1. IsSave(mine) /\ mine.todo = {} /\ mine.written = {}
  BY DEF IsSave, Plans!NoTx, CatalogFields
<1>2. /\ Plans!Local(c, mine) /\ Plans!Goto(c, "load") /\ Plans!At(c, "idle")
      /\ UNCHANGED <<featureType, grants, retyped, saved, grantLock>>
  BY DEF Plans!UpdatePlanFeatures, Plans!rows, Plans!history
<1> HIDE DEF mine
<1>3. /\ catalogTx'[c] = mine
      /\ catalogPc'[c] = "load"
      /\ GrantsFit'
      /\ grantLock' = [f \in Feature |-> grantLock'[f]]
  BY <1>2 DEF Plans!Local, Plans!Goto, CatalogInv, CatalogTypes, GrantsFit
<1>4. catalogTx[c].written = {}
  BY <1>2 DEF Plans!At, CatalogInv, Saving, InKeyOrder
<1>5. Saving(c)'
  BY <1>1, <1>2, <1>3, <1>4 DEF CatalogInv, Saving, GrantLocks, InKeyOrder, KindsFit
<1>6. \A f \in Feature, d \in Client \ {c} : grantLock'[f] = d <=> grantLock[f] = d
  BY <1>2
<1>7. mine.todo \subseteq Feature /\ mine.written \subseteq Feature
  BY <1>1
<1> QED
  BY <1>1, <1>2, <1>3, <1>5, <1>6, <1>7, CatalogStep

\* It goes on only if every value fits its feature.
LEMMA CatalogLoad ==
    ASSUME CatalogInv, NEW c \in Client, Plans!LoadFeatures(c) PROVE CatalogInv'
<1> DEFINE features == {f \in Feature : featureType[f] # "none"}
           values == [f \in Feature |-> Plans!ValueOf(featureType[f], catalogTx[c].values[f])]
           mine == [catalogTx[c] EXCEPT !.todo = features, !.values = values]
           next == IF features = {} THEN "commit" ELSE "upsert"
<1>1. CASE /\ \A f \in features : Plans!ValidFeatureValue(featureType[f], values[f])
           /\ Plans!Local(c, mine) /\ Plans!Goto(c, next)
           /\ UNCHANGED <<Plans!rows, grantLock, Plans!history>>
  <2>1. IsSave(catalogTx[c]) /\ catalogTx[c].written = {}
    BY DEF Plans!LoadFeatures, Plans!At, CatalogInv, CatalogTypes, Saving, InKeyOrder
  <2>2. /\ IsSave(mine)
        /\ mine.todo = features
        /\ mine.written = {}
        /\ mine.values = values
    BY <2>1 DEF IsSave, CatalogFields
  <2>3. /\ Plans!Local(c, mine)
        /\ Plans!Goto(c, next)
        /\ UNCHANGED <<featureType, grants, retyped, saved, grantLock>>
    BY <1>1 DEF Plans!rows, Plans!history
  <2>4. /\ features \subseteq Feature
        /\ \A f \in features :
                 featureType[f] # "none" /\ Plans!ValidFeatureValue(featureType[f], values[f])
    BY <1>1
  <2>5. next \in {"upsert", "commit"} /\ (next = "upsert" => features # {})
    OBVIOUS
  <2> HIDE DEF mine, features, values, next
  <2>6. /\ catalogTx'[c] = mine
        /\ catalogPc'[c] = next
        /\ GrantsFit'
        /\ grantLock' = [f \in Feature |-> grantLock'[f]]
    BY <2>3 DEF Plans!Local, Plans!Goto, CatalogInv, CatalogTypes, GrantsFit
  <2>7. GrantLocks(c)'
    BY <2>1, <2>2, <2>3, <2>6 DEF CatalogInv, Saving, GrantLocks
  <2>8. InKeyOrder(c)'
    BY <2>2, <2>5, <2>6 DEF InKeyOrder
  <2>9. KindsFit(c)'
    BY <2>2, <2>3, <2>4, <2>6 DEF KindsFit
  <2>10. \A f \in Feature, d \in Client \ {c} : grantLock'[f] = d <=> grantLock[f] = d
    BY <2>3
  <2>11. mine.todo \subseteq Feature /\ mine.written \subseteq Feature /\ Saving(c)'
    BY <2>2, <2>4, <2>7, <2>8, <2>9 DEF Saving
  <2> QED
    BY <2>2, <2>3, <2>6, <2>10, <2>11, CatalogStep
<1> QED
  BY <1>1, CatalogRollback DEF Plans!LoadFeatures

\* It writes the first of the features that are left.
LEMMA CatalogUpsert ==
    ASSUME CatalogInv, NEW c \in Client, Plans!Upsert(c) PROVE CatalogInv'
<1>1. CASE plan # "none" /\ ~Plans!Rollback(c)
  <2>1. /\ catalogPc[c] = "upsert" /\ IsSave(catalogTx[c]) /\ catalogTx[c].todo # {}
        /\ catalogTx[c].todo \subseteq Feature /\ catalogTx[c].written \subseteq Feature
        /\ UNCHANGED <<featureType, grants, retyped, saved>>
        /\ GrantLocks(c) /\ InKeyOrder(c) /\ KindsFit(c)
        /\ grantLock = [f \in Feature |-> grantLock[f]]
    BY <1>1 DEF Plans!Upsert, Plans!At, CatalogInv, CatalogTypes, Saving, InKeyOrder,
                Plans!rows, Plans!history
  <2>2. PICK f \in catalogTx[c].todo : /\ Plans!FirstOf(catalogTx[c].todo) = {f}
                                       /\ \A g \in catalogTx[c].todo : f <= g
    BY <2>1, KeysAreOrdered, FirstIsLeast
  <2> DEFINE rest == catalogTx[c].todo \ {f}
             mine == [catalogTx[c] EXCEPT !.todo = rest, !.written = @ \cup {f}]
             next == IF rest = {} THEN "commit" ELSE "upsert"
  <2>3. /\ grantLock[f] = Nobody /\ grantLock' = [grantLock EXCEPT ![f] = c]
        /\ Plans!Local(c, mine) /\ Plans!Goto(c, next)
    BY <1>1, <2>2 DEF Plans!Upsert
  <2>4. /\ IsSave(mine)
        /\ mine.todo = catalogTx[c].todo \ {f}
        /\ mine.written = catalogTx[c].written \cup {f}
        /\ mine.values = catalogTx[c].values
    BY <2>1 DEF IsSave, CatalogFields
  <2>5. next \in {"upsert", "commit"} /\ (next = "upsert" => catalogTx[c].todo \ {f} # {})
    OBVIOUS
  <2>6. \A h \in catalogTx[c].written \cup {f}, g \in catalogTx[c].todo \ {f} : h < g
    <3>1. \A g \in catalogTx[c].todo \ {f} : f < g
      BY <2>1, <2>2, KeysAreOrdered
    <3> QED
      BY <2>1, <3>1 DEF InKeyOrder
  <2> HIDE DEF mine, next, rest
  <2>7. catalogTx'[c] = mine /\ catalogPc'[c] = next /\ GrantsFit'
    BY <2>1, <2>3 DEF Plans!Local, Plans!Goto, CatalogInv, CatalogTypes, GrantsFit
  <2>8. /\ grantLock' = [g \in Feature |-> grantLock'[g]]
        /\ \A g \in Feature, d \in Client \ {c} : grantLock'[g] = d <=> grantLock[g] = d
        /\ \A g \in Feature : grantLock'[g] = c <=> (grantLock[g] = c \/ g = f)
    BY <2>1, <2>2, <2>3, NobodyIsElse
  <2>9. GrantLocks(c)'
    BY <2>1, <2>4, <2>7, <2>8 DEF GrantLocks
  <2>10. InKeyOrder(c)'
    BY <2>4, <2>5, <2>6, <2>7 DEF InKeyOrder
  <2>11. KindsFit(c)'
    BY <2>1, <2>2, <2>4, <2>7 DEF KindsFit
  <2>12. mine.todo \subseteq Feature /\ mine.written \subseteq Feature /\ Saving(c)'
    BY <2>1, <2>2, <2>4, <2>9, <2>10, <2>11 DEF Saving
  <2>13. UNCHANGED <<featureType, retyped>>
    BY <2>1
  <2> QED
    BY <2>3, <2>4, <2>7, <2>8, <2>12, <2>13, CatalogStep
<1> QED
  BY <1>1, CatalogRollback DEF Plans!Upsert

\* A commit grants what was written, all of it and nothing else.
LEMMA CatalogCommit ==
    ASSUME CatalogInv, NEW c \in Client, Plans!Commit(c) PROVE CatalogInv'
<1>1. /\ catalogPc[c] = "commit" /\ Plans!End(c) /\ UNCHANGED <<featureType, retyped>>
      /\ grants' = [f \in Feature |->
                      IF f \in catalogTx[c].written
                      THEN [by |-> c, kind |-> catalogTx[c].values[f]] ELSE grants[f]]
      /\ saved' = [by |-> c, features |-> catalogTx[c].written]
      /\ catalogTx[c].written \subseteq Feature /\ KindsFit(c) /\ GrantsFit
  BY DEF Plans!Commit, Plans!At, CatalogInv, CatalogTypes, Saving
<1>2. GrantsFit'
  BY <1>1 DEF GrantsFit, KindsFit
<1> QED
  BY <1>1, <1>2, CatalogEnd

\* A feature gets its type before it is written, or is retyped.
LEMMA CatalogTyped ==
    ASSUME CatalogInv, NEW f \in Feature, NEW t \in Plans!Type,
           Plans!CreatePlatformFeature(f, t) \/ Plans!UpdatePlatformFeature(f, t)
    PROVE  CatalogInv'
<1>1. /\ featureType' = [featureType EXCEPT ![f] = t] /\ t # "none"
      /\ (featureType[f] = "none" /\ UNCHANGED retyped) \/ retyped' = retyped \cup {f}
      /\ UNCHANGED <<grants, grantLock, catalogPc, catalogTx, saved>>
  BY DEF Plans!CreatePlatformFeature, Plans!UpdatePlatformFeature, Plans!Type, Plans!history
<1>2. /\ featureType' = [g \in Feature |-> featureType'[g]]
      /\ retyped \subseteq retyped'
      /\ \A g \in Feature \ retyped' : featureType[g] # "none" => featureType'[g] = featureType[g]
  BY <1>1 DEF CatalogInv, CatalogTypes
<1>3. CatalogTypes'
  BY <1>1, <1>2 DEF CatalogInv, CatalogTypes, IsSave
<1>4. GrantsFit'
  BY <1>1, <1>2 DEF CatalogInv, GrantsFit
<1>5. ASSUME NEW c \in Client PROVE Saving(c)'
  <2>1. GrantLocks(c)' /\ InKeyOrder(c)'
    BY <1>1 DEF CatalogInv, Saving, GrantLocks, InKeyOrder
  <2>2. KindsFit(c)'
    BY <1>1, <1>2 DEF CatalogInv, CatalogTypes, Saving, KindsFit
  <2> QED
    BY <2>1, <2>2 DEF Saving
<1> QED
  BY <1>3, <1>4, <1>5 DEF CatalogInv

\* Every step keeps the invariant.
LEMMA CatalogNext == CatalogInv /\ [Plans!Next]_(Plans!vars) => CatalogInv'
<1> SUFFICES ASSUME CatalogInv, [Plans!Next]_(Plans!vars) PROVE CatalogInv'
  OBVIOUS
<1>1. ASSUME UNCHANGED <<featureType, grants, grantLock, catalogPc, catalogTx, saved, retyped>>
      PROVE  CatalogInv'
  BY <1>1 DEF CatalogInv, CatalogTypes, IsSave, GrantsFit, Saving, GrantLocks, InKeyOrder,
              KindsFit
<1>2. ASSUME \/ UNCHANGED Plans!vars \/ Plans!CreateSubscriptionPlan
             \/ \E status \in {"active", "retired"} : Plans!UpdateSubscriptionPlan(status)
      PROVE  CatalogInv'
  BY <1>1, <1>2 DEF Plans!vars, Plans!rows, Plans!history, Plans!CreateSubscriptionPlan,
                    Plans!UpdateSubscriptionPlan
<1> QED
  BY <1>2, CatalogTyped, CatalogBegin, CatalogLoad, CatalogUpsert, CatalogCommit,
     CatalogRollback
     DEF Plans!Next, Plans!Abort

\* Of two saves, the one that waits has written only smaller keys than the one it
\* waits for has left to write: they cannot both wait.
LEMMA CatalogSafe == CatalogInv => Plans!PlanSavedWhole
<1> SUFFICES ASSUME CatalogInv PROVE Plans!PlanSavedWhole
  OBVIOUS
<1>1. ASSUME NEW c \in Client, NEW d \in Client, Plans!WaitsFor(c, d)
      PROVE  \E f \in catalogTx[d].written :
                   f \in catalogTx[c].todo /\ Plans!FirstOf(catalogTx[c].todo) = {f}
  <2>1. /\ catalogTx[c].todo # {} /\ catalogTx[c].todo \subseteq Feature
        /\ \E f \in Plans!FirstOf(catalogTx[c].todo) : grantLock[f] = d
    BY <1>1 DEF Plans!WaitsFor, Plans!At, CatalogInv, CatalogTypes, Saving, InKeyOrder
  <2>2. PICK f \in catalogTx[c].todo : Plans!FirstOf(catalogTx[c].todo) = {f}
    BY <2>1, KeysAreOrdered, FirstIsLeast
  <2> QED
    BY <2>1, <2>2 DEF CatalogInv, Saving, GrantLocks
<1>2. ASSUME NEW c \in Client, NEW d \in Client, Plans!WaitsFor(c, d), Plans!WaitsFor(d, c)
      PROVE  FALSE
  <2>1. PICK f \in catalogTx[d].written : f \in catalogTx[c].todo
    BY <1>1, <1>2
  <2>2. PICK g \in catalogTx[c].written : g \in catalogTx[d].todo
    BY <1>1, <1>2
  <2>3. g < f /\ f < g
    BY <2>1, <2>2 DEF CatalogInv, Saving, InKeyOrder
  <2>4. f \in Nat /\ g \in Nat
    BY <2>1, <2>2, KeysAreOrdered DEF CatalogInv, CatalogTypes
  <2> QED
    BY <2>3, <2>4
<1> QED
  BY <1>2 DEF Plans!PlanSavedWhole, CatalogInv, GrantsFit
-----------------------------------------------------------------------------
(* Stock: the invariant and the theorems of Inventory_proofs               *)

StockProofs == INSTANCE Inventory_proofs WITH
    Item <- StockItem, items <- stock, itemLock <- stockLock, pc <- stockPc, tx <- stockTx

\* The stock of the office is one that module Inventory_proofs is about.
LEMMA StockIsInventory ==
    /\ StockProofs!InventoryAssumptions
    /\ Stock!Spec => StockProofs!Spec
<1>1. StockProofs!InventoryAssumptions
  BY NobodyIsElse, QuantitiesAreIntegers DEF StockProofs!InventoryAssumptions
<1>2. Stock!Init => StockProofs!Init
  BY DEF Stock!NoItem, Stock!NoTrail, Stock!NoTx, Stock!Init, StockProofs!NoItem,
         StockProofs!NoTrail, StockProofs!NoTx, StockProofs!Init
<1>3. [Stock!Next]_(Stock!vars) => [StockProofs!Next]_(StockProofs!vars)
  BY DEF Stock!rows, Stock!vars, Stock!NoItem, Stock!NoTx, Stock!Down, Stock!Stored,
         Stock!Storable, Stock!Logged, Stock!At, Stock!Goto, Stock!Begin, Stock!End,
         Stock!Rollback, Stock!Abort, Stock!Fresh, Stock!AddInventoryItem, Stock!CopyItem,
         Stock!AdjustInventoryStock, Stock!DeleteInventoryItem, Stock!Locks, Stock!Write,
         Stock!Added, Stock!Adjust, Stock!Delete, Stock!Commit, Stock!Next, StockProofs!rows,
         StockProofs!vars, StockProofs!NoItem, StockProofs!NoTx, StockProofs!Down,
         StockProofs!Stored, StockProofs!Storable, StockProofs!Logged, StockProofs!At,
         StockProofs!Goto, StockProofs!Begin, StockProofs!End, StockProofs!Rollback,
         StockProofs!Abort, StockProofs!Fresh, StockProofs!AddInventoryItem,
         StockProofs!CopyItem, StockProofs!AdjustInventoryStock,
         StockProofs!DeleteInventoryItem, StockProofs!Locks, StockProofs!Write,
         StockProofs!Added, StockProofs!Adjust, StockProofs!Delete, StockProofs!Commit,
         StockProofs!Next
<1> QED
  BY <1>1, <1>2, <1>3, PTL DEF Stock!Spec, StockProofs!Spec

-----------------------------------------------------------------------------
(* The office                                                              *)

\* A step of the office is one of each part, or leaves it alone.
LEMMA StepsOfParts ==
    [Next]_vars =>
        /\ [Subs!Next]_(Subs!vars)
        /\ [Sessions!Next]_(Sessions!vars)
        /\ [Stock!Next]_(Stock!vars)
        /\ [Menus!Next]_(Menus!vars)
        /\ [Roster!Next]_(Roster!vars)
        /\ [Report!Next]_(Report!vars)
        /\ [Plans!Next]_(Plans!vars)
<1> SUFFICES ASSUME [Next]_vars
             PROVE
               /\ [Subs!Next]_(Subs!vars)
               /\ [Sessions!Next]_(Sessions!vars)
               /\ [Stock!Next]_(Stock!vars)
               /\ [Menus!Next]_(Menus!vars)
               /\ [Roster!Next]_(Roster!vars)
               /\ [Report!Next]_(Report!vars)
               /\ [Plans!Next]_(Plans!vars)
  OBVIOUS
<1>1. /\ UNCHANGED subVars => UNCHANGED Subs!vars
      /\ UNCHANGED accessVars => UNCHANGED Sessions!vars
      /\ UNCHANGED stockVars => UNCHANGED Stock!vars
      /\ UNCHANGED menuVars => UNCHANGED Menus!vars
      /\ UNCHANGED rosterVars => UNCHANGED Roster!vars
      /\ UNCHANGED reportVars => UNCHANGED Report!vars
      /\ UNCHANGED catalogVars => UNCHANGED Plans!vars
  BY DEF subVars, accessVars, stockVars, menuVars, rosterVars, reportVars, catalogVars,
         Subs!vars, Subs!rows, Sessions!vars, Stock!vars, Stock!rows, Menus!vars,
         Menus!source, Roster!vars, Roster!rows, Report!vars, Plans!vars,
         Plans!rows, Plans!history
<1>2. CASE UNCHANGED vars
  BY <1>1, <1>2 DEF vars
<1> QED
  BY <1>1, <1>2 DEF Next, SubscriptionPart, AccessPart, StockPart, MenuPart, RosterPart,
                    ReportPart, CatalogPart

\* The invariants of the parts hold together, whatever the parts do at once.
LEMMA OfficeInvariant ==
    Spec => [](/\ SubInv /\ SessionInv /\ MenuInv
               /\ RosterInv /\ ReportInv /\ CatalogInv)
<1>1. Init => /\ SubInv /\ SessionInv /\ MenuInv
              /\ RosterInv /\ ReportInv /\ CatalogInv
  BY SubInit, SessionInit, MenuInit, RosterInit, ReportInit, CatalogInit DEF Init
<1>2. /\ SubInv /\ SessionInv /\ MenuInv
      /\ RosterInv /\ ReportInv /\ CatalogInv
      /\ [Next]_vars
      => /\ SubInv' /\ SessionInv' /\ MenuInv'
         /\ RosterInv' /\ ReportInv' /\ CatalogInv'
  BY StepsOfParts, SubNext, SessionNext, MenuNext, RosterNext, ReportNext, CatalogNext
<1> QED
  BY <1>1, <1>2, PTL DEF Spec

\* However updates, cancellations and first subscriptions of an account meet,
\* for any number of connections and rows, at most one subscription is current,
\* and a request keeps the one it has locked (platform_management.go:298).
THEOREM OneSubscription == Spec => []OneCurrentSubscription
<1>1. SubInv => OneCurrentSubscription
  BY SubSafe DEF OneCurrentSubscription
<1> QED
  BY <1>1, OfficeInvariant, PTL

\* Nobody acts in an account that has been suspended ever since his request
\* began, however many browsers, and however long his token lasts (auth.go:78).
THEOREM SuspensionsHold == Spec => []BarredNeverActs
<1>1. SessionInv => BarredNeverActs
  BY SessionSafe DEF BarredNeverActs
<1> QED
  BY <1>1, OfficeInvariant, PTL

\* Whoever acts in a restaurant is a member of it and no one of the platform,
\* whatever restaurant the cookie of his browser names (tables.go:284).
THEOREM OnlyMembersAct == Spec => []ActsAsMember
<1>1. SessionInv => ActsAsMember
  BY SessionSafe DEF ActsAsMember
<1> QED
  BY <1>1, OfficeInvariant, PTL

\* The categories of a new restaurant are all those of one moment of the request,
\* and its items all those of that moment or a later one, each in its category,
\* whatever is edited during the copy (restaurants.go:205).
THEOREM CopiesAreFresh == Spec => CopyIsFresh
<1>1. MenuInv /\ [Next]_vars => [Menus!Fresh(created')]_created
  BY StepsOfParts, MenuNext DEF Created
<1> QED
  BY <1>1, OfficeInvariant, PTL DEF Spec, CopyIsFresh, Menus!CopyIsFresh

\* Discounts, dishes and categories of a report are those of the orders in its
\* revenue, but for orders closed meanwhile, dishes without a category, and dishes
\* there is no room for; its payments differ by late orders and those at the edges
\* of its range; for any number of orders (dashboard.go:187-260).
THEOREM ReportsAddUp == Spec => []ReportAddsUp
<1>1. ReportInv => ReportAddsUp
  BY ReportSafe DEF ReportAddsUp
<1> QED
  BY <1>1, OfficeInvariant, PTL

\* Saves of a plan never wait for each other, are saved whole, and fit the types
\* that nobody has changed (platform_management.go:193-227).
THEOREM PlansSavedWhole == Spec => []PlanSavedWhole
<1>1. CatalogInv => PlanSavedWhole
  BY CatalogSafe DEF PlanSavedWhole
<1> QED
  BY <1>1, OfficeInvariant, PTL

\* Whoever is assigned to an order was active, and the order open, during the
\* request that assigned him (orders.go:591-607).
THEOREM AssignmentsInTime == Spec => AssignedInTime
<1>1. RosterInv /\ [Next]_vars =>
        [\A o \in Order : assigned'[o] # assigned[o] =>
           \E c \in Client :
             /\ rosterPc[c] = "commit" /\ rosterPc'[c] = "idle"
             /\ rosterTx[c].order = o /\ o \in rosterTx[c].wasOpen
             /\ assigned'[o] \in rosterTx[c].wasActive \cup {Nobody}]_(Roster!rows)
  BY StepsOfParts, RosterNext DEF RosterChange
<1> QED
  BY <1>1, OfficeInvariant, PTL DEF Spec, AssignedInTime, Roster!AssignedInTime

\* The stock of the office behaves as module Inventory says.
LEMMA StockOfOffice == Spec => StockProofs!Spec
<1>1. Init => Stock!Init
  BY DEF Init
<1>2. [Next]_vars => [Stock!Next]_(Stock!vars)
  BY StepsOfParts
<1>3. Spec => Stock!Spec
  BY <1>1, <1>2, PTL DEF Spec, Stock!Spec
<1> QED
  BY <1>3, StockIsInventory

\* The stock of an item is the sum of its trail and what it was created with,
\* but for the thousandths of rounding (inventory.go:228).
THEOREM StockOfItsTrail == Spec => []StockFollowsTrail
<1>1. StockProofs!Spec => []StockProofs!StockFollowsTrail
  BY StockIsInventory, StockProofs!StockIsItsTrail
<1>2. StockProofs!StockFollowsTrail <=> StockFollowsTrail
  BY DEF StockProofs!StockFollowsTrail, StockFollowsTrail, Stock!StockFollowsTrail
<1> QED
  BY <1>1, <1>2, StockOfOffice, PTL

\* No adjustment, deletion or copy that is under way changes a deleted item or
\* its trail (inventory.go:229).
THEOREM DeletionsAreFinal == Spec => DeletedIsFinal
<1>1. StockProofs!Spec => StockProofs!DeletedIsFinal
  BY StockIsInventory, StockProofs!DeletionIsFinal
<1>2. [\A i \in StockItem : stock[i].state = "deleted" =>
         stock'[i] = stock[i] /\ trail'[i] = trail[i]]_(StockProofs!rows)
      => [\A i \in StockItem : stock[i].state = "deleted" =>
            stock'[i] = stock[i] /\ trail'[i] = trail[i]]_(Stock!rows)
  BY DEF StockProofs!rows, Stock!rows
<1>3. StockProofs!DeletedIsFinal => DeletedIsFinal
  BY <1>2, PTL DEF StockProofs!DeletedIsFinal, DeletedIsFinal, Stock!DeletedIsFinal
<1> QED
  BY <1>1, <1>3, StockOfOffice, PTL

=============================================================================
