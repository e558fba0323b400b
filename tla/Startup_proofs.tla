--------------------------- MODULE Startup_proofs ---------------------------
(***************************************************************************)
(* Theorems about Startup, for any number of instances, migrations and     *)
(* crashes.  The schema: an instance never tries a migration whose         *)
(* predecessors are not all applied, for the version it has read, however  *)
(* old, was applied when it read it and nothing is ever taken back.  The   *)
(* owner: whoever has counted none holds the advisory lock.  The version:  *)
(* two that are past the content of their migrations would have inserted   *)
(* one row, and whoever is late is refused there, or by its own content.   *)
(* All together implement module Deployment.                               *)
(***************************************************************************)
EXTENDS Startup, NaturalsInduction, WellFoundedInduction, FiniteSetTheorems, TLAPS

-----------------------------------------------------------------------------
(* The smallest of some versions                                           *)

\* A set of numbers that is not empty has a smallest member, and Min is it.
LEMMA MinIsSmallest ==
    ASSUME NEW S \in SUBSET Nat, S # {}
    PROVE  Min(S) \in S /\ \A n \in S : Min(S) <= n
<1> DEFINE Less == OpToRel(<, Nat)
<1>1. IsWellFoundedOn(Less, Nat)
  BY NatLessThanWellFounded
<1>2. \A n, m \in Nat : n < m => <<n, m>> \in Less
  BY DEF OpToRel
<1> HIDE DEF Less
<1>3. \E m \in S : \A n \in S : ~(<<n, m>> \in Less)
  BY <1>1, WFMin
<1>4. \E m \in S : \A n \in S : m <= n
  <2>1. PICK m \in S : \A n \in S : ~(<<n, m>> \in Less)
    BY <1>3
  <2>2. \A n \in S : ~(n < m)
    BY <1>2, <2>1
  <2>3. \A n \in S : n \in Nat /\ m \in Nat
    OBVIOUS
  <2> QED
    BY <2>2, <2>3
<1> QED
  BY <1>4 DEF Min

\* The file that follows a version, and when there is none.
LEMMA NextFile ==
    ASSUME NEW v \in 0 .. Latest
    PROVE  /\ NextAfter(v).step \in {"seed", "clear"}
           /\ NextAfter(v).step = "seed" => NextAfter(v).version = 0 /\ v = Latest
           /\ NextAfter(v).step = "clear" =>
                NextAfter(v).version \in Migration /\ NextAfter(v).version = v + 1
<1> USE StartupAssumptions
<1>1. CASE Pending(v) = {}
  <2>1. v = Latest
    <3>1. ~(v < Latest)
      BY <1>1, v + 1 \in 1 .. Latest => v + 1 \in Pending(v) DEF Pending, Migration
    <3> QED
      BY <3>1
  <2> QED
    BY <1>1, <2>1 DEF NextAfter
<1>2. CASE Pending(v) # {}
  <2>1. Min(Pending(v)) \in Pending(v) /\ \A n \in Pending(v) : Min(Pending(v)) <= n
    BY <1>2, MinIsSmallest, Pending(v) \in SUBSET Nat DEF Pending, Migration
  <2>2. v + 1 \in Pending(v)
    BY <2>1 DEF Pending, Migration
  <2>3. Min(Pending(v)) = v + 1 /\ Min(Pending(v)) \in Migration
    BY <2>1, <2>2 DEF Pending, Migration
  <2> QED
    BY <1>2, <2>3 DEF NextAfter
<1> QED
  BY <1>1, <1>2

-----------------------------------------------------------------------------
(* Types                                                                   *)

Migrating == {"clear", "clearRow", "insert", "content", "clean", "commit"}

\* Whoever runs a migration has one, and whoever does not has deleted nothing.
Underway ==
    \A i \in Instance :
        /\ pc[i] \in Migrating => tx[i].next # 0
        /\ pc[i] \notin Migrating \ {"clear"} => tx[i].deleted = {}

TypeInv == TypeOK /\ Underway

\* The initial rows and local variables have their types.
LEMMA InitType == Init => TypeInv
<1> SUFFICES ASSUME Init PROVE TypeInv
  OBVIOUS
<1> USE StartupAssumptions
<1>1. NoTx \in LocalState
  BY DEF NoTx, LocalState
<1>2. deployed \in 0 .. Latest /\ rows \subseteq Migration /\ applied \subseteq Migration
  BY DEF Init, Migration
<1>3. \A i \in Instance : tx[i].deleted = {v \in Migration : rowLock[v] = i}
  BY DEF Init, NoTx
<1>4. /\ deployed \in Deployments /\ table \in BOOLEAN /\ dirty \subseteq rows
      /\ plan \in {"absent", "default", "edited"} /\ owners \in Nat
      /\ rowLock \in [Migration -> Instance \cup {Nobody}]
      /\ bootLock \in Instance \cup {Nobody}
      /\ pc \in [Instance -> Statement] /\ tx \in [Instance -> LocalState]
      /\ crashes \in 0 .. MaxCrashes
  BY <1>1 DEF Init, Statement
<1> QED
  BY <1>2, <1>3, <1>4 DEF TypeInv, TypeOK, Underway, Init, NoTx, Migrating

\* A process that stops leaves neither locks nor half a transaction.
LEMMA StopType ==
    ASSUME TypeInv, NEW i \in Instance, Stop(i), crashes' \in 0 .. MaxCrashes
    PROVE  TypeInv'
<1> USE StartupAssumptions DEF TypeInv
<1>1. NoTx \in LocalState /\ NoTx.deleted = {}
  BY DEF NoTx, LocalState
<1>2. \A j \in Instance : tx'[j].deleted = {v \in Migration : rowLock'[v] = j}
  BY <1>1 DEF Stop, Local, Released, TypeOK
<1>3. rowLock' \in [Migration -> Instance \cup {Nobody}] /\ bootLock' \in Instance \cup {Nobody}
  BY DEF Stop, Released, TypeOK
<1>4. pc' \in [Instance -> Statement] /\ tx' \in [Instance -> LocalState] /\ Underway'
  BY <1>1 DEF Stop, Goto, Local, TypeOK, Underway, Migrating, Statement
<1> QED
  BY <1>2, <1>3, <1>4 DEF Stop, TypeOK, schema, data

\* A statement that touches neither rows nor locks.
LEMMA LocalType ==
    ASSUME TypeInv, NEW i \in Instance, UNCHANGED <<schema, data, rowLock>>,
           bootLock' \in Instance \cup {Nobody}, crashes' = crashes,
           NEW s \in Statement, Goto(i, s),
           NEW mine \in LocalState, Local(i, mine), mine.deleted = tx[i].deleted,
           s \in Migrating => mine.next # 0,
           s \notin Migrating \ {"clear"} => mine.deleted = {}
    PROVE  TypeInv'
<1> USE StartupAssumptions DEF TypeInv
<1>1. pc' \in [Instance -> Statement] /\ tx' \in [Instance -> LocalState] /\ Underway'
  BY DEF Goto, Local, TypeOK, Underway
<1>2. \A j \in Instance : tx'[j].deleted = tx[j].deleted
  BY DEF Local, TypeOK
<1> QED
  BY <1>1, <1>2 DEF TypeOK, schema, data

\* A statement that only moves on, whatever it does to the data.
LEMMA MoveType ==
    ASSUME TypeInv, NEW i \in Instance, UNCHANGED <<rows, dirty, applied, deployed, rowLock, tx, crashes>>,
           table' \in BOOLEAN, plan' \in {"absent", "default", "edited"}, owners' \in Nat,
           bootLock' \in Instance \cup {Nobody},
           NEW s \in Statement, Goto(i, s),
           s \in Migrating => tx[i].next # 0,
           s \notin Migrating \ {"clear"} => tx[i].deleted = {}
    PROVE  TypeInv'
<1> USE DEF TypeInv
<1>1. pc' \in [Instance -> Statement] /\ Underway'
  BY DEF Goto, TypeOK, Underway
<1> QED
  BY <1>1 DEF TypeOK

\* Every step keeps the types.
LEMMA StepType ==
    ASSUME TypeInv, NEW i \in Instance, Step(i) \/ Start(i) \/ EditPlan(i) \/ Crash(i)
    PROVE  TypeInv'
<1> USE StartupAssumptions DEF TypeInv
<1>0. tx[i] \in LocalState /\ crashes \in 0 .. MaxCrashes
  BY DEF TypeOK
<1>1. CASE FindTable(i) \/ Start(i) \/ LockBootstrap(i)
  <2>1. PICK s \in {"make", "read", "create", "count"} : Goto(i, s)
    BY <1>1 DEF FindTable, Start, LockBootstrap
  <2>2. pc[i] \in {"create", "down", "lock"}
    BY <1>1 DEF FindTable, Start, LockBootstrap, At
  <2>3. s \in Statement /\ s \notin Migrating /\ tx[i].deleted = {}
    BY <2>1, <2>2 DEF Statement, Underway, Migrating
  <2>4. /\ UNCHANGED <<rows, dirty, applied, deployed, table, plan, owners, rowLock, tx, crashes>>
        /\ bootLock' \in Instance \cup {Nobody}
    BY <1>1 DEF FindTable, Start, LockBootstrap, TypeOK, schema, data, locks
  <2> QED
    BY <2>1, <2>3, <2>4, MoveType DEF TypeOK
<1>2. CASE MakeTable(i)
  <2>1. CASE Stop(i)
    BY <1>2, <2>1, <1>0, StopType DEF MakeTable
  <2>2. CASE ~Stop(i)
    <3>1. /\ Goto(i, "read") /\ table' = TRUE
          /\ UNCHANGED <<rows, dirty, applied, deployed, plan, owners, rowLock, bootLock, tx, crashes>>
      BY <1>2, <2>2 DEF MakeTable, data, locks
    <3>2. "read" \in Statement /\ "read" \notin Migrating /\ tx[i].deleted = {}
      BY <1>2 DEF MakeTable, At, Underway, Statement, Migrating
    <3> QED
      BY <3>1, <3>2, MoveType DEF TypeOK
  <2> QED
    BY <2>1, <2>2
<1>3. CASE ReadVersion(i)
  <2>1. CASE Stop(i)
    BY <1>3, <2>1, <1>0, StopType DEF ReadVersion
  <2>2. CASE ~Stop(i)
    <3>0. (IF rows = {} THEN {0} ELSE rows) \subseteq 0 .. Latest
      BY DEF TypeOK, Migration
    <3>1. PICK v \in 0 .. Latest :
            /\ Local(i, [NoTx EXCEPT !.next = NextAfter(v).version])
            /\ Goto(i, NextAfter(v).step)
            /\ UNCHANGED <<schema, data, locks>>
      <4> HIDE DEF TypeInv
      <4> QED
        BY <1>3, <2>2, <3>0 DEF ReadVersion
    <3> DEFINE mine == [NoTx EXCEPT !.next = NextAfter(v).version]
               s == NextAfter(v).step
    <3>2. /\ mine.next \in 0 .. Latest
          /\ s \in {"seed", "clear"}
          /\ s = "clear" => mine.next # 0
      BY NextFile DEF Migration, NoTx
    <3>3. mine \in LocalState /\ mine.deleted = {}
      BY <3>2 DEF NoTx, LocalState
    <3>4. tx[i].deleted = {}
      BY <1>3 DEF ReadVersion, At, Underway, Migrating
    <3>5. /\ s \in Statement
          /\ s \in Migrating => mine.next # 0
      BY <3>2 DEF Statement, Migrating
    <3>6. crashes' = crashes /\ bootLock' \in Instance \cup {Nobody} /\ UNCHANGED <<schema, data, rowLock>>
      BY <1>3, <3>1 DEF ReadVersion, TypeOK, locks
    <3> HIDE DEF mine, s
    <3> QED
      BY <3>1, <3>3, <3>4, <3>5, <3>6, LocalType DEF mine, s
  <2> QED
    BY <2>1, <2>2
<1>4. CASE Clear(i)
  <2> DEFINE mine == [tx[i] EXCEPT !.todo = rows]
  <2>1. mine \in LocalState /\ mine.deleted = tx[i].deleted /\ mine.next # 0 /\ mine.deleted = {}
    BY <1>0, <1>4 DEF Clear, At, LocalState, TypeOK, Underway, Migrating
  <2>2. PICK s \in {"insert", "clearRow"} : Goto(i, s)
    BY <1>4 DEF Clear
  <2>3. /\ Local(i, mine) /\ s \in Statement /\ s \in Migrating
        /\ crashes' = crashes /\ bootLock' \in Instance \cup {Nobody}
        /\ UNCHANGED <<schema, data, rowLock>>
    BY <1>4 DEF Clear, Statement, Migrating, TypeOK, locks
  <2> HIDE DEF mine
  <2> QED
    BY <2>1, <2>2, <2>3, LocalType
<1>5. CASE ClearRow(i)
  <2>1. CASE tx[i].todo = {}
    <3>1. /\ Goto(i, "insert") /\ At(i, "clearRow")
          /\ UNCHANGED <<schema, data, tx, rowLock, bootLock, crashes>>
      BY <1>5, <2>1 DEF ClearRow
    <3>2. "insert" \in Statement /\ "insert" \in Migrating \ {"clear"} /\ tx[i].next # 0
      BY <3>1 DEF At, Underway, Statement, Migrating
    <3> QED
      BY <3>1, <3>2, MoveType DEF TypeOK, schema, data
  <2>2. CASE tx[i].todo # {}
    <3> DEFINE v == Min(tx[i].todo)
               mine == [tx[i] EXCEPT !.todo = @ \ {v}, !.deleted = @ \cup {v}]
    <3>1. v \in Migration
      <4>1. tx[i].todo \in SUBSET Nat /\ tx[i].todo \subseteq Migration
        BY <1>0 DEF LocalState, Migration
      <4> QED
        BY <2>2, <4>1, MinIsSmallest
    <3>2. /\ rowLock[v] = Nobody /\ rowLock' = [rowLock EXCEPT ![v] = i]
          /\ Local(i, mine)
          /\ UNCHANGED <<schema, data, bootLock, crashes>>
      BY <1>5, <2>2 DEF ClearRow
    <3>3. PICK s \in {"insert", "clearRow"} : Goto(i, s)
      BY <1>5, <2>2 DEF ClearRow
    <3>4. At(i, "clearRow")
      BY <1>5 DEF ClearRow
    <3>5. mine \in LocalState /\ mine.next = tx[i].next /\ mine.deleted = tx[i].deleted \cup {v}
      BY <1>0, <3>1 DEF LocalState
    <3> HIDE DEF v, mine
    <3>6. \A j \in Instance : tx'[j].deleted = {w \in Migration : rowLock'[w] = j}
      BY <3>1, <3>2, <3>5 DEF Local, TypeOK
    <3>7. Underway'
      BY <3>2, <3>3, <3>4, <3>5 DEF Local, Goto, At, TypeOK, Underway, Migrating
    <3>8. /\ pc' \in [Instance -> Statement] /\ tx' \in [Instance -> LocalState]
          /\ rowLock' \in [Migration -> Instance \cup {Nobody}]
      BY <3>2, <3>3, <3>5 DEF Local, Goto, TypeOK, Statement
    <3> QED
      BY <3>2, <3>6, <3>7, <3>8 DEF TypeOK, schema, data
  <2> QED
    BY <2>1, <2>2
<1>6. CASE InsertVersion(i)
  <2>1. CASE Stop(i)
    BY <1>6, <2>1, <1>0, StopType DEF InsertVersion
  <2>2. CASE ~Stop(i)
    <3> DEFINE mine == [tx[i] EXCEPT !.inserted = {tx[i].next}, !.dirty = TRUE]
    <3>1. Local(i, mine) /\ Goto(i, "content") /\ UNCHANGED <<schema, data, locks, crashes>>
      BY <1>6, <2>2 DEF InsertVersion
    <3>2. tx[i].next \in Migration
      BY <1>0, <1>6 DEF InsertVersion, At, LocalState, Migration, Underway, Migrating
    <3>3. mine \in LocalState /\ mine.deleted = tx[i].deleted /\ mine.next # 0
      <4>1. mine.deleted = tx[i].deleted /\ mine.next = tx[i].next /\ mine \in LocalState
        BY <1>0, <3>2 DEF LocalState
      <4> QED
        BY <3>2, <4>1 DEF Migration
    <3>4. bootLock' \in Instance \cup {Nobody} /\ UNCHANGED rowLock
      BY <3>1 DEF TypeOK, locks
    <3> HIDE DEF mine
    <3> QED
      BY <3>1, <3>3, <3>4, LocalType DEF Statement, Migrating
  <2> QED
    BY <2>1, <2>2
<1>7. CASE RunContent(i)
  <2>1. CASE Stop(i)
    BY <1>7, <2>1, <1>0, StopType DEF RunContent
  <2>2. CASE ~Stop(i)
    <3> DEFINE mine == [tx[i] EXCEPT !.content = {tx[i].next}]
    <3>1. Local(i, mine) /\ Goto(i, "clean") /\ UNCHANGED <<schema, data, locks, crashes>>
      BY <1>7, <2>2 DEF RunContent
    <3>2. tx[i].next \in Migration
      BY <1>0, <1>7 DEF RunContent, At, LocalState, Migration, Underway, Migrating
    <3>3. mine \in LocalState /\ mine.deleted = tx[i].deleted /\ mine.next # 0
      <4>1. mine.deleted = tx[i].deleted /\ mine.next = tx[i].next /\ mine \in LocalState
        BY <1>0, <3>2 DEF LocalState
      <4> QED
        BY <3>2, <4>1 DEF Migration
    <3>4. bootLock' \in Instance \cup {Nobody} /\ UNCHANGED rowLock
      BY <3>1 DEF TypeOK, locks
    <3> HIDE DEF mine
    <3> QED
      BY <3>1, <3>3, <3>4, LocalType DEF Statement, Migrating
  <2> QED
    BY <2>1, <2>2
<1>8. CASE MarkClean(i)
  <2> DEFINE mine == [tx[i] EXCEPT !.dirty = FALSE]
  <2>1. Local(i, mine) /\ Goto(i, "commit") /\ UNCHANGED <<schema, data, locks, crashes>>
    BY <1>8 DEF MarkClean
  <2>2. mine \in LocalState /\ mine.deleted = tx[i].deleted /\ mine.next # 0
    BY <1>0, <1>8 DEF MarkClean, At, LocalState, Underway, Migrating
  <2>3. bootLock' \in Instance \cup {Nobody} /\ UNCHANGED rowLock
    BY <2>1 DEF TypeOK, locks
  <2> HIDE DEF mine
  <2> QED
    BY <2>1, <2>2, <2>3, LocalType DEF Statement, Migrating
<1>9. CASE CommitMigration(i)
  <2> DEFINE file == NextAfter(tx[i].next)
             mine == [NoTx EXCEPT !.next = file.version]
             next == [j \in Instance |-> IF j = i THEN mine
                                         ELSE [tx[j] EXCEPT !.todo = @ \ tx[i].deleted]]
  <2>1. /\ rows' = (rows \ tx[i].deleted) \cup tx[i].inserted
        /\ dirty' = (dirty \ tx[i].deleted) \cup (IF tx[i].dirty THEN tx[i].inserted ELSE {})
        /\ applied' = applied \cup tx[i].content
        /\ rowLock' = Released(i) /\ tx' = next /\ Goto(i, file.step)
        /\ UNCHANGED <<deployed, table, data, bootLock, crashes>>
    BY <1>9 DEF CommitMigration
  <2>2. /\ file.version \in 0 .. Latest /\ file.step \in {"seed", "clear"}
        /\ file.step = "clear" => file.version # 0
    BY <1>0, NextFile DEF LocalState, Migration
  <2>3. mine \in LocalState /\ mine.deleted = {} /\ mine.next = file.version
    BY <2>2 DEF NoTx, LocalState
  <2>4. \A j \in Instance \ {i} : /\ next[j] \in LocalState /\ next[j].deleted = tx[j].deleted
                                  /\ next[j].next = tx[j].next
    BY DEF TypeOK, LocalState
  <2>5. next[i] = mine
    OBVIOUS
  <2> HIDE DEF mine, next, file
  <2>6. tx' \in [Instance -> LocalState]
    BY <2>1, <2>3, <2>4, <2>5 DEF next
  <2>7. Underway'
    BY <2>1, <2>2, <2>3, <2>4, <2>5 DEF Goto, TypeOK, Underway, Migrating
  <2>8. \A j \in Instance : tx'[j].deleted = {v \in Migration : rowLock'[v] = j}
    BY <2>1, <2>3, <2>4, <2>5 DEF Released, TypeOK
  <2>9. /\ rows' \subseteq Migration /\ dirty' \subseteq rows' /\ applied' \subseteq Migration
    BY <1>0, <2>1 DEF TypeOK, LocalState
  <2>10. /\ rowLock' \in [Migration -> Instance \cup {Nobody}]
         /\ pc' \in [Instance -> Statement]
    BY <2>1, <2>2 DEF Released, Goto, TypeOK, Statement
  <2> QED
    BY <2>1, <2>6, <2>7, <2>8, <2>9, <2>10 DEF TypeOK, data
<1>10. CASE DeadlockVictim(i) \/ Crash(i)
  BY <1>10, <1>0, StopType DEF DeadlockVictim, Crash
<1>11. CASE Seed(i)
  BY <1>11 DEF Seed, SeededValue, At, Goto, TypeOK, Underway, Migrating, Statement, schema, locks
<1>12. CASE EditPlan(i)
  BY <1>12 DEF EditPlan, TypeOK, Underway, schema, locks
<1>13. CASE CountOwners(i)
  <2>1. CASE Stop(i)
    BY <1>13, <2>1, <1>0, StopType DEF CountOwners
  <2>2. CASE ~Stop(i)
    <3>1. PICK s \in {"serving", "create owner"} : Goto(i, s)
      BY <1>13, <2>2 DEF CountOwners
    <3>2. s \in Statement /\ s \notin Migrating /\ tx[i].deleted = {}
      BY <1>13 DEF CountOwners, At, Underway, Statement, Migrating
    <3>3. /\ UNCHANGED <<schema, data, rowLock, tx, crashes>>
          /\ bootLock' \in Instance \cup {Nobody}
      BY <1>13, <2>2 DEF CountOwners, Unlock, TypeOK, locks
    <3> QED
      BY <3>1, <3>2, <3>3, MoveType DEF TypeOK, schema, data
  <2> QED
    BY <2>1, <2>2
<1>14. CASE CreateOwner(i)
  <2> DEFINE mine == [tx[i] EXCEPT !.owner = TRUE]
  <2>1. Local(i, mine) /\ Goto(i, "commit owner") /\ UNCHANGED <<schema, data, locks, crashes>>
    BY <1>14 DEF CreateOwner
  <2>2. mine \in LocalState /\ mine.deleted = tx[i].deleted /\ mine.deleted = {}
    BY <1>0, <1>14 DEF CreateOwner, At, LocalState, Underway, Migrating
  <2>3. bootLock' \in Instance \cup {Nobody} /\ UNCHANGED rowLock
    BY <2>1 DEF TypeOK, locks
  <2> HIDE DEF mine
  <2> QED
    BY <2>1, <2>2, <2>3, LocalType DEF Statement, Migrating
<1>15. CASE CommitOwner(i)
  <2>0. tx[i].deleted = {}
    BY <1>15 DEF CommitOwner, At, Underway, Migrating
  <2>1. NoTx \in LocalState /\ NoTx.deleted = {} /\ tx[i].deleted = {}
    BY <2>0 DEF NoTx, LocalState
  <2>2. tx' \in [Instance -> LocalState] /\ pc' \in [Instance -> Statement] /\ Underway'
    BY <1>15, <2>1 DEF CommitOwner, Goto, Local, TypeOK, Underway, Migrating, Statement
  <2>3. \A j \in Instance : tx'[j].deleted = tx[j].deleted
    <3>1. tx' = [tx EXCEPT ![i] = NoTx] /\ tx \in [Instance -> LocalState]
      BY <1>15 DEF CommitOwner, Local, TypeOK
    <3> QED
      BY <2>1, <3>1
  <2>4. UNCHANGED <<schema, plan, rowLock, crashes>> /\ owners' = owners + 1
    BY <1>15 DEF CommitOwner
  <2>5. bootLock' \in Instance \cup {Nobody}
    BY <1>15 DEF CommitOwner, Unlock, TypeOK
  <2> QED
    BY <2>2, <2>3, <2>4, <2>5 DEF TypeOK, schema
<1> QED
  BY <1>1, <1>2, <1>3, <1>4, <1>5, <1>6, <1>7, <1>8, <1>9, <1>10, <1>11, <1>12, <1>13, <1>14,
     <1>15 DEF Step

-----------------------------------------------------------------------------
(* The platform owner                                                      *)

Bootstrapping == {"count", "create owner", "commit owner"}

\* Whoever is between LockBootstrap and the end of that transaction holds the
\* advisory lock, and what it has counted is still so.
OwnerInv ==
    /\ owners \in {0, 1}
    /\ \A i \in Instance :
         /\ pc[i] \in Bootstrapping => bootLock = i
         /\ pc[i] \in {"create owner", "commit owner"} => owners = 0
         /\ pc[i] = "serving" => owners = 1

\* The statements of the migrations and of the seed reach none of the bootstrap.
LEMMA OwnerElsewhere ==
    ASSUME TypeInv, OwnerInv, NEW i \in Instance,
           pc[i] \notin Bootstrapping, UNCHANGED <<bootLock, owners>>,
           NEW s, s \notin Bootstrapping \cup {"serving"}, Goto(i, s)
    PROVE  OwnerInv'
BY DEF TypeInv, TypeOK, OwnerInv, Bootstrapping, Goto

\* Neither does a process that stops; it gives the lock back.
LEMMA OwnerStopped ==
    ASSUME TypeInv, OwnerInv, NEW i \in Instance, Stop(i)
    PROVE  OwnerInv'
<1>1. \A j \in Instance : bootLock = j /\ j # i => bootLock' = j
  BY DEF Stop
<1>2. pc' = [pc EXCEPT ![i] = "down"] /\ owners' = owners
  BY DEF Stop, Goto, data
<1> QED
  BY <1>1, <1>2 DEF TypeInv, TypeOK, OwnerInv, Bootstrapping

\* Every step of an instance keeps the owner alone.
LEMMA OwnerStep ==
    ASSUME TypeInv, OwnerInv, NEW i \in Instance, Step(i) \/ Start(i) \/ EditPlan(i) \/ Crash(i)
    PROVE  OwnerInv'
<1>0. pc \in [Instance -> Statement] /\ bootLock \in Instance \cup {Nobody}
  BY DEF TypeInv, TypeOK
<1>1. CASE Stop(i)
  BY <1>1, OwnerStopped
<1>2. CASE Start(i)
  BY <1>2, OwnerElsewhere DEF Start, At, Bootstrapping, data, locks
<1>3. CASE FindTable(i)
  BY <1>3, OwnerElsewhere DEF FindTable, At, Bootstrapping, data, locks
<1>4. CASE MakeTable(i) /\ ~Stop(i)
  BY <1>4, OwnerElsewhere DEF MakeTable, At, Bootstrapping, data, locks
<1>5. CASE ReadVersion(i) /\ ~Stop(i)
  <2>1. PICK v \in rows \cup {0} : Goto(i, NextAfter(v).step)
    BY <1>5 DEF ReadVersion
  <2>2. v \in 0 .. Latest
    BY StartupAssumptions, <2>1, rows \subseteq Migration DEF TypeInv, TypeOK, Migration
  <2>3. NextAfter(v).step \in {"seed", "clear"}
    BY <2>2, NextFile
  <2>4. pc[i] \notin Bootstrapping /\ UNCHANGED <<bootLock, owners>>
    BY <1>5 DEF ReadVersion, At, Bootstrapping, data, locks
  <2> QED
    BY <2>1, <2>3, <2>4, OwnerElsewhere DEF Bootstrapping
<1>6. CASE Clear(i)
  BY <1>6, OwnerElsewhere DEF Clear, At, Bootstrapping, data, locks
<1>7. CASE ClearRow(i)
  BY <1>7, OwnerElsewhere DEF ClearRow, At, Bootstrapping, data, locks
<1>8. CASE InsertVersion(i) /\ ~Stop(i)
  BY <1>8, OwnerElsewhere DEF InsertVersion, At, Bootstrapping, data, locks
<1>9. CASE RunContent(i) /\ ~Stop(i)
  BY <1>9, OwnerElsewhere DEF RunContent, At, Bootstrapping, data, locks
<1>10. CASE MarkClean(i)
  BY <1>10, OwnerElsewhere DEF MarkClean, At, Bootstrapping, data, locks
<1>11. CASE CommitMigration(i)
  <2>1. NextAfter(tx[i].next).step \in {"seed", "clear"}
    BY NextFile DEF TypeInv, TypeOK, LocalState
  <2> QED
    BY <1>11, <2>1, OwnerElsewhere DEF CommitMigration, At, Bootstrapping, data
<1>12. CASE Seed(i)
  BY <1>12, OwnerElsewhere DEF Seed, At, Bootstrapping, locks
<1>13. CASE LockBootstrap(i)
  <2>1. \A j \in Instance : pc[j] \notin Bootstrapping
    BY <1>13, StartupAssumptions DEF OwnerInv, LockBootstrap
  <2>2. pc' = [pc EXCEPT ![i] = "count"] /\ bootLock' = i /\ owners' = owners
    BY <1>13 DEF LockBootstrap, Goto, data
  <2> QED
    BY <1>0, <2>1, <2>2 DEF OwnerInv, Bootstrapping
<1>14. CASE CountOwners(i) /\ ~Stop(i)
  <2>1. bootLock = i /\ \A j \in Instance \ {i} : pc[j] \notin Bootstrapping
    BY <1>14 DEF OwnerInv, CountOwners, At, Bootstrapping
  <2>2. CASE owners = 1
    <3>1. pc' = [pc EXCEPT ![i] = "serving"] /\ owners' = owners
      BY <1>14, <2>2 DEF CountOwners, Goto, data
    <3> QED
      BY <1>0, <2>1, <2>2, <3>1 DEF OwnerInv, Bootstrapping
  <2>3. CASE owners = 0
    <3>0. ~(owners > 0)
      BY <2>3
    <3>1. pc' = [pc EXCEPT ![i] = "create owner"] /\ owners' = owners /\ bootLock' = i
      BY <1>14, <2>1, <3>0 DEF CountOwners, Goto, data, locks
    <3> QED
      BY <1>0, <2>1, <2>3, <3>1 DEF OwnerInv, Bootstrapping
  <2> QED
    BY <2>2, <2>3 DEF OwnerInv
<1>15. CASE CreateOwner(i)
  <2>1. bootLock = i /\ owners = 0 /\ \A j \in Instance \ {i} : pc[j] \notin Bootstrapping
    BY <1>15 DEF OwnerInv, CreateOwner, At, Bootstrapping
  <2>2. pc' = [pc EXCEPT ![i] = "commit owner"] /\ owners' = owners /\ bootLock' = bootLock
    BY <1>15 DEF CreateOwner, Goto, data, locks
  <2> QED
    BY <1>0, <2>1, <2>2 DEF OwnerInv, Bootstrapping
<1>16. CASE CommitOwner(i)
  <2>1. owners = 0 /\ \A j \in Instance \ {i} : pc[j] \notin Bootstrapping
    BY <1>16 DEF OwnerInv, CommitOwner, At, Bootstrapping
  <2>2. pc' = [pc EXCEPT ![i] = "serving"]
    BY <1>16 DEF CommitOwner, Goto
  <2>3. owners' = 0 + 1
    BY <1>16, <2>1 DEF CommitOwner
  <2>4. 0 + 1 = 1
    OBVIOUS
  <2> QED
    BY <1>0, <2>1, <2>2, <2>3, <2>4 DEF OwnerInv, Bootstrapping
<1>17. CASE EditPlan(i)
  BY <1>17 DEF EditPlan, OwnerInv, locks
<1> QED
  BY <1>1, <1>2, <1>3, <1>4, <1>5, <1>6, <1>7, <1>8, <1>9, <1>10, <1>11, <1>12, <1>13, <1>14,
     <1>15, <1>16, <1>17 DEF Step, DeadlockVictim, Crash

-----------------------------------------------------------------------------
(* The schema                                                              *)

AfterMigrations == {"seed", "lock", "count", "create owner", "commit owner", "serving"}

\* An instance at statement s with the local variables mine, when the
\* migrations done are applied and plan_features has the value p: the
\* predecessors of its migration are done, what it has written is that
\* migration, and past the migrations all are done.
Sound(s, mine, done, p) ==
    /\ \A w \in Migration : w < mine.next => w \in done
    /\ s \in {"content", "clean", "commit"} => mine.inserted = {mine.next}
    /\ s \in {"clean", "commit"} => mine.content = {mine.next}
    /\ s = "commit" => ~mine.dirty
    /\ s \in AfterMigrations => done = Migration
    /\ s \in AfterMigrations \ {"seed"} => p # "absent"

\* What is applied has all its predecessors applied.
Closed(done) == \A v \in done, w \in Migration : w < v => w \in done

SchemaInv ==
    /\ dirty = {} /\ rows \subseteq applied
    /\ Closed(applied)
    /\ \A i \in Instance : Sound(pc[i], tx[i], applied, plan)

\* A statement that commits no migration.
LEMMA SchemaUntouched ==
    ASSUME TypeInv, SchemaInv, NEW i \in Instance,
           rows' = rows, dirty' = dirty, applied' = applied, plan' = plan \/ plan' # "absent",
           NEW s, Goto(i, s), NEW mine, Local(i, mine), Sound(s, mine, applied, plan')
    PROVE  SchemaInv'
<1>1. /\ pc'[i] = s /\ tx'[i] = mine
      /\ \A j \in Instance \ {i} : pc'[j] = pc[j] /\ tx'[j] = tx[j]
  BY DEF TypeInv, TypeOK, Goto, Local
<1>2. \A j \in Instance : Sound(pc[j], tx[j], applied, plan')
  BY DEF SchemaInv, Sound
<1>3. \A j \in Instance : Sound(pc'[j], tx'[j], applied, plan')
  BY <1>1, <1>2
<1> QED
  BY <1>3 DEF SchemaInv

\* A process that stops leaves the schema as it is.
LEMMA SchemaStopped ==
    ASSUME TypeInv, SchemaInv, NEW i \in Instance, Stop(i)
    PROVE  SchemaInv'
<1>1. \A w \in Migration : ~(w < NoTx.next)
  BY StartupAssumptions DEF NoTx, Migration
<1>2. Sound("down", NoTx, applied, plan')
  BY <1>1 DEF Sound, AfterMigrations
<1>3. /\ UNCHANGED <<rows, dirty, applied, plan>>
      /\ Goto(i, "down") /\ Local(i, NoTx)
  BY DEF Stop, schema, data
<1> QED
  BY <1>2, <1>3, SchemaUntouched

\* A statement that only moves on.
LEMMA SchemaMoved ==
    ASSUME TypeInv, SchemaInv, NEW i \in Instance,
           rows' = rows, dirty' = dirty, applied' = applied, tx' = tx,
           plan' = plan \/ plan' # "absent",
           NEW s \in {"create", "make", "read", "insert"} \cup (AfterMigrations \ {"seed"}), Goto(i, s),
           s \in AfterMigrations => pc[i] \in AfterMigrations /\ plan' # "absent"
    PROVE  SchemaInv'
<1>1. Local(i, tx[i])
  BY DEF TypeInv, TypeOK, Local
<1>2. Sound(pc[i], tx[i], applied, plan)
  BY DEF SchemaInv
<1>3. Sound(s, tx[i], applied, plan')
  BY <1>2 DEF Sound, AfterMigrations
<1> QED
  BY <1>1, <1>3, SchemaUntouched

\* What an instance goes on with when it has found or committed version v.
LEMMA SchemaNext ==
    ASSUME NEW v \in 0 .. Latest, NEW S, \A w \in Migration : w <= v => w \in S, S \subseteq Migration
    PROVE  /\ \A w \in Migration : w < NextAfter(v).version => w \in S
           /\ NextAfter(v).step = "seed" => S = Migration
<1> USE StartupAssumptions
<1>1. CASE NextAfter(v).step = "seed"
  <2>1. NextAfter(v).version = 0 /\ v = Latest
    BY <1>1, NextFile
  <2>2. \A w \in Migration : ~(w < 0) /\ w <= Latest
    BY DEF Migration
  <2> QED
    BY <2>1, <2>2
<1>2. CASE NextAfter(v).step = "clear"
  <2>1. NextAfter(v).version = v + 1
    BY <1>2, NextFile
  <2>2. \A w \in Migration : w < v + 1 => w <= v
    BY DEF Migration
  <2> QED
    BY <1>2, <2>1, <2>2
<1> QED
  BY <1>1, <1>2, NextFile

\* A statement within a migration: it goes on with the same one.
LEMMA SchemaWithin ==
    ASSUME TypeInv, SchemaInv, NEW i \in Instance, UNCHANGED <<schema, data>>,
           NEW s \in Migrating, Goto(i, s),
           NEW mine, Local(i, mine), mine.next = tx[i].next,
           s \in {"content", "clean", "commit"} => mine.inserted = {mine.next},
           s \in {"clean", "commit"} => mine.content = {mine.next},
           s = "commit" => ~mine.dirty
    PROVE  SchemaInv'
<1>1. Sound(pc[i], tx[i], applied, plan)
  BY DEF SchemaInv
<1>2. rows' = rows /\ dirty' = dirty /\ applied' = applied /\ plan' = plan
  BY DEF schema, data
<1>3. Sound(s, mine, applied, plan')
  BY <1>1, <1>2 DEF Sound, Migrating, AfterMigrations
<1> QED
  BY <1>2, <1>3, SchemaUntouched

\* The commit of a migration: no other instance knows less for it.
LEMMA SchemaCommitted ==
    ASSUME TypeInv, SchemaInv, NEW i \in Instance, CommitMigration(i)
    PROVE  SchemaInv'
<1> USE StartupAssumptions
<1> DEFINE m == tx[i].next
           file == NextAfter(m)
           mine == [NoTx EXCEPT !.next = file.version]
           next == [j \in Instance |-> IF j = i THEN mine
                                       ELSE [tx[j] EXCEPT !.todo = @ \ tx[i].deleted]]
           done == applied \cup {m}
<1>1. Sound("commit", tx[i], applied, plan)
  BY DEF CommitMigration, At, SchemaInv
<1>2. tx[i].inserted = {m} /\ tx[i].content = {m} /\ ~tx[i].dirty
  BY <1>1 DEF Sound
<1>3. /\ rows' = (rows \ tx[i].deleted) \cup tx[i].inserted
      /\ dirty' = (dirty \ tx[i].deleted) \cup (IF tx[i].dirty THEN tx[i].inserted ELSE {})
      /\ applied' = applied \cup tx[i].content
      /\ tx' = next /\ Goto(i, file.step) /\ plan' = plan
  BY DEF CommitMigration, data
<1>4. m \in Migration
  BY DEF CommitMigration, At, TypeInv, TypeOK, LocalState, Underway, Migrating, Migration
<1>5. done \subseteq Migration /\ \A w \in Migration : w <= m => w \in done
  <2>1. \A w \in Migration : w < m => w \in applied
    BY <1>1 DEF Sound
  <2>2. \A w \in Migration : w <= m => w < m \/ w = m
    <3>1. \A w, v \in Nat : w <= v => w < v \/ w = v
      OBVIOUS
    <3>2. m \in Nat /\ \A w \in Migration : w \in Nat
      BY <1>4 DEF Migration
    <3> HIDE DEF m
    <3> QED
      BY <3>1, <3>2
  <2>3. applied \subseteq Migration
    BY DEF TypeInv, TypeOK
  <2> QED
    BY <1>4, <2>1, <2>2, <2>3
<1>6. /\ \A w \in Migration : w < file.version => w \in done
      /\ file.step = "seed" => done = Migration
      /\ file.step \in {"seed", "clear"}
  <2>1. m \in 0 .. Latest
    BY <1>4 DEF Migration
  <2> HIDE DEF m, done, mine, next
  <2>2. file.step \in {"seed", "clear"}
    BY <2>1, NextFile
  <2> QED
    BY <1>5, <2>1, <2>2, SchemaNext
<1>7. mine.next = file.version
  BY DEF NoTx
<1>8. /\ next[i] = mine
      /\ \A j \in Instance \ {i} : /\ next[j].next = tx[j].next /\ next[j].dirty = tx[j].dirty
                                   /\ next[j].inserted = tx[j].inserted
                                   /\ next[j].content = tx[j].content
  BY DEF TypeInv, TypeOK, LocalState
<1>9. pc'[i] = file.step /\ \A j \in Instance \ {i} : pc'[j] = pc[j]
  BY <1>3 DEF Goto, TypeInv, TypeOK
<1> HIDE DEF mine, next, file, m
<1>10. Sound(pc'[i], next[i], done, plan)
  BY <1>6, <1>7, <1>8, <1>9 DEF Sound, AfterMigrations
<1>11. \A j \in Instance \ {i} : Sound(pc[j], tx[j], done, plan)
  <2>1. \A j \in Instance : Sound(pc[j], tx[j], applied, plan)
    BY DEF SchemaInv
  <2>2. applied \subseteq done /\ done \subseteq Migration
    BY <1>5
  <2> HIDE DEF done
  <2> QED
    BY <2>1, <2>2 DEF Sound
<1>12. \A j \in Instance \ {i} : Sound(pc'[j], next[j], done, plan)
  BY <1>8, <1>9, <1>11 DEF Sound
<1>13. Closed(done)
  <2>1. Closed(applied) /\ \A w \in Migration : w < m => w \in applied
    BY <1>1 DEF Sound, SchemaInv, m
  <2> QED
    BY <2>1 DEF Closed
<1>14. dirty' = {} /\ rows' \subseteq done
  BY <1>2, <1>3 DEF SchemaInv
<1>15. applied' = done /\ tx' = next /\ plan' = plan
  BY <1>2, <1>3
<1> QED
  BY <1>10, <1>12, <1>13, <1>14, <1>15 DEF SchemaInv

\* Every step of an instance keeps the schema sound.
LEMMA SchemaStep ==
    ASSUME TypeInv, SchemaInv, NEW i \in Instance, Step(i) \/ Start(i) \/ EditPlan(i) \/ Crash(i)
    PROVE  SchemaInv'
<1>1. CASE Stop(i)
  BY <1>1, SchemaStopped
<1>2. CASE Start(i)
  BY <1>2, SchemaMoved DEF Start, AfterMigrations, schema, data
<1>3. CASE FindTable(i)
  BY <1>3, SchemaMoved DEF FindTable, AfterMigrations, schema, data
<1>4. CASE MakeTable(i) /\ ~Stop(i)
  BY <1>4, SchemaMoved DEF MakeTable, AfterMigrations, data
<1>5. CASE ReadVersion(i) /\ ~Stop(i)
  <2>1. PICK v \in rows \cup {0} :
          /\ Local(i, [NoTx EXCEPT !.next = NextAfter(v).version])
          /\ Goto(i, NextAfter(v).step)
    BY <1>5 DEF ReadVersion
  <2>2. UNCHANGED <<rows, dirty, applied, plan>>
    BY <1>5 DEF ReadVersion, schema, data
  <2>3. v \in 0 .. Latest /\ \A w \in Migration : w <= v => w \in applied
    <3>1. applied \subseteq Migration /\ rows \subseteq applied /\ Closed(applied)
      BY DEF TypeInv, TypeOK, SchemaInv
    <3>2. CASE v = 0
      BY <3>2, StartupAssumptions DEF Migration
    <3>3. CASE v # 0
      <4>1. v \in applied /\ v \in Migration
        BY <2>1, <3>1, <3>3
      <4>2. \A w \in Migration : w <= v => w < v \/ w = v
        BY <4>1, StartupAssumptions DEF Migration
      <4>3. v \in 0 .. Latest
        BY <4>1, StartupAssumptions DEF Migration
      <4> QED
        BY <3>1, <4>1, <4>2, <4>3 DEF Closed
    <3> QED
      BY <3>2, <3>3
  <2> DEFINE file == NextAfter(v)
             mine == [NoTx EXCEPT !.next = file.version]
  <2>4. /\ \A w \in Migration : w < file.version => w \in applied
        /\ file.step = "seed" => applied = Migration
        /\ file.step \in {"seed", "clear"}
    <3>1. applied \subseteq Migration
      BY DEF TypeInv, TypeOK
    <3> QED
      BY <2>3, <3>1, SchemaNext, NextFile
  <2>5. mine.next = file.version
    BY DEF NoTx
  <2>6. Local(i, mine) /\ Goto(i, file.step)
    BY <2>1
  <2> HIDE DEF mine, file
  <2>7. Sound(file.step, mine, applied, plan')
    BY <2>4, <2>5 DEF Sound, AfterMigrations
  <2> QED
    BY <2>2, <2>6, <2>7, SchemaUntouched
<1>6. CASE Clear(i)
  <2> DEFINE mine == [tx[i] EXCEPT !.todo = rows]
  <2>1. mine.next = tx[i].next
    BY DEF TypeInv, TypeOK, LocalState
  <2>2. PICK s \in {"insert", "clearRow"} : Goto(i, s)
    BY <1>6 DEF Clear
  <2>3. Local(i, mine) /\ s \in Migrating /\ UNCHANGED <<schema, data>>
    BY <1>6 DEF Clear, Migrating
  <2> HIDE DEF mine
  <2> QED
    BY <2>1, <2>2, <2>3, SchemaWithin
<1>7. CASE ClearRow(i)
  <2>1. CASE tx[i].todo = {}
    BY <1>7, <2>1, SchemaMoved DEF ClearRow, AfterMigrations, schema, data
  <2>2. CASE tx[i].todo # {}
    <3> DEFINE w == Min(tx[i].todo)
               mine == [tx[i] EXCEPT !.todo = @ \ {w}, !.deleted = @ \cup {w}]
    <3>1. mine.next = tx[i].next
      BY DEF TypeInv, TypeOK, LocalState
    <3>2. PICK s \in {"insert", "clearRow"} : Goto(i, s)
      BY <1>7, <2>2 DEF ClearRow
    <3>3. Local(i, mine) /\ s \in Migrating /\ UNCHANGED <<schema, data>>
      BY <1>7, <2>2 DEF ClearRow, Migrating
    <3> HIDE DEF mine
    <3> QED
      BY <3>1, <3>2, <3>3, SchemaWithin
  <2> QED
    BY <2>1, <2>2
<1>8. CASE InsertVersion(i) /\ ~Stop(i)
  <2> DEFINE mine == [tx[i] EXCEPT !.inserted = {tx[i].next}, !.dirty = TRUE]
  <2>1. mine.next = tx[i].next /\ mine.inserted = {tx[i].next}
    BY DEF TypeInv, TypeOK, LocalState
  <2>2. Local(i, mine) /\ Goto(i, "content") /\ UNCHANGED <<schema, data>>
    BY <1>8 DEF InsertVersion
  <2> HIDE DEF mine
  <2> QED
    BY <2>1, <2>2, SchemaWithin DEF Migrating
<1>9. CASE RunContent(i) /\ ~Stop(i)
  <2> DEFINE mine == [tx[i] EXCEPT !.content = {tx[i].next}]
  <2>0. Sound("content", tx[i], applied, plan)
    BY <1>9 DEF RunContent, At, SchemaInv
  <2>1. /\ mine.next = tx[i].next /\ mine.content = {tx[i].next}
        /\ mine.inserted = {tx[i].next}
    BY <2>0 DEF TypeInv, TypeOK, LocalState, Sound
  <2>2. Local(i, mine) /\ Goto(i, "clean") /\ UNCHANGED <<schema, data>>
    BY <1>9 DEF RunContent
  <2> HIDE DEF mine
  <2> QED
    BY <2>1, <2>2, SchemaWithin DEF Migrating
<1>10. CASE MarkClean(i)
  <2> DEFINE mine == [tx[i] EXCEPT !.dirty = FALSE]
  <2>0. Sound("clean", tx[i], applied, plan)
    BY <1>10 DEF MarkClean, At, SchemaInv
  <2>1. /\ mine.next = tx[i].next /\ mine.content = {tx[i].next}
        /\ mine.inserted = {tx[i].next} /\ ~mine.dirty
    BY <2>0 DEF TypeInv, TypeOK, LocalState, Sound
  <2>2. Local(i, mine) /\ Goto(i, "commit") /\ UNCHANGED <<schema, data>>
    BY <1>10 DEF MarkClean
  <2> HIDE DEF mine
  <2> QED
    BY <2>1, <2>2, SchemaWithin DEF Migrating
<1>11. CASE CommitMigration(i)
  BY <1>11, SchemaCommitted
<1>12. CASE Seed(i)
  BY <1>12, SchemaMoved DEF Seed, SeededValue, At, AfterMigrations, schema, locks
<1>13. CASE EditPlan(i)
  <2>1. pc[i] = "serving" /\ Goto(i, "serving") /\ tx' = tx /\ plan' # "absent"
        /\ UNCHANGED <<rows, dirty, applied>>
    BY <1>13 DEF EditPlan, At, Goto, TypeInv, TypeOK, schema
  <2> QED
    BY <2>1, SchemaMoved DEF AfterMigrations
<1>14. CASE LockBootstrap(i)
  <2>1. plan # "absent" \/ pc[i] = "lock"
    BY <1>14 DEF LockBootstrap, At
  <2>2. Sound("lock", tx[i], applied, plan)
    BY <1>14 DEF LockBootstrap, At, SchemaInv
  <2> QED
    BY <1>14, <2>2, SchemaMoved DEF LockBootstrap, At, Sound, AfterMigrations, schema, data
<1>15. CASE CountOwners(i) /\ ~Stop(i)
  <2>1. Sound("count", tx[i], applied, plan) /\ pc[i] = "count"
    BY <1>15 DEF CountOwners, At, SchemaInv
  <2>2. PICK s \in {"serving", "create owner"} : Goto(i, s)
    BY <1>15 DEF CountOwners
  <2>3. UNCHANGED <<rows, dirty, applied, tx, plan>>
    BY <1>15 DEF CountOwners, schema, data
  <2> QED
    BY <2>1, <2>2, <2>3, SchemaMoved DEF Sound, AfterMigrations
<1>16. CASE CreateOwner(i)
  <2> DEFINE mine == [tx[i] EXCEPT !.owner = TRUE]
  <2>1. Sound("create owner", tx[i], applied, plan) /\ mine.next = tx[i].next
    BY <1>16 DEF CreateOwner, At, SchemaInv, TypeInv, TypeOK, LocalState
  <2>2. Local(i, mine) /\ Goto(i, "commit owner") /\ UNCHANGED <<rows, dirty, applied, plan>>
    BY <1>16 DEF CreateOwner, schema, data
  <2> HIDE DEF mine
  <2>3. Sound("commit owner", mine, applied, plan')
    BY <2>1, <2>2 DEF Sound, AfterMigrations
  <2> QED
    BY <2>2, <2>3, SchemaUntouched
<1>17. CASE CommitOwner(i)
  <2>1. Sound("commit owner", tx[i], applied, plan)
    BY <1>17 DEF CommitOwner, At, SchemaInv
  <2>2. Local(i, NoTx) /\ Goto(i, "serving") /\ UNCHANGED <<rows, dirty, applied, plan>>
    BY <1>17 DEF CommitOwner, schema
  <2>3. \A w \in Migration : ~(w < NoTx.next)
    BY StartupAssumptions DEF NoTx, Migration
  <2>4. Sound("serving", NoTx, applied, plan')
    BY <2>1, <2>2, <2>3 DEF Sound, AfterMigrations
  <2> QED
    BY <2>2, <2>4, SchemaUntouched
<1> QED
  BY <1>1, <1>2, <1>3, <1>4, <1>5, <1>6, <1>7, <1>8, <1>9, <1>10, <1>11, <1>12, <1>13, <1>14,
     <1>15, <1>16, <1>17 DEF Step, DeadlockVictim, Crash

\* What the theorems about the schema rest on; ServesWhenReady needs the owner too.
StartupInv == TypeInv /\ OwnerInv /\ SchemaInv

LEMMA StartupInvariant == Spec => []StartupInv
<1>1. Init => StartupInv
  <2> SUFFICES ASSUME Init PROVE StartupInv
    OBVIOUS
  <2>1. OwnerInv
    BY DEF Init, OwnerInv, Bootstrapping
  <2>2. \A i \in Instance : pc[i] = "create" /\ tx[i] = NoTx
    BY DEF Init
  <2>3. \A w \in Migration : ~(w < NoTx.next)
    BY StartupAssumptions DEF NoTx, Migration
  <2>4. \A i \in Instance : Sound(pc[i], tx[i], applied, plan)
    BY <2>2, <2>3 DEF Sound, AfterMigrations
  <2>5. applied = 1 .. deployed /\ rows = {deployed} \ {0} /\ dirty = {} /\ deployed \in 0 .. Latest
    BY StartupAssumptions DEF Init
  <2>6. rows \subseteq applied /\ Closed(applied)
    BY <2>5, StartupAssumptions DEF Closed, Migration
  <2> QED
    BY <2>1, <2>4, <2>5, <2>6, InitType DEF StartupInv, SchemaInv
<1>2. StartupInv /\ [Next]_vars => StartupInv'
  <2> SUFFICES ASSUME StartupInv, [Next]_vars PROVE StartupInv'
    OBVIOUS
  <2>1. CASE Next
    BY <2>1, StepType, OwnerStep, SchemaStep DEF Next, StartupInv
  <2>2. CASE UNCHANGED vars
    <3>1. TypeInv' /\ OwnerInv'
      BY <2>2 DEF vars, schema, data, locks, StartupInv, TypeInv, TypeOK, Underway, OwnerInv
    <3>2. SchemaInv'
      BY <2>2 DEF vars, schema, data, locks, StartupInv, SchemaInv
    <3> QED
      BY <3>1, <3>2 DEF StartupInv
  <2> QED
    BY <2>1, <2>2
<1> QED
  BY <1>1, <1>2, PTL DEF Spec

\* Rows, locks and local variables keep their types.
THEOREM TypeCorrect == Spec => []TypeOK
<1>1. StartupInv => TypeOK
  BY DEF StartupInv, TypeInv
<1> QED
  BY <1>1, StartupInvariant, PTL

\* However many instances start on a new database, they create one owner.
THEOREM OneOwner == Spec => []AtMostOneOwner
<1>1. StartupInv => AtMostOneOwner
  BY 0 <= 1, 1 <= 1 DEF StartupInv, OwnerInv, AtMostOneOwner
<1> QED
  BY <1>1, StartupInvariant, PTL

\* A set of migrations that has, with each of them, all before it is an
\* interval from the first one.
LEMMA ClosedIsPrefix ==
    ASSUME NEW S \in SUBSET Migration, Closed(S)
    PROVE  \E k \in 0 .. Latest : S = 1 .. k
<1> USE StartupAssumptions
<1>1. CASE S = Migration
  <2>1. Latest \in 0 .. Latest /\ S = 1 .. Latest
    BY <1>1 DEF Migration
  <2> QED
    BY <2>1
<1>2. CASE S # Migration
  <2> DEFINE Rest == Migration \ S
             first == Min(Rest)
  <2>1. Rest \in SUBSET Nat /\ Rest # {}
    <3>1. Migration \subseteq Nat
      BY DEF Migration
    <3> QED
      BY <1>2, <3>1
  <2>2. first \in Rest /\ \A n \in Rest : first <= n
    BY <2>1, MinIsSmallest
  <2> HIDE DEF Rest, first
  <2>3. first \in 1 .. Latest /\ first \notin S
    BY <2>2 DEF Rest, Migration
  <2>4. \A n \in Migration : n < first => n \in S
    <3>1. \A n \in Migration : n \in Nat /\ first \in Nat
      BY <2>3 DEF Migration
    <3> QED
      BY <2>2, <3>1 DEF Rest
  <2>5. \A n \in S : n < first
    <3>1. \A n \in S : n \in Migration /\ n # first /\ ~(first < n)
      BY <2>3 DEF Closed, Migration
    <3> QED
      BY <2>3, <3>1 DEF Migration
  <2>6. first - 1 \in 0 .. Latest
    BY <2>3
  <2>7. \A n \in S : n \in 1 .. (first - 1)
    BY <2>3, <2>5 DEF Migration
  <2>8. \A n \in 1 .. (first - 1) : n \in S
    <3>1. \A n \in 1 .. (first - 1) : n \in Migration /\ n < first
      BY <2>3 DEF Migration
    <3> QED
      BY <2>4, <3>1
  <2> QED
    BY <2>6, <2>7, <2>8
<1> QED
  BY <1>1, <1>2

\* No version is ahead of the schema and none is dirty, whatever crashes.
THEOREM SchemaSound == Spec => []SchemaMatchesVersion
<1>1. StartupInv => SchemaMatchesVersion
  <2> SUFFICES ASSUME StartupInv PROVE SchemaMatchesVersion
    OBVIOUS
  <2>1. applied \in SUBSET Migration /\ Closed(applied) /\ rows \subseteq applied /\ dirty = {}
    BY DEF StartupInv, TypeInv, TypeOK, SchemaInv
  <2>2. PICK k \in 0 .. Latest : applied = 1 .. k
    BY <2>1, ClosedIsPrefix
  <2>3. \A v \in rows : v <= k
    BY <2>1, <2>2
  <2> QED
    BY <2>1, <2>2, <2>3 DEF SchemaMatchesVersion
<1> QED
  BY <1>1, StartupInvariant, PTL

\* Who serves has the schema, the plans and an owner.
THEOREM ReadyToServe == Spec => []ServesWhenReady
<1>1. StartupInv => ServesWhenReady
  <2> SUFFICES ASSUME StartupInv, NEW i \in Instance, pc[i] = "serving"
               PROVE  applied = Migration /\ owners > 0 /\ plan # "absent"
    BY DEF ServesWhenReady, At
  <2>1. Sound("serving", tx[i], applied, plan) /\ owners = 1
    BY DEF StartupInv, SchemaInv, OwnerInv
  <2> QED
    BY <2>1 DEF Sound, AfterMigrations
<1> QED
  BY <1>1, StartupInvariant, PTL

-----------------------------------------------------------------------------
(* One row, and it never falls                                             *)

Inserting == {"content", "clean", "commit"}

\* An instance at statement s with the local variables mine, when the
\* migrations done are applied and schema_migrations has the rows there: its
\* migration is one of this release; if nobody has applied it yet, it has
\* deleted what rows there are, or is about to; and past its content nobody has.
Fresh(s, mine, done, there) ==
    /\ s \in Migrating => mine.next > deployed
    /\ s \in {"clean", "commit"} => mine.next \notin done
    /\ s \in {"insert"} \cup Inserting /\ mine.next \notin done => there \subseteq mine.deleted
    /\ s = "clearRow" /\ mine.next \notin done => there \subseteq mine.deleted \cup mine.todo
    /\ s \notin Inserting => mine.inserted = {}

\* The one row is the last migration applied, and no two insert one version.
OneRow ==
    /\ 1 .. deployed \subseteq applied
    /\ applied # {} => rows # {}
    /\ \A v \in rows, w \in applied : w <= v
    /\ \A i \in Instance : Fresh(pc[i], tx[i], applied, rows)
    /\ \A i, j \in Instance : i # j => tx[i].inserted \cap tx[j].inserted = {}

VersionInv == NoRepeatable => OneRow

\* A statement that commits no migration.
LEMMA RowUntouched ==
    ASSUME TypeInv, OneRow, NEW i \in Instance, UNCHANGED <<deployed, rows, applied>>,
           NEW s, Goto(i, s), NEW mine, Local(i, mine), Fresh(s, mine, applied, rows),
           \A j \in Instance \ {i} : mine.inserted \cap tx[j].inserted = {}
    PROVE  OneRow'
<1>1. /\ pc'[i] = s /\ tx'[i] = mine
      /\ \A j \in Instance \ {i} : pc'[j] = pc[j] /\ tx'[j] = tx[j]
  BY DEF TypeInv, TypeOK, Goto, Local
<1>2. \A j \in Instance : Fresh(pc[j], tx[j], applied, rows)'
  <2>1. Fresh(s, mine, applied, rows)' = Fresh(s, mine, applied, rows)
    BY DEF Fresh
  <2> QED
    BY <1>1 DEF Fresh, OneRow
<1>3. \A j, k \in Instance : j # k => tx'[j].inserted \cap tx'[k].inserted = {}
  BY <1>1 DEF OneRow
<1> QED
  BY <1>2, <1>3 DEF OneRow

\* One that inserts no row and goes on past the migration, or has not begun one.
LEMMA RowLeft ==
    ASSUME TypeInv, OneRow, NEW i \in Instance, UNCHANGED <<deployed, rows, applied>>,
           NEW s, Goto(i, s), s \notin Migrating \ {"clear"},
           NEW mine, Local(i, mine), mine.inserted = {},
           s = "clear" => mine.next > deployed
    PROVE  OneRow'
<1>1. Fresh(s, mine, applied, rows)
  BY DEF Fresh, Migrating, Inserting
<1> QED
  BY <1>1, RowUntouched

\* A process that stops.
LEMMA RowStopped ==
    ASSUME TypeInv, OneRow, NEW i \in Instance, Stop(i)
    PROVE  OneRow'
<1>1. UNCHANGED <<deployed, rows, applied>> /\ Goto(i, "down") /\ Local(i, NoTx)
  BY DEF Stop, schema
<1>2. NoTx.inserted = {}
  BY DEF NoTx
<1> QED
  BY <1>1, <1>2, RowLeft DEF Migrating

\* A statement of an instance that runs no migration.
LEMMA RowElsewhere ==
    ASSUME TypeInv, OneRow, NEW i \in Instance, UNCHANGED <<deployed, rows, applied>>,
           pc[i] \notin Migrating, NEW s, Goto(i, s), s \notin Migrating,
           NEW mine, Local(i, mine), mine.inserted = tx[i].inserted
    PROVE  OneRow'
<1>1. tx[i].inserted = {}
  BY DEF OneRow, Fresh, Migrating, Inserting
<1> QED
  BY <1>1, RowLeft DEF Migrating

\* What an instance goes on with after a version of this release.
LEMMA RowNext ==
    ASSUME NEW v \in 0 .. Latest, v >= deployed, deployed \in Nat
    PROVE  NextAfter(v).step = "clear" => NextAfter(v).version > deployed
<1>1. CASE NextAfter(v).step = "clear"
  <2>1. NextAfter(v).version = v + 1
    BY <1>1, NextFile
  <2>2. v + 1 > deployed
    BY StartupAssumptions
  <2> QED
    BY <2>1, <2>2
<1> QED
  BY <1>1

\* Whoever runs a migration of this release has it, and all before it are done.
LEMMA MigrationUnderway ==
    ASSUME TypeInv, SchemaInv, NEW i \in Instance, pc[i] \in Migrating
    PROVE  /\ tx[i].next \in Migration /\ tx[i].next \in Nat
           /\ \A w \in Migration : w < tx[i].next => w \in applied
           /\ applied \subseteq Migration /\ rows \subseteq Migration /\ rows \subseteq applied
           /\ tx[i] \in LocalState /\ deployed \in Nat /\ Migration \subseteq Nat
<1> USE StartupAssumptions
<1>1. tx[i] \in LocalState /\ tx[i].next # 0 /\ deployed \in Deployments
      /\ applied \subseteq Migration /\ rows \subseteq Migration
  BY DEF TypeInv, TypeOK, Underway
<1>2. tx[i].next \in Migration /\ tx[i].next \in Nat /\ deployed \in Nat /\ Migration \subseteq Nat
  BY <1>1 DEF LocalState, Migration
<1> QED
  BY <1>1, <1>2 DEF SchemaInv, Sound

\* Two that are past the content of their migrations would have the same one.
LEMMA NobodyElseCommits ==
    ASSUME TypeInv, SchemaInv, OneRow, NEW i \in Instance, NEW j \in Instance, i # j,
           pc[i] \in {"clean", "commit"}, pc[j] \in {"clean", "commit"}
    PROVE  FALSE
<1> DEFINE m == tx[i].next
           n == tx[j].next
<1>1. pc[i] \in Migrating /\ pc[j] \in Migrating
  BY DEF Migrating
<1>2. /\ m \in Migration /\ n \in Migration /\ m \in Nat /\ n \in Nat
      /\ \A w \in Migration : w < m => w \in applied
      /\ \A w \in Migration : w < n => w \in applied
  BY <1>1, MigrationUnderway
<1>3. m \notin applied /\ n \notin applied
  BY DEF OneRow, Fresh
<1>4. tx[i].inserted = {m} /\ tx[j].inserted = {n} /\ tx[i].inserted \cap tx[j].inserted = {}
  BY DEF SchemaInv, Sound, OneRow
<1> HIDE DEF m, n
<1>5. ~(m < n) /\ ~(n < m)
  BY <1>2, <1>3
<1>6. m = n
  BY <1>2, <1>5
<1> QED
  BY <1>4, <1>6

\* The commit of a migration: its version takes the place of all rows, and
\* everybody else is late.
LEMMA RowCommitted ==
    ASSUME TypeInv, SchemaInv, OneRow, NEW i \in Instance, CommitMigration(i)
    PROVE  OneRow'
<1> DEFINE m == tx[i].next
           file == NextAfter(m)
           mine == [NoTx EXCEPT !.next = file.version]
           next == [j \in Instance |-> IF j = i THEN mine
                                       ELSE [tx[j] EXCEPT !.todo = @ \ tx[i].deleted]]
<1>0. pc[i] = "commit" /\ pc[i] \in Migrating
  BY DEF CommitMigration, At, Migrating
<1>1. tx[i].inserted = {m} /\ tx[i].content = {m} /\ m \notin applied
  BY <1>0 DEF SchemaInv, Sound, OneRow, Fresh
<1>2. /\ m \in Migration /\ m \in Nat /\ \A w \in Migration : w < m => w \in applied
      /\ applied \subseteq Migration /\ rows \subseteq applied /\ deployed \in Nat
      /\ Migration \subseteq Nat
  BY <1>0, MigrationUnderway
<1>3. rows \subseteq tx[i].deleted /\ m > deployed
  BY <1>0, <1>1 DEF OneRow, Fresh, Inserting, Migrating
<1>4. /\ rows' = {m} /\ applied' = applied \cup {m} /\ deployed' = deployed
      /\ tx' = next /\ Goto(i, file.step)
  BY <1>1, <1>3 DEF CommitMigration
<1>5. mine.next = file.version /\ mine.inserted = {}
  BY DEF NoTx
<1>6. /\ next[i] = mine
      /\ \A j \in Instance \ {i} : /\ next[j].next = tx[j].next
                                   /\ next[j].inserted = tx[j].inserted
  BY DEF TypeInv, TypeOK, LocalState
<1>7. file.step \in {"seed", "clear"} /\ (file.step = "clear" => file.version > deployed)
  <2>1. m \in 0 .. Latest /\ m >= deployed
    BY <1>2, <1>3, StartupAssumptions DEF Migration
  <2> HIDE DEF m
  <2> QED
    BY <1>2, <2>1, NextFile, RowNext
<1>8. pc'[i] = file.step /\ \A j \in Instance \ {i} : pc'[j] = pc[j]
  BY <1>4 DEF Goto, TypeInv, TypeOK
<1> HIDE DEF mine, next, file
<1>9. \A w \in applied : w < m
  <2>1. \A w \in applied : w # m /\ ~(m < w) /\ w \in Nat
    BY <1>1, <1>2 DEF SchemaInv, Closed
  <2> HIDE DEF m
  <2> QED
    BY <1>2, <2>1
<1>10. Fresh(pc[i], tx[i], applied, rows)'
  BY <1>4, <1>5, <1>6, <1>7, <1>8 DEF Fresh, Migrating, Inserting
<1>11. ASSUME NEW j \in Instance \ {i} PROVE Fresh(pc[j], tx[j], applied, rows)'
  <2>1. pc[j] \notin {"clean", "commit"}
    BY <1>0, NobodyElseCommits
  <2>2. CASE pc[j] \notin Migrating
    BY <1>4, <1>6, <1>8, <2>2 DEF Fresh, OneRow, Migrating, Inserting
  <2>3. CASE pc[j] \in Migrating
    <3>1. /\ tx[j].next \in Migration /\ tx[j].next \in Nat
          /\ \A w \in Migration : w < tx[j].next => w \in applied
      BY <2>3, MigrationUnderway
    <3>2. tx[j].next \in applied \cup {m}
      <4>1. ~(m < tx[j].next)
        BY <1>1, <1>2, <3>1
      <4>2. CASE tx[j].next < m
        BY <1>2, <3>1, <4>2
      <4>3. CASE tx[j].next = m
        BY <4>3
      <4> DEFINE n == tx[j].next
      <4>4. n \in Nat /\ m \in Nat
        BY <1>2, <3>1
      <4>5. n < m \/ n = m \/ m < n
        <5> HIDE DEF n, m
        <5> QED
          BY <4>4
      <4> QED
        BY <4>1, <4>2, <4>3, <4>5
    <3>3. tx'[j].next \in applied' /\ tx'[j].next = tx[j].next /\ tx'[j].inserted = tx[j].inserted
      BY <1>4, <1>6, <3>2
    <3>4. pc'[j] = pc[j] /\ deployed' = deployed
      BY <1>4, <1>8
    <3> QED
      BY <2>1, <3>3, <3>4 DEF Fresh, OneRow
  <2> QED
    BY <2>2, <2>3
<1>12. \A j, k \in Instance : j # k => tx'[j].inserted \cap tx'[k].inserted = {}
  BY <1>4, <1>5, <1>6 DEF OneRow
<1>13. 1 .. deployed' \subseteq applied' /\ rows' # {} /\ \A v \in rows', w \in applied' : w <= v
  <2>1. \A w \in applied : w <= m
    BY <1>2, <1>9
  <2>2. m <= m
    BY <1>2
  <2> HIDE DEF m
  <2> QED
    BY <1>4, <2>1, <2>2 DEF OneRow
<1> QED
  BY <1>10, <1>11, <1>12, <1>13 DEF OneRow

\* Every step of an instance, while no pending migration can be repeated.
LEMMA RowStep ==
    ASSUME TypeInv, SchemaInv, OneRow, NoRepeatable,
           NEW i \in Instance, Step(i) \/ Start(i) \/ EditPlan(i) \/ Crash(i)
    PROVE  OneRow'
<1> USE DEF At
<1>0. tx[i] \in LocalState
  BY DEF TypeInv, TypeOK
<1>f. Fresh(pc[i], tx[i], applied, rows)
  BY DEF OneRow
<1>1. CASE Stop(i)
  BY <1>1, RowStopped
<1>2. CASE Start(i) \/ FindTable(i) \/ (MakeTable(i) /\ ~Stop(i)) \/ Seed(i) \/ LockBootstrap(i)
             \/ (CountOwners(i) /\ ~Stop(i))
  <2>1. /\ pc[i] \notin Migrating /\ tx' = tx /\ UNCHANGED <<deployed, rows, applied>>
        /\ \E s \in Statement \ Migrating : Goto(i, s)
    <3>1. CASE Start(i) \/ FindTable(i)
      BY <3>1 DEF Start, FindTable, Migrating, Statement, schema
    <3>2. CASE MakeTable(i) /\ ~Stop(i)
      BY <3>2 DEF MakeTable, Migrating, Statement
    <3>3. CASE Seed(i) \/ LockBootstrap(i)
      BY <3>3 DEF Seed, LockBootstrap, Migrating, Statement, schema
    <3>4. CASE CountOwners(i) /\ ~Stop(i)
      BY <3>4 DEF CountOwners, Migrating, Statement, schema
    <3> QED
      BY <1>2, <3>1, <3>2, <3>3, <3>4
  <2>2. Local(i, tx[i])
    BY <2>1 DEF Local, TypeInv, TypeOK
  <2> QED
    BY <2>1, <2>2, RowElsewhere
<1>3. CASE EditPlan(i)
  BY <1>3 DEF EditPlan, OneRow, Fresh, schema
<1>4. CASE CreateOwner(i)
  <2> DEFINE mine == [tx[i] EXCEPT !.owner = TRUE]
  <2>1. /\ Local(i, mine) /\ Goto(i, "commit owner") /\ UNCHANGED <<deployed, rows, applied>>
        /\ pc[i] = "create owner"
    BY <1>4 DEF CreateOwner, schema
  <2>2. mine.inserted = tx[i].inserted
    BY <1>0 DEF LocalState
  <2> HIDE DEF mine
  <2> QED
    BY <2>1, <2>2, RowElsewhere DEF Migrating
<1>5. CASE CommitOwner(i)
  <2>1. /\ Local(i, NoTx) /\ Goto(i, "serving") /\ UNCHANGED <<deployed, rows, applied>>
    BY <1>5 DEF CommitOwner, schema
  <2>2. NoTx.inserted = {}
    BY DEF NoTx
  <2> QED
    BY <2>1, <2>2, RowLeft DEF Migrating
<1>6. CASE ReadVersion(i) /\ ~Stop(i)
  <2>1. PICK v \in IF rows = {} THEN {0} ELSE rows :
          /\ Local(i, [NoTx EXCEPT !.next = NextAfter(v).version])
          /\ Goto(i, NextAfter(v).step)
    BY <1>6 DEF ReadVersion
  <2>2. UNCHANGED <<deployed, rows, applied>>
    BY <1>6 DEF ReadVersion, schema
  <2>3. v \in 0 .. Latest /\ v >= deployed /\ deployed \in Nat
    <3>1. deployed \in 0 .. Latest /\ rows \subseteq Migration
      BY StartupAssumptions DEF TypeInv, TypeOK
    <3>2. v \in 0 .. Latest
      BY <2>1, <3>1, StartupAssumptions DEF Migration
    <3>3. deployed # 0 => deployed \in applied
      <4>1. deployed # 0 => deployed \in 1 .. deployed
        BY <3>1
      <4> QED
        BY <4>1 DEF OneRow
    <3>4. deployed # 0 => deployed <= v
      BY <2>1, <3>3 DEF OneRow
    <3> QED
      BY <3>1, <3>2, <3>4, StartupAssumptions
  <2> DEFINE file == NextAfter(v)
             mine == [NoTx EXCEPT !.next = file.version]
  <2>4. mine.next = file.version /\ mine.inserted = {}
    BY DEF NoTx
  <2>5. file.step \in {"seed", "clear"} /\ (file.step = "clear" => file.version > deployed)
    BY <2>3, NextFile, RowNext
  <2>6. Local(i, mine) /\ Goto(i, file.step)
    BY <2>1
  <2> HIDE DEF mine, file
  <2> QED
    BY <2>2, <2>4, <2>5, <2>6, RowLeft DEF Migrating
<1>7. CASE Clear(i)
  <2> DEFINE mine == [tx[i] EXCEPT !.todo = rows]
             s == IF rows = {} THEN "insert" ELSE "clearRow"
  <2>1. mine.next = tx[i].next /\ mine.inserted = tx[i].inserted /\ mine.todo = rows
    BY <1>0 DEF LocalState
  <2>2. /\ Local(i, mine) /\ Goto(i, s) /\ UNCHANGED <<deployed, rows, applied>> /\ pc[i] = "clear"
    BY <1>7 DEF Clear, schema
  <2> HIDE DEF mine
  <2>3. Fresh(s, mine, applied, rows) /\ mine.inserted = {}
    BY <1>f, <2>1, <2>2 DEF Fresh, Migrating, Inserting
  <2> QED
    BY <2>2, <2>3, RowUntouched
<1>8. CASE ClearRow(i)
  <2>1. CASE tx[i].todo = {}
    <3>1. /\ tx' = tx /\ Goto(i, "insert") /\ UNCHANGED <<deployed, rows, applied>>
          /\ pc[i] = "clearRow"
      BY <1>8, <2>1 DEF ClearRow, schema
    <3>2. Local(i, tx[i])
      BY <3>1 DEF Local, TypeInv, TypeOK
    <3>3. Fresh("insert", tx[i], applied, rows) /\ tx[i].inserted = {}
      BY <1>f, <2>1, <3>1 DEF Fresh, Migrating, Inserting
    <3> QED
      BY <3>1, <3>2, <3>3, RowUntouched
  <2>2. CASE tx[i].todo # {}
    <3> DEFINE w == Min(tx[i].todo)
               mine == [tx[i] EXCEPT !.todo = @ \ {w}, !.deleted = @ \cup {w}]
               s == IF tx[i].todo \ {w} = {} THEN "insert" ELSE "clearRow"
    <3>1. /\ mine.next = tx[i].next /\ mine.inserted = tx[i].inserted
          /\ mine.todo = tx[i].todo \ {w} /\ mine.deleted = tx[i].deleted \cup {w}
      BY <1>0 DEF LocalState
    <3>2. /\ Local(i, mine) /\ Goto(i, s) /\ UNCHANGED <<deployed, rows, applied>>
          /\ pc[i] = "clearRow"
      BY <1>8, <2>2 DEF ClearRow, schema
    <3> HIDE DEF mine, w
    <3>3. Fresh(s, mine, applied, rows) /\ mine.inserted = {}
      BY <1>f, <3>1, <3>2 DEF Fresh, Migrating, Inserting
    <3> QED
      BY <3>2, <3>3, RowUntouched
  <2> QED
    BY <2>1, <2>2
<1>9. CASE InsertVersion(i) /\ ~Stop(i)
  <2> DEFINE mine == [tx[i] EXCEPT !.inserted = {tx[i].next}, !.dirty = TRUE]
  <2>1. /\ mine.next = tx[i].next /\ mine.inserted = {tx[i].next} /\ mine.deleted = tx[i].deleted
    BY <1>0 DEF LocalState
  <2>2. /\ Local(i, mine) /\ Goto(i, "content") /\ UNCHANGED <<deployed, rows, applied>>
        /\ pc[i] = "insert" /\ ~Undecided(i, tx[i].next)
    BY <1>9 DEF InsertVersion, schema
  <2> HIDE DEF mine
  <2>3. Fresh("content", mine, applied, rows)
    BY <1>f, <2>1, <2>2 DEF Fresh, Migrating, Inserting
  <2>4. \A j \in Instance \ {i} : mine.inserted \cap tx[j].inserted = {}
    BY <2>1, <2>2 DEF Undecided
  <2> QED
    BY <2>2, <2>3, <2>4, RowUntouched
<1>10. CASE RunContent(i) /\ ~Stop(i)
  <2> DEFINE mine == [tx[i] EXCEPT !.content = {tx[i].next}]
  <2>1. /\ mine.next = tx[i].next /\ mine.inserted = tx[i].inserted /\ mine.deleted = tx[i].deleted
    BY <1>0 DEF LocalState
  <2>2. /\ Local(i, mine) /\ Goto(i, "clean") /\ UNCHANGED <<deployed, rows, applied>>
        /\ pc[i] = "content" /\ (tx[i].next \in applied => tx[i].next \in Idempotent)
    BY <1>10 DEF RunContent, schema
  <2>3. tx[i].next \notin applied
    <3>1. tx[i].next > deployed /\ tx[i].next \in Nat /\ deployed \in Nat
      BY <1>f, <2>2, MigrationUnderway DEF Fresh, Migrating
    <3>2. tx[i].next \in Idempotent => tx[i].next <= deployed
      BY DEF NoRepeatable
    <3> DEFINE n == tx[i].next
    <3>3. ~(n <= deployed)
      <4> HIDE DEF n
      <4> QED
        BY <3>1 DEF n
    <3> QED
      BY <2>2, <3>2, <3>3
  <2> HIDE DEF mine
  <2>4. Fresh("clean", mine, applied, rows)
    BY <1>f, <2>1, <2>2, <2>3 DEF Fresh, Migrating, Inserting
  <2>5. \A j \in Instance \ {i} : mine.inserted \cap tx[j].inserted = {}
    BY <2>1 DEF OneRow
  <2> QED
    BY <2>2, <2>4, <2>5, RowUntouched
<1>11. CASE MarkClean(i)
  <2> DEFINE mine == [tx[i] EXCEPT !.dirty = FALSE]
  <2>1. /\ mine.next = tx[i].next /\ mine.inserted = tx[i].inserted /\ mine.deleted = tx[i].deleted
    BY <1>0 DEF LocalState
  <2>2. /\ Local(i, mine) /\ Goto(i, "commit") /\ UNCHANGED <<deployed, rows, applied>>
        /\ pc[i] = "clean"
    BY <1>11 DEF MarkClean, schema
  <2> HIDE DEF mine
  <2>4. Fresh("commit", mine, applied, rows)
    BY <1>f, <2>1, <2>2 DEF Fresh, Migrating, Inserting
  <2>5. \A j \in Instance \ {i} : mine.inserted \cap tx[j].inserted = {}
    BY <2>1 DEF OneRow
  <2> QED
    BY <2>2, <2>4, <2>5, RowUntouched
<1>12. CASE CommitMigration(i)
  BY <1>12, RowCommitted
<1> QED
  BY <1>1, <1>2, <1>3, <1>4, <1>5, <1>6, <1>7, <1>8, <1>9, <1>10, <1>11, <1>12
     DEF Step, DeadlockVictim, Crash

\* The version found at deployment stays what it was, and nothing is taken back.
LEMMA NothingTakenBack ==
    ASSUME TypeInv, [Next]_vars
    PROVE  deployed' = deployed /\ applied \subseteq applied'
<1>1. ASSUME NEW i \in Instance, Step(i) \/ Start(i) \/ EditPlan(i) \/ Crash(i)
      PROVE  deployed' = deployed /\ applied \subseteq applied'
  <2>1. CASE CommitMigration(i)
    BY <2>1 DEF CommitMigration
  <2>2. CASE ~CommitMigration(i)
    <3>1. CASE Stop(i)
      BY <3>1 DEF Stop, schema
    <3>2. CASE FindTable(i) \/ (MakeTable(i) /\ ~Stop(i)) \/ (ReadVersion(i) /\ ~Stop(i)) \/ Clear(i)
               \/ ClearRow(i) \/ (InsertVersion(i) /\ ~Stop(i))
      BY <3>2 DEF FindTable, MakeTable, ReadVersion, Clear, ClearRow, InsertVersion, schema
    <3>3. CASE (RunContent(i) /\ ~Stop(i)) \/ MarkClean(i) \/ Seed(i) \/ LockBootstrap(i)
               \/ (CountOwners(i) /\ ~Stop(i)) \/ CreateOwner(i) \/ CommitOwner(i)
      BY <3>3 DEF RunContent, MarkClean, Seed, LockBootstrap, CountOwners, CreateOwner,
                  CommitOwner, schema
    <3>4. CASE Start(i) \/ EditPlan(i)
      BY <3>4 DEF Start, EditPlan, schema
    <3> QED
      BY <1>1, <2>2, <3>1, <3>2, <3>3, <3>4 DEF Step, DeadlockVictim, Crash
  <2> QED
    BY <2>1, <2>2
<1>2. CASE UNCHANGED vars
  BY <1>2 DEF vars, schema
<1> QED
  BY <1>1, <1>2 DEF Next

\* The invariant of the versions.
LEMMA VersionInvariant == Spec => []VersionInv
<1>1. Init => VersionInv
  <2> SUFFICES ASSUME Init PROVE OneRow
    BY DEF VersionInv
  <2>1. /\ applied = 1 .. deployed /\ rows = {deployed} \ {0} /\ deployed \in 0 .. Latest
        /\ \A i \in Instance : pc[i] = "create" /\ tx[i] = NoTx
    BY StartupAssumptions DEF Init
  <2>2. applied # {} => rows # {}
    BY <2>1
  <2>3. \A v \in rows, w \in applied : w <= v
    BY <2>1
  <2>4. NoTx.inserted = {}
    BY DEF NoTx
  <2>5. \A i \in Instance : Fresh(pc[i], tx[i], applied, rows)
    BY <2>1, <2>4 DEF Fresh, Migrating, Inserting
  <2> QED
    BY <2>1, <2>2, <2>3, <2>4, <2>5 DEF OneRow
<1>2. StartupInv /\ VersionInv /\ [Next]_vars => VersionInv'
  <2> SUFFICES ASSUME StartupInv, VersionInv, [Next]_vars, NoRepeatable' PROVE OneRow'
    BY DEF VersionInv
  <2>1. NoRepeatable
    BY NothingTakenBack DEF NoRepeatable, StartupInv
  <2>2. OneRow
    BY <2>1 DEF VersionInv
  <2>3. CASE Next
    BY <2>1, <2>2, <2>3, RowStep DEF Next, StartupInv
  <2>4. CASE UNCHANGED vars
    BY <2>2, <2>4 DEF vars, schema, OneRow, Fresh
  <2> QED
    BY <2>3, <2>4
<1> QED
  BY <1>1, <1>2, StartupInvariant, PTL DEF Spec

\* While no pending migration can be applied twice, late instances and crashes
\* leave one row in schema_migrations, and its version never falls.
THEOREM VersionsOnlyGrow == Spec => VersionNeverFalls
<1> DEFINE Kept == NoRepeatable => /\ Cardinality(rows') <= 1
                                   /\ \A v \in rows : \E w \in rows' : w >= v
<1>1. StartupInv /\ StartupInv' /\ VersionInv' /\ [Next]_vars => [Kept]_rows
  <2> SUFFICES ASSUME StartupInv, StartupInv', VersionInv', [Next]_vars, NoRepeatable
               PROVE  /\ Cardinality(rows') <= 1
                      /\ \A v \in rows : \E w \in rows' : w >= v
    OBVIOUS
  <2>1. deployed' = deployed /\ applied \subseteq applied'
    BY NothingTakenBack DEF StartupInv
  <2>2. OneRow'
    BY <2>1 DEF VersionInv, NoRepeatable
  <2>3. /\ rows \subseteq applied /\ rows' \subseteq applied' /\ rows' \subseteq Migration
        /\ applied' \subseteq Migration
    BY DEF StartupInv, SchemaInv, TypeInv, TypeOK
  <2>4. Migration \subseteq Nat
    BY StartupAssumptions DEF Migration
  <2>5. \A v \in rows : \E w \in rows' : w >= v
    <3>1. SUFFICES ASSUME NEW v \in rows PROVE \E w \in rows' : w >= v
      OBVIOUS
    <3>2. v \in applied'
      BY <2>1, <2>3
    <3>3. PICK w \in rows' : TRUE
      BY <2>2, <3>2 DEF OneRow
    <3>4. v <= w /\ v \in Nat /\ w \in Nat
      BY <2>2, <2>3, <2>4, <3>2, <3>3 DEF OneRow
    <3> QED
      BY <3>3, <3>4
  <2>6. Cardinality(rows') <= 1
    <3>1. CASE rows' = {}
      BY <3>1, FS_EmptySet
    <3>2. CASE rows' # {}
      <4>1. PICK w \in rows' : TRUE
        BY <3>2
      <4>2. \A v \in rows' : v = w
        <5>1. \A v \in rows' : v <= w /\ w <= v /\ v \in Nat /\ w \in Nat
          BY <2>2, <2>3, <2>4, <4>1 DEF OneRow
        <5> QED
          BY <5>1
      <4>3. rows' = {w}
        BY <4>1, <4>2
      <4> QED
        BY <4>3, FS_Singleton
    <3> QED
      BY <3>1, <3>2
  <2> QED
    BY <2>5, <2>6
<1>2. VersionNeverFalls <=> [][Kept]_rows
  BY DEF VersionNeverFalls
<1> QED
  BY <1>1, <1>2, StartupInvariant, VersionInvariant, PTL DEF Spec

-----------------------------------------------------------------------------
(* What the starts promise                                                 *)

\* How many migrations are applied, when they are the first ones.
LEMMA HowMany ==
    ASSUME NEW k \in Nat
    PROVE  Cardinality(1 .. k) = k
<1>1. IF 1 > k THEN k = 0 ELSE k - 1 + 1 = k
  OBVIOUS
<1> QED
  BY <1>1, FS_Interval

\* The migrations applied, by their number.
LEMMA Level ==
    ASSUME StartupInv
    PROVE  \E k \in 0 .. Latest : applied = 1 .. k /\ Cardinality(applied) = k
<1>1. applied \in SUBSET Migration /\ Closed(applied)
  BY DEF StartupInv, TypeInv, TypeOK, SchemaInv
<1>2. PICK k \in 0 .. Latest : applied = 1 .. k
  BY <1>1, ClosedIsPrefix
<1>3. k \in Nat
  BY StartupAssumptions
<1> QED
  BY <1>2, <1>3, HowMany

\* Past the migrations all are applied.
LEMMA AllApplied ==
    ASSUME StartupInv, NEW i \in Instance, pc[i] \in AfterMigrations
    PROVE  Cardinality(applied) = Latest /\ applied = Migration
<1>1. applied = Migration
  BY DEF StartupInv, SchemaInv, Sound
<1> QED
  BY <1>1, HowMany, StartupAssumptions DEF Migration

\* A statement of an instance that neither serves nor begins to.
LEMMA StillServing ==
    ASSUME StartupInv, NEW i \in Instance, pc[i] # "serving",
           NEW s, s # "serving", Goto(i, s)
    PROVE  Serving' = Serving
<1>1. \A j \in Instance : pc'[j] = IF j = i THEN s ELSE pc[j]
  BY DEF StartupInv, TypeInv, TypeOK, Goto
<1> QED
  BY <1>1 DEF Serving, At

\* One that begins to serve.
LEMMA OneMoreServes ==
    ASSUME StartupInv, NEW i \in Instance, Goto(i, "serving")
    PROVE  Serving' = Serving \cup {i}
<1>1. \A j \in Instance : pc'[j] = IF j = i THEN "serving" ELSE pc[j]
  BY DEF StartupInv, TypeInv, TypeOK, Goto
<1> QED
  BY <1>1 DEF Serving, At

\* A process that stops goes down if it was up.
LEMMA StopGoesDown ==
    ASSUME StartupInv, NEW i \in Instance, Stop(i)
    PROVE  [Release!Next]_Release!vars
<1>1. applied' = applied /\ plan' = plan /\ owners' = owners
  BY DEF Stop, schema, data
<1>2. Cardinality(applied)' = Cardinality(applied) /\ (plan # "absent")' = (plan # "absent")
  BY <1>1
<1>3. CASE pc[i] = "serving"
  <2>1. \A j \in Instance : pc'[j] = IF j = i THEN "down" ELSE pc[j]
    BY DEF StartupInv, TypeInv, TypeOK, Stop, Goto
  <2>2. i \in Serving /\ Serving' = Serving \ {i}
    BY <1>3, <2>1 DEF Serving, At
  <2> QED
    BY <1>1, <1>2, <2>2 DEF Release!Next, Release!GoDown
<1>4. CASE pc[i] # "serving"
  <2>1. Serving' = Serving
    BY <1>4, StillServing DEF Stop
  <2> QED
    BY <1>1, <1>2, <2>1 DEF Release!vars
<1> QED
  BY <1>3, <1>4

\* The commit of a migration raises the schema by one, or has been done before.
LEMMA CommitMigrates ==
    ASSUME StartupInv, NEW i \in Instance, CommitMigration(i)
    PROVE  [Release!Next]_Release!vars
<1> DEFINE m == tx[i].next
<1>1. PICK k \in 0 .. Latest : applied = 1 .. k /\ Cardinality(applied) = k
  BY Level
<1>2. /\ m \in Migration /\ \A w \in Migration : w < m => w \in applied
      /\ tx[i].content = {m}
  <2>1. pc[i] = "commit" /\ pc[i] \in Migrating
    BY DEF CommitMigration, At, Migrating
  <2> QED
    BY <2>1, MigrationUnderway DEF StartupInv, SchemaInv, Sound
<1>3. applied' = applied \cup {m} /\ plan' = plan /\ owners' = owners
  BY <1>2 DEF CommitMigration, data
<1>4. Serving' = Serving
  <2>1. NextAfter(m).step \in {"seed", "clear"}
    BY <1>2, NextFile, StartupAssumptions DEF Migration
  <2>2. pc[i] # "serving" /\ Goto(i, NextAfter(m).step)
    BY DEF CommitMigration, At
  <2> QED
    BY <2>1, <2>2, StillServing
<1> HIDE DEF m
<1>5. (plan # "absent")' = (plan # "absent")
  BY <1>3
<1>6. CASE m \in applied
  <2>1. applied' = applied
    BY <1>3, <1>6
  <2> QED
    BY <1>3, <1>4, <1>5, <2>1 DEF Release!vars
<1>7. CASE m \notin applied
  <2>1. m = k + 1 /\ k < Latest /\ k \in Nat
    <3>1. m \in Nat /\ m >= 1 /\ m <= Latest /\ k \in Nat /\ Latest \in Nat
      BY <1>1, <1>2, StartupAssumptions DEF Migration
    <3>2. ~(m <= k)
      BY <1>1, <1>7, <3>1
    <3>3. ~(k + 1 < m)
      <4>1. CASE k + 1 < m
        <5>1. k + 1 \in Migration
          BY <3>1, <4>1 DEF Migration
        <5>2. k + 1 \in 1 .. k
          BY <1>1, <1>2, <4>1, <5>1
        <5> QED
          BY <3>1, <5>2
      <4> QED
        BY <4>1
    <3> QED
      BY <3>1, <3>2, <3>3
  <2>2. applied' = 1 .. (k + 1)
    BY <1>1, <1>3, <2>1
  <2>3. Cardinality(applied') = k + 1
    BY <2>1, <2>2, HowMany
  <2> QED
    BY <1>1, <1>3, <1>4, <1>5, <2>1, <2>3 DEF Release!Next, Release!Migrate
<1> QED
  BY <1>6, <1>7

\* The seed, which may have been there.
LEMMA SeedSeeds ==
    ASSUME StartupInv, NEW i \in Instance, Seed(i)
    PROVE  [Release!Next]_Release!vars
<1>1. applied' = applied /\ owners' = owners /\ plan' # "absent"
  BY DEF Seed, SeededValue, schema
<1>2. Serving' = Serving
  BY StillServing DEF Seed, At
<1>3. Cardinality(applied) = Latest
  BY AllApplied DEF Seed, At, AfterMigrations
<1>4. CASE plan = "absent"
  BY <1>1, <1>2, <1>3, <1>4 DEF Release!Next, Release!Seed
<1>5. CASE plan # "absent"
  BY <1>1, <1>2, <1>5 DEF Release!vars
<1> QED
  BY <1>4, <1>5

\* Who finds an owner, or creates the first, serves.
LEMMA BootstrapServes ==
    ASSUME StartupInv, NEW i \in Instance,
           (CountOwners(i) /\ Goto(i, "serving")) \/ CommitOwner(i)
    PROVE  [Release!Next]_Release!vars
<1>1. pc[i] \in {"count", "commit owner"} /\ Goto(i, "serving")
  BY DEF CountOwners, CommitOwner, At
<1>2. Cardinality(applied) = Latest /\ plan # "absent"
  BY <1>1, AllApplied DEF AfterMigrations, StartupInv, SchemaInv, Sound
<1>3. Serving' = Serving \cup {i}
  BY <1>1, OneMoreServes
<1>4. CASE CommitOwner(i)
  <2>1. owners = 0
    BY <1>4 DEF CommitOwner, At, StartupInv, OwnerInv
  <2>2. owners' = owners + 1 /\ applied' = applied /\ plan' = plan
    BY <1>4 DEF CommitOwner, schema
  <2>3. owners' = 1
    BY <2>1, <2>2
  <2> QED
    BY <1>2, <1>3, <2>1, <2>2, <2>3 DEF Release!Next, Release!CreateOwner, Release!Ready
<1>5. CASE CountOwners(i) /\ Goto(i, "serving")
  <2>1. pc'[i] = "serving"
    BY <1>1 DEF Goto, StartupInv, TypeInv, TypeOK
  <2>2. owners > 0 /\ applied' = applied /\ plan' = plan /\ owners' = owners
    BY <1>5, <2>1 DEF CountOwners, Stop, Goto, StartupInv, TypeInv, TypeOK, schema, data
  <2>3. owners = 1
    <3>1. owners \in {0, 1}
      BY DEF StartupInv, OwnerInv
    <3> QED
      BY <2>2, <3>1
  <2> QED
    BY <1>2, <1>3, <2>2, <2>3 DEF Release!Next, Release!Serve, Release!Ready
<1> QED
  BY <1>4, <1>5

\* Every other statement changes nothing that is promised.
LEMMA OthersStutter ==
    ASSUME StartupInv, NEW i \in Instance, pc[i] # "serving",
           UNCHANGED <<applied, plan, owners>>, NEW s, s # "serving", Goto(i, s)
    PROVE  [Release!Next]_Release!vars
<1>1. Serving' = Serving
  BY StillServing
<1> QED
  BY <1>1 DEF Release!vars

\* Instances that race, crash and start again implement the deployment: what
\* they have committed is always the state of one that runs each step once.
THEOREM ImplementsDeployment == Spec => DeploymentSpec
<1>1. Init => Release!Init
  <2> SUFFICES ASSUME Init PROVE Release!Init
    OBVIOUS
  <2>1. deployed \in Deployments /\ deployed \in Nat /\ applied = 1 .. deployed
    BY StartupAssumptions DEF Init
  <2>2. Cardinality(applied) = deployed
    BY <2>1, HowMany
  <2>3. Serving = {}
    BY DEF Init, Serving, At
  <2>4. (plan # "absent") = (deployed # 0) /\ owners = IF deployed = 0 THEN 0 ELSE 1
    BY DEF Init
  <2> QED
    BY <2>1, <2>2, <2>3, <2>4 DEF Release!Init
<1>2. StartupInv /\ [Next]_vars => [Release!Next]_Release!vars
  <2> SUFFICES ASSUME StartupInv, [Next]_vars PROVE [Release!Next]_Release!vars
    OBVIOUS
  <2>1. ASSUME NEW i \in Instance, Step(i) \/ Start(i) \/ EditPlan(i) \/ Crash(i)
        PROVE  [Release!Next]_Release!vars
    <3> USE DEF At
    <3>1. CASE Stop(i)
      BY <3>1, StopGoesDown
    <3>2. CASE Start(i) \/ FindTable(i)
      <4>1. pc[i] # "serving" /\ UNCHANGED <<applied, plan, owners>>
        BY <3>2 DEF Start, FindTable, schema, data
      <4>2. Goto(i, "create") \/ Goto(i, "read") \/ Goto(i, "make")
        BY <3>2 DEF Start, FindTable
      <4> QED
        BY <4>1, <4>2, OthersStutter
    <3>3. CASE MakeTable(i) /\ ~Stop(i)
      BY <3>3, OthersStutter DEF MakeTable, data
    <3>4. CASE ReadVersion(i) /\ ~Stop(i)
      <4>1. PICK v \in IF rows = {} THEN {0} ELSE rows : Goto(i, NextAfter(v).step)
        BY <3>4 DEF ReadVersion
      <4>2. v \in 0 .. Latest
        BY <4>1, StartupAssumptions DEF StartupInv, TypeInv, TypeOK, Migration
      <4>3. NextAfter(v).step \in {"seed", "clear"}
        BY <4>2, NextFile
      <4> DEFINE s == NextAfter(v).step
      <4>4. Goto(i, s) /\ s # "serving"
        BY <4>1, <4>3
      <4>5. pc[i] # "serving" /\ UNCHANGED <<applied, plan, owners>>
        BY <3>4 DEF ReadVersion, schema, data
      <4> HIDE DEF s
      <4> QED
        BY <4>4, <4>5, OthersStutter
    <3>5. CASE Clear(i) \/ ClearRow(i)
      <4>1. pc[i] # "serving" /\ UNCHANGED <<applied, plan, owners>>
        BY <3>5 DEF Clear, ClearRow, schema, data
      <4>2. Goto(i, "insert") \/ Goto(i, "clearRow")
        BY <3>5 DEF Clear, ClearRow
      <4> QED
        BY <4>1, <4>2, OthersStutter
    <3>6. CASE InsertVersion(i) /\ ~Stop(i)
      BY <3>6, OthersStutter DEF InsertVersion, schema, data
    <3>7. CASE RunContent(i) /\ ~Stop(i)
      BY <3>7, OthersStutter DEF RunContent, schema, data
    <3>8. CASE MarkClean(i)
      BY <3>8, OthersStutter DEF MarkClean, schema, data
    <3>9. CASE CommitMigration(i)
      BY <3>9, CommitMigrates
    <3>10. CASE Seed(i)
      BY <3>10, SeedSeeds
    <3>11. CASE LockBootstrap(i)
      BY <3>11, OthersStutter DEF LockBootstrap, schema, data
    <3>12. CASE (CountOwners(i) /\ Goto(i, "serving")) \/ CommitOwner(i)
      BY <3>12, BootstrapServes
    <3>13. CASE CountOwners(i) /\ ~Stop(i) /\ ~Goto(i, "serving")
      BY <3>13, OthersStutter DEF CountOwners, schema, data
    <3>14. CASE CreateOwner(i)
      BY <3>14, OthersStutter DEF CreateOwner, schema, data
    <3>15. CASE EditPlan(i)
      <4>1. plan # "absent"
        BY <3>15 DEF EditPlan, AfterMigrations, StartupInv, SchemaInv, Sound
      <4>2. plan' # "absent" /\ applied' = applied /\ owners' = owners /\ Serving' = Serving
        BY <3>15 DEF EditPlan, Serving, schema
      <4> QED
        BY <4>1, <4>2 DEF Release!vars
    <3> QED
      BY <2>1, <3>1, <3>2, <3>3, <3>4, <3>5, <3>6, <3>7, <3>8, <3>9, <3>10, <3>11, <3>12, <3>13,
         <3>14, <3>15 DEF Step, DeadlockVictim, Crash
  <2>2. CASE UNCHANGED vars
    <3>1. UNCHANGED <<applied, plan, owners, pc>>
      BY <2>2 DEF vars, schema, data
    <3>2. Serving' = Serving
      BY <3>1 DEF Serving, At
    <3> QED
      BY <3>1, <3>2 DEF Release!vars
  <2> QED
    BY <2>1, <2>2 DEF Next
<1> QED
  BY <1>1, <1>2, StartupInvariant, PTL DEF Spec, DeploymentSpec, Release!Spec

=============================================================================
