--------------------------- MODULE Tenancy_proofs ---------------------------
(***************************************************************************)
(* Proofs about module Tenancy, for any accounts, logins, connections,     *)
(* limits and workloads: that the limits which requests under the lock of  *)
(* an account have compared their counts with hold when they commit, and   *)
(* that no account is there in half.                                       *)
(*                                                                         *)
(* Neither is inductive.  What a request has counted stays true because it *)
(* holds the row lock of its account from LockAccount to Commit, because   *)
(* whoever else adds a restaurant or a member to the account holds it too, *)
(* and because an account that is being created is not one of those there  *)
(* are.  That an account is complete rests on which rows its transaction   *)
(* has written before each statement: a commit is not reached with fewer.  *)
(* These are the parts of TenancyInv.                                      *)
(*                                                                         *)
(* The tables of a restaurant have no such lock.  TablesInv bounds them    *)
(* together with the requests that may still add one.                      *)
(***************************************************************************)
EXTENDS Tenancy, TLAPS, FiniteSetTheorems

Locking == {"restaurant", "new login", "login"}

\* The rows that a handler has inserted when it comes to statement p.
WrittenBefore(p, op) ==
    CASE op = "account" /\ p \in {"choose plan", "restaurant"} -> {"account"}
      [] op = "account" /\ p = "membership" -> {"account", "restaurant"}
      [] op = "account" /\ p = "subscription" -> {"account", "restaurant", "membership"}
      [] op = "account" /\ p = "tax" -> Row \ {"tax"}
      [] op = "account" /\ p = "commit" -> Row
      [] op = "restaurant" /\ p = "membership" -> {"restaurant"}
      [] op = "restaurant" /\ p = "tax" -> {"restaurant", "membership"}
      [] op = "restaurant" /\ p = "commit" -> {"restaurant", "membership", "tax"}
      [] OTHER -> {}

\* Which handler may be at which statement, and what it has written by then.
Stage(p, t) ==
    /\ p = "idle" <=> t.op = "none"
    /\ p = "lock" => t.op \in Locking
    /\ p \in {"override", "plan"} => t.op \in Locking \cup {"table"}
    /\ p = "count" => t.op \in {"restaurant", "table"}
    /\ p = "check" => t.op = "table"
    /\ p = "user" => t.op \in {"new login", "account"}
    /\ p = "capacity" => t.op \in {"new login", "login"}
    /\ p \in {"account", "choose plan", "subscription"} => t.op = "account"
    /\ p \in {"restaurant", "membership", "tax"} => t.op \in {"restaurant", "account"}
    /\ t.op = "account" /\ p # "user" => t.newUsers = {t.login}
    /\ t.written = WrittenBefore(p, t.op)

Stages == \A c \in Client : Stage(pc[c], tx[c])

\* A request is one of an account there is, unless it creates it.
Existing ==
    \A c \in Client :
        /\ tx[c].op \in Locking \cup {"table"} => tx[c].account \in accounts
        /\ tx[c].op = "account" => tx[c].account \notin accounts

\* No two requests create one account.
Apart ==
    \A c, d \in Client :
        tx[c].op = "account" /\ tx[d].op = "account" /\ c # d => tx[c].account # tx[d].account

\* Past its first statement, a request that locks its account holds it.
Held ==
    \A c \in Client :
        tx[c].op \in Locking /\ ~At(c, "lock") => accountLock[tx[c].account] = c

\* Every restaurant has its tax settings, in accounts to come too.
Taxed == taxed = restaurants

Protection == Stages /\ Existing /\ Apart /\ Held /\ Taxed

TenancyInv ==
    /\ TenancyTypeOK
    /\ Protection
    /\ RestaurantLimitHolds
    /\ UserLimitHolds
    /\ AccountsComplete

-----------------------------------------------------------------------------
(* The initial states                                                      *)

\* A resting connection has a request of no handler.
LEMMA RestingType == NoTx \in TenancyTx
<1>1. SomeAccount \in Account
  BY TenancyAssumptions DEF SomeAccount
<1>2. SomeLogin \in Login
  BY TenancyAssumptions DEF SomeLogin
<1> QED
  BY <1>1, <1>2 DEF NoTx, TenancyTx

\* The invariant holds when the server starts.
LEMMA InitInvariant == TenancyInit => TenancyInv
<1> SUFFICES ASSUME TenancyInit PROVE TenancyInv
  OBVIOUS
<1>one. 1 >= 1
  OBVIOUS
<1> USE TenancyAssumptions
<1>0. SomeLogin \in Login
  BY DEF SomeLogin
<1>1. PICK granted \in Offered \cup {Unset} :
        override = [a \in Account |-> [f \in Feature |->
                      IF a \in Established /\ f \in Changeable THEN granted ELSE Unset]]
  BY DEF TenancyInit
<1>2. /\ accounts \subseteq Account /\ owner \in [Account -> Login] /\ users \subseteq Login
      /\ restaurants \in [Account -> Nat] /\ taxed \in [Account -> Nat]
      /\ tables \in [Account -> Nat] /\ members \in [Account -> SUBSET Login]
  <2>1. \A a \in Established : OwnerOf[a] \in Login
    OBVIOUS
  <2>2. accounts \subseteq Account /\ users \subseteq Login
    BY <2>1 DEF TenancyInit
  <2>3. owner \in [Account -> Login]
    BY <1>0, <2>1 DEF TenancyInit
  <2>4. restaurants \in [Account -> Nat] /\ taxed = restaurants /\ tables \in [Account -> Nat]
    BY DEF TenancyInit
  <2>5. members \in [Account -> SUBSET Login]
    BY <2>1 DEF TenancyInit
  <2> QED
    BY <2>2, <2>3, <2>4, <2>5
<1>3. override \in [Account -> [Feature -> Nat \cup {Unset}]]
  BY <1>1
<1>4. /\ plan \in [Feature -> Nat] /\ planActive \in BOOLEAN
      /\ subscribed \subseteq Account /\ billed \subseteq Account
      /\ accountLock \in [Account -> Client \cup {Nobody}]
      /\ \A a \in Account, c \in Client : accountLock[a] # c
  BY DEF TenancyInit
<1>5. /\ pc \in [Client -> Statement] /\ tx \in [Client -> TenancyTx]
      /\ changes \in Nat /\ connections \in Nat /\ workload \in Workloads
  BY RestingType DEF TenancyInit, Statement
<1>6. \A c \in Client : pc[c] = "idle" /\ tx[c].op = "none"
  BY DEF TenancyInit, NoTx
<1>7. TenancyTypeOK
  BY <1>2, <1>3, <1>4, <1>5 DEF TenancyTypeOK
<1>8. Protection
  <2>1. \A c \in Client : tx[c].written = {}
    BY DEF TenancyInit, NoTx
  <2>2. Stages
    BY <1>6, <2>1 DEF Stages, Stage, WrittenBefore, Locking
  <2>3. Taxed
    BY DEF TenancyInit, Taxed
  <2> QED
    BY <1>6, <2>2, <2>3 DEF Protection, Existing, Apart, Held, Locking
<1>9. RestaurantLimitHolds /\ UserLimitHolds
  BY <1>6 DEF RestaurantLimitHolds, UserLimitHolds, At
<1>10. AccountsComplete
  <2> SUFFICES ASSUME NEW a \in Established
               PROVE  /\ owner[a] \in users /\ owner[a] \in members[a]
                      /\ restaurants[a] >= 1 /\ taxed[a] = restaurants[a]
                      /\ a \in billed
    BY DEF AccountsComplete, TenancyInit
  <2>1. owner[a] = OwnerOf[a] /\ a \in Account
    BY DEF TenancyInit
  <2>2. users = {OwnerOf[b] : b \in Established}
    BY DEF TenancyInit
  <2>3. members[a] = {OwnerOf[a]}
    BY <2>1 DEF TenancyInit
  <2>4. restaurants[a] = 1 /\ taxed[a] = restaurants[a] /\ a \in billed
    BY <2>1 DEF TenancyInit
  <2>5. OwnerOf[a] \in {OwnerOf[b] : b \in Established}
    OBVIOUS
  <2> QED
    BY <2>1, <2>2, <2>3, <2>4, <2>5, <1>one, Zenon
<1> QED
  BY <1>7, <1>8, <1>9, <1>10 DEF TenancyInv

-----------------------------------------------------------------------------
(* What a step does to its own request and to those of others              *)

\* The rows of customers have their types.
BusinessTypes ==
    /\ accounts \subseteq Account /\ owner \in [Account -> Login] /\ users \subseteq Login
    /\ restaurants \in [Account -> Nat] /\ taxed \in [Account -> Nat]
    /\ tables \in [Account -> Nat]
    /\ members \in [Account -> SUBSET Login]

\* So have those of the platform.
LimitTypes ==
    /\ override \in [Account -> [Feature -> Nat \cup {Unset}]]
    /\ plan \in [Feature -> Nat]
    /\ subscribed \subseteq Account /\ billed \subseteq Account /\ planActive \in BOOLEAN

\* And the requests and their locks.
RequestTypes ==
    /\ accountLock \in [Account -> Client \cup {Nobody}]
    /\ \A a \in Account, c \in Client : accountLock[a] = c => tx[c].account = a /\ ~At(c, "idle")
    /\ pc \in [Client -> Statement] /\ tx \in [Client -> TenancyTx]

SettingTypes == changes \in Nat /\ connections \in Nat /\ workload \in Workloads

\* The type invariant in parts.
LEMMA TypeParts ==
    TenancyTypeOK <=> BusinessTypes /\ LimitTypes /\ RequestTypes /\ SettingTypes
  BY DEF TenancyTypeOK, BusinessTypes, LimitTypes, RequestTypes, SettingTypes

\* Two requests that hold their accounts' locks are of two accounts.
LEMMA LocksExclude ==
    ASSUME Held, NEW c \in Client, NEW d \in Client, c # d,
           tx[c].op \in Locking, ~At(c, "lock"), tx[d].op \in Locking, ~At(d, "lock")
    PROVE  tx[c].account # tx[d].account
  BY DEF Held

\* The limits hold for a request that is about to commit.
Admitted(p, t, number, who) ==
    /\ p \in Row \cup {"commit"} /\ t.op = "restaurant" => number + 1 <= t.limit
    /\ p = "commit" /\ t.op \in {"new login", "login"} =>
         t.login \in who \/ Cardinality(who) < t.limit

\* Both limit properties say this of every request.
LEMMA LimitParts ==
    RestaurantLimitHolds /\ UserLimitHolds <=>
        \A c \in Client :
            Admitted(pc[c], tx[c], restaurants[tx[c].account], members[tx[c].account])
  BY DEF RestaurantLimitHolds, UserLimitHolds, Admitted, At

\* A statement that only reads, and after which the request may be where it is.
LEMMA ReadsKeep ==
    ASSUME TenancyInv, NEW c \in Client, NEW mine \in TenancyTx, NEW next \in Statement,
           next # "idle", ~At(c, "idle"), ~At(c, "lock"),
           mine.op = tx[c].op, mine.account = tx[c].account,
           Stage(next, mine),
           Admitted(next, mine, restaurants[mine.account], members[mine.account]),
           Reads(c, mine, next)
    PROVE  TenancyInv'
<1>1. /\ UNCHANGED <<accounts, owner, users, restaurants, taxed, members, tables>>
      /\ UNCHANGED <<override, plan, subscribed, billed, planActive>>
      /\ UNCHANGED <<accountLock, changes, connections, workload>>
      /\ pc' = [pc EXCEPT ![c] = next] /\ tx' = [tx EXCEPT ![c] = mine]
  BY DEF Reads, business, limits, setting, Goto, Local
<1>2. BusinessTypes /\ LimitTypes /\ RequestTypes /\ SettingTypes
  BY TypeParts DEF TenancyInv
<1>3. /\ pc'[c] = next /\ tx'[c] = mine
      /\ \A d \in Client \ {c} : pc'[d] = pc[d] /\ tx'[d] = tx[d]
  BY <1>1, <1>2 DEF RequestTypes
<1>4. TenancyTypeOK'
  <2>1. BusinessTypes' /\ LimitTypes' /\ SettingTypes'
    BY <1>1, <1>2 DEF BusinessTypes, LimitTypes, SettingTypes
  <2>2. pc' \in [Client -> Statement] /\ tx' \in [Client -> TenancyTx]
    BY <1>1, <1>2 DEF RequestTypes
  <2>3. \A a \in Account, d \in Client :
          accountLock'[a] = d => tx'[d].account = a /\ pc'[d] # "idle"
    BY <1>1, <1>2, <1>3 DEF RequestTypes, At
  <2>4. RequestTypes'
    BY <1>1, <1>2, <2>2, <2>3 DEF RequestTypes, At
  <2> QED
    BY <2>1, <2>4, TypeParts, PTL
<1>5. Protection'
  <2>1. Stages'
    BY <1>3 DEF Stages, TenancyInv, Protection
  <2>2. \A d \in Client : tx'[d].op = tx[d].op /\ tx'[d].account = tx[d].account
    BY <1>3
  <2>3. Existing' /\ Apart'
    BY <1>1, <2>2 DEF Existing, Apart, TenancyInv, Protection
  <2>4. Held'
    BY <1>1, <1>3, <2>2 DEF Held, At, TenancyInv, Protection
  <2>5. Taxed'
    BY <1>1 DEF Taxed, TenancyInv, Protection
  <2> QED
    BY <2>1, <2>3, <2>4, <2>5 DEF Protection
<1>6. RestaurantLimitHolds' /\ UserLimitHolds'
  <2>1. \A d \in Client :
          Admitted(pc'[d], tx'[d], restaurants'[tx'[d].account], members'[tx'[d].account])
    BY <1>1, <1>3, LimitParts DEF TenancyInv
  <2> QED
    BY <2>1 DEF RestaurantLimitHolds, UserLimitHolds, Admitted, At
<1>7. AccountsComplete'
  BY <1>1 DEF AccountsComplete, TenancyInv
<1> QED
  BY <1>4, <1>5, <1>6, <1>7 DEF TenancyInv

\* A request that ends, whatever it has committed, if that is nothing which
\* another one has counted.
LEMMA EndKeeps ==
    ASSUME TenancyInv, NEW c \in Client,
           accountLock' = Unlocked(c), Local(c, NoTx), Goto(c, "idle"),
           UNCHANGED <<override, plan, planActive, changes, setting>>,
           BusinessTypes', subscribed' \subseteq Account, billed' \subseteq Account, Taxed',
           accounts \subseteq accounts',
           \A d \in Client \ {c} : tx[d].op = "account" => tx[d].account \notin accounts',
           \A d \in Client \ {c} :
               tx[d].op = "restaurant" /\ ~At(d, "lock") =>
                   restaurants'[tx[d].account] = restaurants[tx[d].account],
           \A d \in Client \ {c} :
               tx[d].op \in {"new login", "login"} /\ ~At(d, "lock") =>
                   members'[tx[d].account] = members[tx[d].account],
           AccountsComplete'
    PROVE  TenancyInv'
<1>1. /\ UNCHANGED <<override, plan, planActive, changes, connections, workload>>
      /\ accountLock' = [a \in Account |-> IF accountLock[a] = c THEN Nobody ELSE accountLock[a]]
      /\ pc' = [pc EXCEPT ![c] = "idle"] /\ tx' = [tx EXCEPT ![c] = NoTx]
  BY DEF setting, Goto, Local, Unlocked
<1>0. \A a \in Account :
        /\ accountLock[a] = c => accountLock'[a] = Nobody
        /\ accountLock[a] # c => accountLock'[a] = accountLock[a]
  BY <1>1
<1>2. BusinessTypes /\ LimitTypes /\ RequestTypes /\ SettingTypes
  BY TypeParts DEF TenancyInv
<1>3. /\ pc'[c] = "idle" /\ tx'[c] = NoTx
      /\ \A d \in Client \ {c} : pc'[d] = pc[d] /\ tx'[d] = tx[d]
  BY <1>1, <1>2 DEF RequestTypes
<1>4. TenancyTypeOK'
  <2>1. LimitTypes' /\ SettingTypes'
    BY <1>1, <1>2 DEF LimitTypes, SettingTypes
  <2>2. pc' \in [Client -> Statement] /\ tx' \in [Client -> TenancyTx]
    BY <1>1, <1>2, RestingType DEF RequestTypes, Statement
  <2>3. accountLock' \in [Account -> Client \cup {Nobody}]
    BY <1>1, <1>2 DEF RequestTypes
  <2>4. \A a \in Account, d \in Client :
          accountLock'[a] = d => tx'[d].account = a /\ pc'[d] # "idle"
    <3> SUFFICES ASSUME NEW a \in Account, NEW d \in Client, accountLock'[a] = d
                 PROVE  tx'[d].account = a /\ pc'[d] # "idle"
      OBVIOUS
    <3>1. accountLock[a] = d /\ d # c
      BY <1>0, TenancyAssumptions
    <3>2. tx[d].account = a /\ pc[d] # "idle"
      BY <1>2, <3>1 DEF RequestTypes, At
    <3> QED
      BY <1>3, <3>1, <3>2
  <2>5. RequestTypes'
    BY <2>2, <2>3, <2>4 DEF RequestTypes, At
  <2> QED
    BY <2>1, <2>5, TypeParts, PTL
<1>5. NoTx.op = "none" /\ NoTx.written = {} /\ "none" \notin Locking
  BY DEF NoTx, Locking
<1>6. Protection'
  <2>1. Stages'
    <3>1. Stage("idle", NoTx)
      BY <1>5 DEF Stage, WrittenBefore, Locking
    <3> QED
      BY <1>3, <3>1 DEF Stages, TenancyInv, Protection
  <2>2. Existing'
    BY <1>3, <1>5 DEF Existing, TenancyInv, Protection
  <2>3. Apart'
    <3>1. \A d \in Client : tx'[d].op = "account" => d # c /\ tx'[d] = tx[d]
      BY <1>3, <1>5
    <3>2. Apart
      BY DEF TenancyInv, Protection
    <3> QED
      BY <3>1, <3>2 DEF Apart
  <2>4. ASSUME NEW d \in Client, tx'[d].op \in Locking, pc'[d] # "lock"
        PROVE  accountLock'[tx'[d].account] = d
    <3>1. d # c
      BY <1>3, <1>5, <2>4
    <3>2. accountLock[tx[d].account] = d /\ tx[d].account \in Account
      BY <1>2, <1>3, <2>4, <3>1 DEF Held, At, TenancyInv, Protection, RequestTypes, TenancyTx
    <3> QED
      BY <1>0, <1>3, <3>1, <3>2
  <2>5. Held'
    BY <2>4 DEF Held, At
  <2> QED
    BY <2>1, <2>2, <2>3, <2>5 DEF Protection
<1>7. RestaurantLimitHolds' /\ UserLimitHolds'
  <2>1. ASSUME NEW d \in Client, pc'[d] \in Row \cup {"commit"}, tx'[d].op = "restaurant"
        PROVE  restaurants'[tx'[d].account] + 1 <= tx'[d].limit
    <3>1. d # c
      BY <1>3, <2>1 DEF Row
    <3>2. pc[d] # "lock"
      BY <1>3, <2>1, <3>1 DEF Row
    <3> QED
      BY <1>3, <2>1, <3>1, <3>2 DEF At, TenancyInv, RestaurantLimitHolds
  <2>2. ASSUME NEW d \in Client, pc'[d] = "commit", tx'[d].op \in {"new login", "login"}
        PROVE  \/ tx'[d].login \in members'[tx'[d].account]
               \/ Cardinality(members'[tx'[d].account]) < tx'[d].limit
    BY <1>3, <2>2 DEF At, TenancyInv, UserLimitHolds
  <2> QED
    BY <2>1, <2>2 DEF RestaurantLimitHolds, UserLimitHolds, At
<1> QED
  BY <1>4, <1>6, <1>7 DEF TenancyInv

\* A request that is undone.
LEMMA RollbackKeeps ==
    ASSUME TenancyInv, NEW c \in Client, Rollback(c)
    PROVE  TenancyInv'
<1>1. /\ UNCHANGED <<accounts, owner, users, restaurants, taxed, members, tables>>
      /\ UNCHANGED <<override, plan, planActive, changes, setting, subscribed, billed>>
      /\ accountLock' = Unlocked(c) /\ Local(c, NoTx) /\ Goto(c, "idle")
  BY DEF Rollback, End, business, limits
<1>2. BusinessTypes /\ LimitTypes
  BY TypeParts DEF TenancyInv
<1>3. BusinessTypes' /\ subscribed' \subseteq Account /\ billed' \subseteq Account
  BY <1>1, <1>2 DEF BusinessTypes, LimitTypes
<1>4. AccountsComplete' /\ Taxed'
  BY <1>1 DEF AccountsComplete, Taxed, TenancyInv, Protection
<1>5. \A d \in Client : tx[d].op = "account" => tx[d].account \notin accounts'
  BY <1>1 DEF Existing, TenancyInv, Protection
<1> QED
  BY <1>1, <1>3, <1>4, <1>5, EndKeeps

\* A request that arrives.
LEMMA BeginKeeps ==
    ASSUME TenancyInv, NEW c \in Client, NEW op, NEW a \in Account, NEW u \in Login, NEW first,
           Begin(c, op, a, u, first),
           \/ op \in Locking /\ first = "lock" /\ a \in accounts
           \/ op = "table" /\ first = "count" /\ a \in accounts
           \/ op = "account" /\ first = "user" /\ Unused(a)
    PROVE  TenancyInv'
<1> DEFINE mine == [NoTx EXCEPT !.op = op, !.account = a, !.login = u]
<1>1. /\ UNCHANGED <<accounts, owner, users, restaurants, taxed, members, tables>>
      /\ UNCHANGED <<override, plan, subscribed, billed, planActive>>
      /\ UNCHANGED <<accountLock, changes, connections, workload>>
      /\ pc' = [pc EXCEPT ![c] = first] /\ tx' = [tx EXCEPT ![c] = mine] /\ pc[c] = "idle"
  BY DEF Begin, business, limits, setting, Goto, Local, At
<1>2. BusinessTypes /\ LimitTypes /\ RequestTypes /\ SettingTypes
  BY TypeParts DEF TenancyInv
<1>3. /\ pc'[c] = first /\ tx'[c] = mine
      /\ \A d \in Client \ {c} : pc'[d] = pc[d] /\ tx'[d] = tx[d]
  BY <1>1, <1>2 DEF RequestTypes
<1>4. /\ mine.op = op /\ mine.account = a /\ mine.login = u /\ mine.written = {}
      /\ mine \in TenancyTx
  BY RestingType DEF NoTx, TenancyTx, Locking
<1>5. first \in Statement \ ({"idle", "commit"} \cup Row) /\ Stage(first, mine)
  BY <1>4 DEF Statement, Stage, WrittenBefore, Locking, Row
<1> HIDE DEF mine
<1>6. TenancyTypeOK'
  <2>1. BusinessTypes' /\ LimitTypes' /\ SettingTypes'
    BY <1>1, <1>2 DEF BusinessTypes, LimitTypes, SettingTypes
  <2>2. pc' \in [Client -> Statement] /\ tx' \in [Client -> TenancyTx]
    BY <1>1, <1>2, <1>4, <1>5 DEF RequestTypes
  <2>3. \A b \in Account : accountLock[b] # c
    BY <1>1, <1>2 DEF RequestTypes, At
  <2>4. \A b \in Account, d \in Client :
          accountLock'[b] = d => tx'[d].account = b /\ pc'[d] # "idle"
    BY <1>1, <1>2, <1>3, <2>3 DEF RequestTypes, At
  <2>5. RequestTypes'
    BY <1>1, <1>2, <2>2, <2>4 DEF RequestTypes, At
  <2> QED
    BY <2>1, <2>5, TypeParts, PTL
<1>7. Protection'
  <2>1. Stages /\ Existing /\ Apart /\ Held /\ Taxed'
    BY <1>1 DEF TenancyInv, Protection, Taxed
  <2>2. Stages'
    BY <1>3, <1>5, <2>1 DEF Stages
  <2>3. \A d \in Client \ {c} : tx'[d].op = tx[d].op /\ tx'[d].account = tx[d].account
    BY <1>3
  <2>4. tx'[c].op = op /\ tx'[c].account = a
    BY <1>3, <1>4
  <2>5. Existing'
    <3>1. op \in Locking \cup {"table"} => a \in accounts
      BY DEF Locking
    <3>2. op = "account" => a \notin accounts
      BY DEF Locking, Unused
    <3> QED
      BY <1>1, <2>1, <2>3, <2>4, <3>1, <3>2 DEF Existing
  <2>6. Apart'
    <3>1. op = "account" => \A d \in Client : tx[d].op = "account" => tx[d].account # a
      BY DEF Locking, Unused
    <3> QED
      BY <2>1, <2>3, <2>4, <3>1 DEF Apart
  <2>7. Held'
    <3>1. op \in Locking => first = "lock"
      BY DEF Locking
    <3> QED
      BY <1>1, <1>3, <2>1, <2>3, <2>4, <3>1 DEF Held, At
  <2> QED
    BY <2>1, <2>2, <2>5, <2>6, <2>7 DEF Protection
<1>8. RestaurantLimitHolds' /\ UserLimitHolds'
  <2>1. \A d \in Client :
          Admitted(pc'[d], tx'[d], restaurants'[tx'[d].account], members'[tx'[d].account])
    <3>1. \A d \in Client :
            Admitted(pc[d], tx[d], restaurants[tx[d].account], members[tx[d].account])
      BY LimitParts DEF TenancyInv
    <3>2. pc'[c] \notin Row \cup {"commit"}
      BY <1>3, <1>5
    <3> QED
      BY <1>1, <1>3, <3>1, <3>2 DEF Admitted
  <2> QED
    BY <2>1 DEF RestaurantLimitHolds, UserLimitHolds, Admitted, At
<1>9. AccountsComplete'
  BY <1>1 DEF AccountsComplete, TenancyInv
<1> QED
  BY <1>6, <1>7, <1>8, <1>9 DEF TenancyInv

\* The lock of the account.
LEMMA LockKeeps ==
    ASSUME TenancyInv, NEW c \in Client, LockAccount(c)
    PROVE  TenancyInv'
<1> DEFINE a == tx[c].account
<1>1. /\ UNCHANGED <<accounts, owner, users, restaurants, taxed, members, tables>>
      /\ UNCHANGED <<override, plan, subscribed, billed, planActive>>
      /\ UNCHANGED <<tx, changes, connections, workload>>
      /\ pc' = [pc EXCEPT ![c] = "override"] /\ pc[c] = "lock"
      /\ accountLock[a] = Nobody /\ accountLock' = [accountLock EXCEPT ![a] = c]
  BY DEF LockAccount, business, limits, setting, Goto, At
<1>2. BusinessTypes /\ LimitTypes /\ RequestTypes /\ SettingTypes
  BY TypeParts DEF TenancyInv
<1>3. pc'[c] = "override" /\ \A d \in Client \ {c} : pc'[d] = pc[d]
  BY <1>1, <1>2 DEF RequestTypes
<1>4. tx[c] \in TenancyTx /\ a \in Account
  BY <1>2 DEF RequestTypes, TenancyTx
<1>5. accountLock'[a] = c /\ \A b \in Account \ {a} : accountLock'[b] = accountLock[b]
  BY <1>1, <1>2, <1>4 DEF RequestTypes
<1>6. TenancyTypeOK'
  <2>1. BusinessTypes' /\ LimitTypes' /\ SettingTypes'
    BY <1>1, <1>2 DEF BusinessTypes, LimitTypes, SettingTypes
  <2>2. pc' \in [Client -> Statement] /\ accountLock' \in [Account -> Client \cup {Nobody}]
    BY <1>1, <1>2 DEF RequestTypes, Statement
  <2>3. \A b \in Account, d \in Client :
          accountLock'[b] = d => tx[d].account = b /\ pc'[d] # "idle"
    BY <1>1, <1>2, <1>3, <1>5 DEF RequestTypes, At
  <2>4. RequestTypes'
    BY <1>1, <1>2, <2>2, <2>3 DEF RequestTypes, At
  <2> QED
    BY <2>1, <2>4, TypeParts, PTL
<1>7. Protection'
  <2>1. Stages /\ Existing /\ Apart /\ Held /\ Taxed'
    BY <1>1 DEF TenancyInv, Protection, Taxed
  <2>2. tx[c].op \in Locking /\ tx[c].written = WrittenBefore("lock", tx[c].op)
    BY <1>1, <2>1 DEF Stages, Stage
  <2>3. Stages'
    <3>1. Stage("override", tx[c])
      BY <2>2 DEF Stage, WrittenBefore, Locking
    <3> QED
      BY <1>1, <1>3, <2>1, <3>1 DEF Stages
  <2>4. Existing' /\ Apart'
    BY <1>1, <2>1 DEF Existing, Apart
  <2>5. ASSUME NEW d \in Client, tx[d].op \in Locking, pc'[d] # "lock"
        PROVE  accountLock'[tx[d].account] = d
    <3>1. CASE d = c
      BY <1>5, <3>1
    <3>2. CASE d # c
      <4>1. accountLock[tx[d].account] = d /\ tx[d].account \in Account
        BY <1>2, <1>3, <2>1, <2>5, <3>2 DEF Held, At, RequestTypes, TenancyTx
      <4>2. Nobody \notin Client
        BY TenancyAssumptions
      <4>3. tx[d].account # a
        BY <1>1, <4>1, <4>2
      <4> QED
        BY <1>5, <4>1, <4>3
    <3> QED
      BY <3>1, <3>2
  <2>6. Held'
    BY <1>1, <2>5 DEF Held, At
  <2> QED
    BY <2>1, <2>3, <2>4, <2>6 DEF Protection
<1>8. RestaurantLimitHolds' /\ UserLimitHolds'
  BY <1>1, <1>3 DEF RestaurantLimitHolds, UserLimitHolds, At, Row, TenancyInv
<1>9. AccountsComplete'
  BY <1>1 DEF AccountsComplete, TenancyInv
<1> QED
  BY <1>6, <1>7, <1>8, <1>9 DEF TenancyInv

-----------------------------------------------------------------------------
(* The statements                                                          *)

\* A COMMIT: it changes rows of an account that is the request's alone.
LEMMA CommitKeeps ==
    ASSUME TenancyInv, NEW c \in Client, Commit(c)
    PROVE  TenancyInv'
<1> DEFINE t == tx[c]
           a == t.account
<1>1. /\ UNCHANGED <<override, plan, planActive, changes, setting>>
      /\ accountLock' = Unlocked(c) /\ Local(c, NoTx) /\ Goto(c, "idle") /\ pc[c] = "commit"
  BY DEF Commit, End, At
<1>2. /\ BusinessTypes /\ LimitTypes /\ AccountsComplete
      /\ Stages /\ Existing /\ Apart /\ Held /\ Taxed
  BY TypeParts DEF TenancyInv, Protection
<1>3. a \in Account /\ t.login \in Login /\ t.newUsers \subseteq Login /\ Stage("commit", t)
  <2>1. t \in TenancyTx
    BY TypeParts DEF TenancyInv, RequestTypes
  <2>2. Stage("commit", t)
    BY <1>1, <1>2 DEF Stages
  <2> QED
    BY <2>1, <2>2 DEF TenancyTx
\* Nobody else at work in the account has passed its lock.
<1>4. ASSUME t.op \in Locking
      PROVE  /\ a \in accounts
             /\ \A d \in Client \ {c} : tx[d].op \in Locking /\ ~At(d, "lock") => tx[d].account # a
  BY <1>1, <1>2, <1>4, LocksExclude DEF Existing, At
<1>5. \A d \in Client : tx[d].op = "account" => tx[d].account \notin accounts
  BY <1>2 DEF Existing
<1>6. CASE CommitRows(c) /\ t.op = "restaurant"
  <2>1. t.written = {"restaurant", "membership", "tax"} /\ t.op \in Locking
    BY <1>3, <1>6 DEF Stage, WrittenBefore, Locking
  <2>2. "account" \notin t.written /\ "subscription" \notin t.written
    BY <2>1
  <2>3. /\ restaurants' = [restaurants EXCEPT ![a] = @ + 1]
        /\ taxed' = [taxed EXCEPT ![a] = @ + 1]
        /\ members' = [members EXCEPT ![a] = @ \cup {t.login}]
        /\ users' = users \cup t.newUsers
        /\ owner' = [owner EXCEPT ![a] = @]
        /\ UNCHANGED <<accounts, tables, subscribed, billed>>
    BY <1>6, <2>1, <2>2 DEF CommitRows
  <2>4. /\ restaurants'[a] = restaurants[a] + 1 /\ members'[a] = members[a] \cup {t.login}
        /\ \A b \in Account \ {a} : restaurants'[b] = restaurants[b] /\ members'[b] = members[b]
        /\ owner' = owner /\ Taxed'
    BY <1>2, <1>3, <2>3 DEF BusinessTypes, Taxed
  <2>5. BusinessTypes'
    BY <1>2, <1>3, <2>3, <2>4 DEF BusinessTypes
  <2>6. AccountsComplete'
    <3>1. \A b \in accounts : b \in Account /\ restaurants[b] \in Nat
      BY <1>2 DEF BusinessTypes
    <3> QED
      BY <1>2, <2>3, <2>4, <3>1 DEF AccountsComplete, Taxed
  <2>7. \A d \in Client \ {c} :
          tx[d].op \in Locking /\ ~At(d, "lock") =>
            /\ restaurants'[tx[d].account] = restaurants[tx[d].account]
            /\ members'[tx[d].account] = members[tx[d].account]
    <3>1. \A d \in Client : tx[d].account \in Account
      BY TypeParts DEF TenancyInv, RequestTypes, TenancyTx
    <3> QED
      BY <1>4, <2>1, <2>4, <3>1
  <2> QED
    BY <1>1, <1>2, <1>5, <2>3, <2>4, <2>5, <2>6, <2>7, EndKeeps DEF LimitTypes, Locking
<1>7. CASE CommitLogin(c)
  <2>1. /\ t.op \in Locking
        /\ users' = users \cup t.newUsers
        /\ members' = [members EXCEPT ![a] = @ \cup {t.login}]
        /\ UNCHANGED <<accounts, owner, restaurants, taxed, tables, subscribed, billed>>
    BY <1>7 DEF CommitLogin, Locking
  <2>2. /\ members'[a] = members[a] \cup {t.login}
        /\ \A b \in Account \ {a} : members'[b] = members[b]
    BY <1>2, <1>3, <2>1 DEF BusinessTypes
  <2>3. BusinessTypes'
    BY <1>2, <1>3, <2>1 DEF BusinessTypes
  <2>4. AccountsComplete'
    <3>1. \A b \in accounts : b \in Account
      BY <1>2 DEF BusinessTypes
    <3> QED
      BY <1>2, <2>1, <2>2, <3>1 DEF AccountsComplete
  <2>6. Taxed'
    BY <1>2, <2>1 DEF Taxed
  <2>5. \A d \in Client \ {c} :
          tx[d].op \in Locking /\ ~At(d, "lock") =>
            members'[tx[d].account] = members[tx[d].account]
    <3>1. \A d \in Client : tx[d].account \in Account
      BY TypeParts DEF TenancyInv, RequestTypes, TenancyTx
    <3> QED
      BY <1>4, <2>1, <2>2, <3>1
  <2> QED
    BY <1>1, <1>2, <1>5, <2>1, <2>3, <2>4, <2>5, <2>6, EndKeeps DEF LimitTypes, Locking
<1>8. CASE CommitTable(c)
  <2>1. /\ tables' = [tables EXCEPT ![a] = @ + 1]
        /\ UNCHANGED <<accounts, owner, users, restaurants, taxed, members, subscribed, billed>>
    BY <1>8 DEF CommitTable
  <2>2. BusinessTypes'
    BY <1>2, <1>3, <2>1 DEF BusinessTypes
  <2>3. AccountsComplete' /\ Taxed'
    BY <1>2, <2>1 DEF AccountsComplete, Taxed
  <2> QED
    BY <1>1, <1>2, <1>5, <2>1, <2>2, <2>3, EndKeeps DEF LimitTypes
<1>9. CASE CommitRows(c) /\ t.op = "account"
  <2>1. t.written = Row /\ t.newUsers = {t.login} /\ a \notin accounts
    BY <1>3, <1>5, <1>9 DEF Stage, WrittenBefore
  <2>2. /\ "account" \in t.written /\ "restaurant" \in t.written /\ "membership" \in t.written
        /\ "subscription" \in t.written /\ "tax" \in t.written
    BY <2>1 DEF Row
  <2>3. /\ accounts' = accounts \cup {a} /\ users' = users \cup t.newUsers
        /\ owner' = [owner EXCEPT ![a] = t.login]
        /\ restaurants' = [restaurants EXCEPT ![a] = @ + 1]
        /\ taxed' = [taxed EXCEPT ![a] = @ + 1]
        /\ members' = [members EXCEPT ![a] = @ \cup {t.login}]
        /\ subscribed' = subscribed \cup {a} /\ billed' = billed \cup {a}
        /\ UNCHANGED tables
    BY <1>9, <2>2 DEF CommitRows
  <2>4. /\ owner'[a] = t.login /\ restaurants'[a] = restaurants[a] + 1
        /\ members'[a] = members[a] \cup {t.login} /\ Taxed'
        /\ \A b \in Account \ {a} :
             owner'[b] = owner[b] /\ restaurants'[b] = restaurants[b] /\ members'[b] = members[b]
    BY <1>2, <1>3, <2>3 DEF BusinessTypes, Taxed
  <2>5. BusinessTypes'
    BY <1>2, <1>3, <2>3 DEF BusinessTypes
  <2>6. AccountsComplete'
    <3>1. \A b \in accounts : b \in Account \ {a}
      BY <1>2, <2>1 DEF BusinessTypes
    <3>2. \A b \in accounts :
            /\ owner'[b] \in users' /\ owner'[b] \in members'[b]
            /\ restaurants'[b] >= 1 /\ b \in billed'
      BY <1>2, <2>3, <2>4, <3>1 DEF AccountsComplete
    <3>3. restaurants[a] \in Nat
      BY <1>2, <1>3 DEF BusinessTypes
    <3>4. /\ owner'[a] \in users' /\ owner'[a] \in members'[a]
          /\ restaurants'[a] >= 1 /\ a \in billed'
      BY <2>1, <2>3, <2>4, <3>3
    <3> QED
      BY <2>3, <2>4, <3>2, <3>4 DEF AccountsComplete, Taxed
  <2>7. \A d \in Client \ {c} : tx[d].op = "account" => tx[d].account \notin accounts'
    BY <1>2, <1>5, <1>9, <2>3 DEF Apart
  <2>8. \A d \in Client :
          tx[d].op \in Locking =>
            /\ restaurants'[tx[d].account] = restaurants[tx[d].account]
            /\ members'[tx[d].account] = members[tx[d].account]
    <3>1. \A d \in Client : tx[d].account \in Account
      BY TypeParts DEF TenancyInv, RequestTypes, TenancyTx
    <3>2. \A d \in Client : tx[d].op \in Locking => tx[d].account # a
      BY <1>2, <2>1 DEF Existing
    <3> QED
      BY <2>4, <3>1, <3>2
  <2>9. accounts \subseteq accounts' /\ subscribed' \subseteq Account /\ billed' \subseteq Account
    BY <1>2, <1>3, <2>3 DEF LimitTypes
  <2> QED
    BY <1>1, <2>4, <2>5, <2>6, <2>7, <2>8, <2>9, EndKeeps DEF Locking
<1> QED
  <2>1. CommitRows(c) => t.op \in {"restaurant", "account"}
    BY DEF CommitRows
  <2> QED
    BY <1>6, <1>7, <1>8, <1>9, <2>1 DEF Commit

\* A step of a request.
LEMMA StepKeeps ==
    ASSUME TenancyInv, NEW c \in Client, Step(c)
    PROVE  TenancyInv'
<1> DEFINE t == tx[c]
<1>1. /\ Stage(pc[c], t) /\ pc[c] \in Statement /\ t \in TenancyTx
      /\ t.account \in Account /\ t.login \in Login /\ t.limit \in Nat
  BY TypeParts DEF TenancyInv, RequestTypes, TenancyTx, Protection, Stages
<1>2. /\ restaurants \in [Account -> Nat] /\ tables \in [Account -> Nat]
      /\ override \in [Account -> [Feature -> Nat \cup {Unset}]] /\ plan \in [Feature -> Nat]
  BY TypeParts DEF TenancyInv, BusinessTypes, LimitTypes
<1>3. FeatureOf(t.op) \in Feature
  BY DEF FeatureOf, Feature
\* Its locals other than what it was asked for, and where it goes with them.
<1>4. ASSUME NEW mine \in TenancyTx, NEW next \in Statement,
             next \notin {"idle", "commit"} \cup Row, pc[c] \notin {"idle", "lock"},
             mine.op = t.op, mine.account = t.account, Stage(next, mine), Reads(c, mine, next)
      PROVE  TenancyInv'
  BY <1>4, ReadsKeep DEF Admitted, At
<1>5. ASSUME NEW limit \in Nat, pc[c] \in {"override", "plan"}, WithLimit(c, limit)
      PROVE  TenancyInv'
  <2> DEFINE mine == [t EXCEPT !.limit = limit]
  <2>1. /\ mine \in TenancyTx /\ mine.op = t.op /\ mine.account = t.account
        /\ mine.written = t.written
    BY <1>1 DEF TenancyTx
  <2>2. Reads(c, mine, AfterLimit(t.op))
    BY <1>5 DEF WithLimit
  <2>3. t.op \in {"restaurant", "new login", "login", "table"}
    BY <1>1, <1>5 DEF Stage, Locking
  <2> HIDE DEF mine
  <2>4. t.written = {}
    BY <1>1, <1>5, <2>3 DEF Stage, WrittenBefore
  <2>5. /\ AfterLimit(t.op) \in Statement
        /\ AfterLimit(t.op) \notin {"idle", "commit"} \cup Row
        /\ Stage(AfterLimit(t.op), mine)
    BY <2>1, <2>3, <2>4 DEF AfterLimit, Statement, Row, Stage, WrittenBefore
  <2> QED
    BY <1>4, <1>5, <2>1, <2>2, <2>5
<1>6. CASE LockAccount(c)
  BY <1>6, LockKeeps
<1>7. CASE ReadOverride(c)
  <2> DEFINE granted == override[t.account][FeatureOf(t.op)]
  <2>1. pc[c] = "override" /\ granted \in Nat \cup {Unset}
    BY <1>1, <1>2, <1>3, <1>7 DEF ReadOverride, At
  <2>2. CASE granted # Unset /\ WithLimit(c, granted)
    BY <1>5, <2>1, <2>2
  <2>3. CASE Reads(c, t, "plan")
    <3>1. Stage("plan", t)
      BY <1>1, <2>1 DEF Stage, WrittenBefore, Locking
    <3> QED
      BY <1>1, <1>4, <2>1, <2>3, <3>1 DEF Statement, Row
  <2> QED
    BY <1>7, <2>2, <2>3 DEF ReadOverride
<1>8. CASE ReadPlan(c)
  <2>1. pc[c] = "plan" /\ plan[FeatureOf(t.op)] \in Nat
    BY <1>2, <1>3, <1>8 DEF ReadPlan, At
  <2>2. CASE WithLimit(c, plan[FeatureOf(t.op)])
    BY <1>5, <2>1, <2>2
  <2> QED
    BY <1>8, <2>2, RollbackKeeps DEF ReadPlan
<1>9. CASE CountRestaurants(c)
  <2> DEFINE count == restaurants[t.account]
             mine == [t EXCEPT !.count = count]
  <2>1. pc[c] = "count" /\ t.op = "restaurant"
    BY <1>9 DEF CountRestaurants, At
  <2>2. CASE count < t.limit /\ Reads(c, mine, "restaurant")
    <3>1. count \in Nat
      BY <1>1, <1>2
    <3>2. /\ mine \in TenancyTx /\ mine.op = t.op /\ mine.account = t.account
          /\ mine.limit = t.limit /\ mine.written = t.written
      BY <1>1, <3>1 DEF TenancyTx
    <3>3. count + 1 <= t.limit
      BY <1>1, <2>2, <3>1
    <3>4. Admitted("restaurant", mine, restaurants[mine.account], members[mine.account])
      BY <2>1, <3>2, <3>3 DEF Admitted
    <3>5. Stage("restaurant", mine)
      BY <1>1, <2>1, <3>2 DEF Stage, WrittenBefore
    <3> HIDE DEF mine
    <3> QED
      BY <2>1, <2>2, <3>2, <3>4, <3>5, ReadsKeep DEF At, Statement, Row
  <2> QED
    BY <1>9, <2>2, RollbackKeeps DEF CountRestaurants
<1>10. CASE CountTables(c)
  <2> DEFINE mine == [t EXCEPT !.count = tables[t.account]]
  <2>1. pc[c] = "count" /\ t.op = "table" /\ Reads(c, mine, "override")
    BY <1>10 DEF CountTables, At
  <2>2. /\ mine \in TenancyTx /\ mine.op = t.op /\ mine.account = t.account
        /\ mine.written = t.written
    BY <1>1, <1>2 DEF TenancyTx
  <2>3. Stage("override", mine)
    BY <1>1, <2>1, <2>2 DEF Stage, WrittenBefore, Locking
  <2> HIDE DEF mine
  <2> QED
    BY <1>4, <2>1, <2>2, <2>3 DEF Statement, Row
<1>one. CASE InsertTable(c)
  <2>1. pc[c] = "check" /\ t.op = "table"
    BY <1>1, <1>one DEF InsertTable, At, Stage
  <2>2. CASE Reads(c, t, "commit")
    <3>1. Stage("commit", t) /\ Admitted("commit", t, restaurants[t.account], members[t.account])
      BY <1>1, <2>1 DEF Stage, WrittenBefore, Admitted
    <3> QED
      BY <1>1, <2>1, <2>2, <3>1, ReadsKeep DEF At, Statement
  <2> QED
    BY <1>one, <2>2, RollbackKeeps DEF InsertTable
<1>12. CASE InsertUser(c)
  <2> DEFINE mine == [t EXCEPT !.newUsers = {t.login}]
             next == IF t.op = "account" THEN "account" ELSE "capacity"
  <2>1. pc[c] = "user" /\ t.op \in {"new login", "account"}
    BY <1>1, <1>12 DEF InsertUser, At, Stage
  <2>2. CASE Reads(c, mine, next)
    <3>1. /\ mine \in TenancyTx /\ mine.op = t.op /\ mine.account = t.account
          /\ mine.newUsers = {mine.login} /\ mine.written = t.written
      BY <1>1 DEF TenancyTx
    <3>2. next \in Statement /\ next # "idle"
      BY DEF Statement, Row
    <3>3. Stage(next, mine) /\ Admitted(next, mine, restaurants[mine.account], members[mine.account])
      BY <1>1, <2>1, <3>1 DEF Stage, WrittenBefore, Admitted
    <3> HIDE DEF mine, next
    <3> QED
      BY <2>1, <2>2, <3>1, <3>2, <3>3, ReadsKeep DEF At
  <2> QED
    BY <1>12, <2>2, RollbackKeeps DEF InsertUser
<1>13. CASE EnsureCapacity(c)
  <2>1. pc[c] = "capacity" /\ t.op \in {"new login", "login"}
    BY <1>1, <1>13 DEF EnsureCapacity, At, Stage
  <2>2. CASE /\ t.login \in members[t.account] \/ Cardinality(members[t.account]) < t.limit
             /\ Reads(c, t, "commit")
    <3>1. Stage("commit", t) /\ Admitted("commit", t, restaurants[t.account], members[t.account])
      BY <1>1, <2>1, <2>2 DEF Stage, WrittenBefore, Admitted, Row
    <3> QED
      BY <1>1, <2>1, <2>2, <3>1, ReadsKeep DEF At, Statement
  <2> QED
    BY <1>13, <2>2, RollbackKeeps DEF EnsureCapacity
<1>14. CASE SelectPlan(c)
  <2>1. pc[c] = "choose plan" /\ t.op = "account"
    BY <1>1, <1>14 DEF SelectPlan, At, Stage
  <2>2. CASE Reads(c, t, "restaurant")
    <3>1. /\ Stage("restaurant", t)
          /\ Admitted("restaurant", t, restaurants[t.account], members[t.account])
      BY <1>1, <2>1 DEF Stage, WrittenBefore, Admitted
    <3> QED
      BY <1>1, <2>1, <2>2, <3>1, ReadsKeep DEF At, Statement, Row
  <2> QED
    BY <1>14, <2>2, RollbackKeeps DEF SelectPlan
<1>15. CASE InsertRow(c)
  <2> DEFINE mine == [t EXCEPT !.written = @ \cup {pc[c]}]
             next == AfterInsert(t.op, pc[c])
  <2>1. pc[c] \in Row /\ Reads(c, mine, next)
    BY <1>15 DEF InsertRow
  <2>2. /\ mine \in TenancyTx /\ mine.op = t.op /\ mine.account = t.account
        /\ mine.limit = t.limit /\ mine.login = t.login /\ mine.newUsers = t.newUsers
        /\ mine.written = t.written \cup {pc[c]}
    BY <1>1, <2>1 DEF TenancyTx
  <2>3. next \in Statement \ {"idle"} /\ Stage(next, mine)
    <3>1. pc[c] \in {"account", "subscription"} => t.op = "account"
      BY <1>1 DEF Stage
    <3>2. t.op \in {"restaurant", "account"}
      BY <1>1, <2>1 DEF Stage, Row
    <3>3. t.written = WrittenBefore(pc[c], t.op) /\ (t.op = "account" => t.newUsers = {t.login})
      BY <1>1, <2>1 DEF Stage, Row
    <3>4. /\ next \in Statement \ {"idle"}
          /\ next \in {"choose plan", "subscription"} => t.op = "account"
          /\ next \notin {"lock", "override", "plan", "count", "check", "user", "capacity"}
          /\ next # "account"
      BY <2>1, <3>1 DEF AfterInsert, Statement, Row
    <3>5. mine.written = WrittenBefore(next, t.op)
      BY <2>1, <2>2, <3>1, <3>2, <3>3 DEF AfterInsert, WrittenBefore, Row
    <3> HIDE DEF mine, next
    <3> QED
      BY <2>2, <3>2, <3>3, <3>4, <3>5 DEF Stage
  <2>4. t.op = "restaurant" => restaurants[t.account] + 1 <= t.limit
    BY <2>1 DEF TenancyInv, RestaurantLimitHolds
  <2>5. Admitted(next, mine, restaurants[mine.account], members[mine.account])
    <3>1. t.op \notin {"new login", "login"}
      BY <1>1, <2>1 DEF Stage, Row
    <3> QED
      BY <2>2, <2>4, <3>1 DEF Admitted
  <2> HIDE DEF mine, next
  <2> QED
    BY <2>1, <2>2, <2>3, <2>5, ReadsKeep DEF At, Row
<1>16. CASE Commit(c)
  BY <1>16, CommitKeeps
<1> QED
  BY <1>6, <1>7, <1>8, <1>9, <1>10, <1>one, <1>12, <1>13, <1>14, <1>15, <1>16 DEF Step

\* A request that arrives.
LEMMA RequestKeeps ==
    ASSUME TenancyInv, NEW c \in Client, Request(c)
    PROVE  TenancyInv'
<1>1. \A a \in Account : owner[a] \in Login
  BY TypeParts DEF TenancyInv, BusinessTypes
<1>2. ASSUME NEW a \in Account, CreateRestaurant(c, a) PROVE TenancyInv'
  BY <1>1, <1>2, BeginKeeps DEF CreateRestaurant, Locking
<1>3. ASSUME NEW a \in Account, AddTable(c, a) PROVE TenancyInv'
  BY <1>1, <1>3, BeginKeeps DEF AddTable
<1>4. ASSUME NEW a \in Account, NEW u \in Login, CreateRestaurantLogin(c, a, u)
      PROVE  TenancyInv'
  BY <1>4, BeginKeeps DEF CreateRestaurantLogin, Locking
<1>5. ASSUME NEW a \in Account, NEW u \in Login, AddExistingRestaurantLogin(c, a, u)
      PROVE  TenancyInv'
  BY <1>5, BeginKeeps DEF AddExistingRestaurantLogin, Locking
<1>6. ASSUME NEW a \in Account, NEW u \in Login, CreateCustomerAccount(c, a, u)
      PROVE  TenancyInv'
  BY <1>6, BeginKeeps DEF CreateCustomerAccount
<1> QED
  BY <1>2, <1>3, <1>4, <1>5, <1>6 DEF Request

-----------------------------------------------------------------------------
(* The platform                                                            *)

\* The platform changes limits and adds users, and nothing a request relies on.
LEMMA PlatformKeeps ==
    ASSUME TenancyInv, Platform
    PROVE  TenancyInv'
<1>1. BusinessTypes /\ LimitTypes /\ SettingTypes /\ TenancyAssumptions
  BY TypeParts, TenancyAssumptions DEF TenancyInv
<1>2. ASSUME UNCHANGED <<accounts, owner, restaurants, taxed, members, tables, billed>>,
             UNCHANGED <<accountLock, pc, tx, setting>>,
             users \subseteq users', users' \subseteq Login, LimitTypes', changes' \in Nat
      PROVE  TenancyInv'
  <2>1. /\ UNCHANGED <<accounts, owner, restaurants, taxed, members, tables, billed>>
        /\ UNCHANGED <<accountLock, pc, tx, connections, workload>>
    BY <1>2 DEF setting
  <2>2. BusinessTypes' /\ SettingTypes'
    BY <1>1, <1>2, <2>1 DEF BusinessTypes, SettingTypes
  <2>3. RequestTypes'
    BY <2>1, TypeParts DEF TenancyInv, RequestTypes, At
  <2>4. TenancyTypeOK'
    BY <1>2, <2>2, <2>3, TypeParts, PTL
  <2>5. Protection'
    BY <2>1 DEF TenancyInv, Protection, Stages, Existing, Apart, Held, Taxed, At
  <2>6. RestaurantLimitHolds' /\ UserLimitHolds'
    BY <2>1 DEF TenancyInv, RestaurantLimitHolds, UserLimitHolds, At
  <2>7. AccountsComplete'
    BY <1>2, <2>1 DEF TenancyInv, AccountsComplete
  <2> QED
    BY <2>4, <2>5, <2>6, <2>7 DEF TenancyInv
<1>3. ASSUME Change
      PROVE  /\ UNCHANGED <<accounts, owner, restaurants, taxed, members, tables, billed>>
             /\ UNCHANGED <<accountLock, pc, tx, setting>>
             /\ changes' \in Nat
  <2>1. /\ UNCHANGED <<accounts, owner, restaurants, taxed, members, tables, billed>>
        /\ UNCHANGED <<accountLock, pc, tx, setting>>
        /\ changes' = changes + 1
    BY <1>3 DEF Change
  <2>2. changes \in Nat
    BY <1>1 DEF SettingTypes
  <2>3. changes' \in Nat
    BY <2>1, <2>2
  <2> QED
    BY <2>1, <2>3
<1>4. ASSUME Change, UNCHANGED users, LimitTypes' PROVE TenancyInv'
  BY <1>1, <1>2, <1>3, <1>4 DEF BusinessTypes
<1>5. Changeable \subseteq Feature /\ Offered \subseteq Nat
  BY <1>1 DEF TenancyAssumptions
<1>6. ASSUME NEW a \in Account, NEW f \in Changeable, NEW n \in Offered,
             SetAccountFeatureOverride(a, f, n)
      PROVE  TenancyInv'
  <2>1. /\ override' = [override EXCEPT ![a][f] = n]
        /\ UNCHANGED <<users, plan, subscribed, billed, planActive>>
    BY <1>6 DEF SetAccountFeatureOverride, Change
  <2>2. LimitTypes'
    BY <1>1, <1>5, <2>1 DEF LimitTypes
  <2> QED
    BY <1>4, <1>6, <2>1, <2>2 DEF SetAccountFeatureOverride
<1>7. ASSUME NEW a \in Account, NEW f \in Changeable, DeleteAccountFeatureOverride(a, f)
      PROVE  TenancyInv'
  <2>1. /\ override' = [override EXCEPT ![a][f] = Unset]
        /\ UNCHANGED <<users, plan, subscribed, billed, planActive>>
    BY <1>7 DEF DeleteAccountFeatureOverride, Change
  <2>2. LimitTypes'
    BY <1>1, <1>5, <2>1 DEF LimitTypes
  <2> QED
    BY <1>4, <1>7, <2>1, <2>2 DEF DeleteAccountFeatureOverride
<1>8. ASSUME NEW f \in Changeable, NEW n \in Offered, UpdatePlanFeatures(f, n)
      PROVE  TenancyInv'
  <2>1. /\ plan' = [plan EXCEPT ![f] = n]
        /\ UNCHANGED <<users, override, subscribed, billed, planActive>>
    BY <1>8 DEF UpdatePlanFeatures, Change
  <2>2. LimitTypes'
    BY <1>1, <1>5, <2>1 DEF LimitTypes
  <2> QED
    BY <1>4, <1>8, <2>1, <2>2 DEF UpdatePlanFeatures
<1>9. ASSUME NEW a \in Account, CancelSubscription(a) PROVE TenancyInv'
  <2>1. /\ subscribed' = subscribed \ {a}
        /\ UNCHANGED <<users, override, plan, billed, planActive>>
    BY <1>9 DEF CancelSubscription, Change
  <2>2. LimitTypes'
    BY <1>1, <2>1 DEF LimitTypes
  <2> QED
    BY <1>4, <1>9, <2>1, <2>2 DEF CancelSubscription
<1>10. ASSUME UpdateSubscriptionPlan PROVE TenancyInv'
  <2>1. /\ planActive' = ~planActive
        /\ UNCHANGED <<users, override, plan, subscribed, billed>>
    BY <1>10 DEF UpdateSubscriptionPlan, Change
  <2>2. LimitTypes'
    BY <1>1, <2>1 DEF LimitTypes
  <2> QED
    BY <1>4, <1>10, <2>1, <2>2 DEF UpdateSubscriptionPlan
<1>11. ASSUME NEW u \in Login, CreatePlatformSupport(u) PROVE TenancyInv'
  <2>1. /\ users' = users \cup {u} /\ Change
        /\ UNCHANGED <<override, plan, subscribed, billed, planActive>>
    BY <1>11 DEF CreatePlatformSupport, Change
  <2>2. LimitTypes' /\ users \subseteq users' /\ users' \subseteq Login
    BY <1>1, <2>1 DEF LimitTypes, BusinessTypes
  <2> QED
    BY <1>2, <1>3, <2>1, <2>2
<1> QED
  BY <1>6, <1>7, <1>8, <1>9, <1>10, <1>11 DEF Platform

-----------------------------------------------------------------------------
(* Theorems                                                                *)

\* The invariant holds in every state.
LEMMA TenancyInvariant == TenancySpec => []TenancyInv
<1>1. TenancyInv /\ [TenancyNext]_tenancyVars => TenancyInv'
  <2> SUFFICES ASSUME TenancyInv, [TenancyNext]_tenancyVars PROVE TenancyInv'
    OBVIOUS
  <2>1. CASE Platform
    BY <2>1, PlatformKeeps
  <2>2. ASSUME NEW c \in Client, Request(c) PROVE TenancyInv'
    BY <2>2, RequestKeeps
  <2>3. ASSUME NEW c \in Client, Step(c) PROVE TenancyInv'
    BY <2>3, StepKeeps
  <2>4. ASSUME NEW c \in Client, Abort(c) PROVE TenancyInv'
    BY <2>4, RollbackKeeps DEF Abort
  <2>5. CASE UNCHANGED tenancyVars
    <3>1. /\ UNCHANGED <<accounts, owner, users, restaurants, taxed, members, tables>>
          /\ UNCHANGED <<override, plan, subscribed, billed, planActive>>
          /\ UNCHANGED <<accountLock, pc, tx, changes, connections, workload>>
      BY <2>5 DEF tenancyVars, business, limits, setting
    <3>2. TenancyTypeOK'
      BY <3>1 DEF TenancyInv, TenancyTypeOK, At
    <3>3. Protection'
      BY <3>1 DEF TenancyInv, Protection, Stages, Existing, Apart, Held, Taxed, At
    <3>4. RestaurantLimitHolds' /\ UserLimitHolds' /\ AccountsComplete'
      BY <3>1 DEF TenancyInv, RestaurantLimitHolds, UserLimitHolds, AccountsComplete, At
    <3> QED
      BY <3>2, <3>3, <3>4 DEF TenancyInv
  <2> QED
    BY <2>1, <2>2, <2>3, <2>4, <2>5 DEF TenancyNext
<1> QED
  BY <1>1, InitInvariant, PTL DEF TenancySpec

\* Rows and requests have their types, and no lock outlives its request.
THEOREM TenancyTypeCorrect == TenancySpec => []TenancyTypeOK
<1>1. TenancyInv => TenancyTypeOK
  BY DEF TenancyInv
<1> QED
  BY <1>1, TenancyInvariant, PTL

\* Whatever the platform changes meanwhile, no commit of a restaurant exceeds
\* the limit that its request was told (restaurants.go:95).
THEOREM RestaurantsWithinLimit == TenancySpec => []RestaurantLimitHolds
<1>1. TenancyInv => RestaurantLimitHolds
  BY DEF TenancyInv
<1> QED
  BY <1>1, TenancyInvariant, PTL

\* Nor does any commit of a login (team.go:104).
THEOREM LoginsWithinLimit == TenancySpec => []UserLimitHolds
<1>1. TenancyInv => UserLimitHolds
  BY DEF TenancyInv
<1> QED
  BY <1>1, TenancyInvariant, PTL

\* Whatever fails or is cut off between its statements, every account has its
\* owner, its owner a restaurant, every restaurant tax settings, and every account
\* a subscription, if only a canceled one (platform.go:329).
THEOREM NoHalfAccounts == TenancySpec => []AccountsComplete
<1>1. TenancyInv => AccountsComplete
  BY DEF TenancyInv
<1> QED
  BY <1>1, TenancyInvariant, PTL

-----------------------------------------------------------------------------
(* Tables: no lock, and so a bound on how far the limit is exceeded        *)

TableLimit == PlanLimits["tables"]

\* The platform offers no limit of tables above the one of the plan.
NotRaised == "tables" \in Changeable => \A n \in Offered : n <= TableLimit

\* A request that may still add a table to account a: it has seen that there is
\* room, or has yet to be told otherwise.
MayAdd(p, t, a) == t.op = "table" /\ t.account = a /\ p # "count" /\ t.count < TableLimit

Adding(a) == {c \in Client : MayAdd(pc[c], tx[c], a)}

\* What it is told is no more than the limit of the plan.
Told(p, t) ==
    t.op = "table" =>
        /\ p = "check" => t.limit <= TableLimit
        /\ p = "commit" => t.count < TableLimit

ToldAll == \A c \in Client : Told(pc[c], tx[c])

Granted ==
    /\ plan["tables"] <= TableLimit
    /\ \A a \in Account : override[a]["tables"] # Unset => override[a]["tables"] <= TableLimit

\* The tables there are and those that may still come: counting them starts only
\* below the limit, where all connections together do not exceed the bound.
Overshoot ==
    \A a \in Account : tables[a] + Cardinality(Adding(a)) <= TableLimit + Cardinality(Client) - 1

TablesInv == Granted /\ ToldAll /\ Overshoot

\* Numbers of connections.
LEMMA ClientCounts ==
    /\ Cardinality(Client) \in Nat \ {0}
    /\ TableLimit \in Nat
    /\ \A S \in SUBSET Client :
         /\ IsFiniteSet(S) /\ Cardinality(S) \in Nat /\ Cardinality(S) <= Cardinality(Client)
         /\ \A R \in SUBSET S : Cardinality(R) <= Cardinality(S)
         /\ \A c \in S : Cardinality(S \ {c}) = Cardinality(S) - 1
<1>1. IsFiniteSet(Client) /\ Client # {} /\ TableLimit \in Nat
  BY TenancyAssumptions DEF TableLimit, Feature
<1>2. Cardinality(Client) \in Nat \ {0}
  BY <1>1, FS_CardinalityType, FS_EmptySet
<1>3. ASSUME NEW S \in SUBSET Client
      PROVE  /\ IsFiniteSet(S) /\ Cardinality(S) \in Nat /\ Cardinality(S) <= Cardinality(Client)
             /\ \A R \in SUBSET S : Cardinality(R) <= Cardinality(S)
             /\ \A c \in S : Cardinality(S \ {c}) = Cardinality(S) - 1
  <2>1. IsFiniteSet(S) /\ Cardinality(S) <= Cardinality(Client)
    BY <1>1, FS_Subset
  <2>2. Cardinality(S) \in Nat
    BY <2>1, FS_CardinalityType
  <2>3. \A R \in SUBSET S : Cardinality(R) <= Cardinality(S)
    BY <2>1, FS_Subset
  <2>4. \A c \in S : Cardinality(S \ {c}) = Cardinality(S) - 1
    BY <2>1, FS_RemoveElement
  <2> QED
    BY <2>1, <2>2, <2>3, <2>4
<1> QED
  BY <1>1, <1>2, <1>3

\* An account whose tables nobody has added to, and which nobody has counted, or
\* only while there was room.
LEMMA OvershootKept ==
    ASSUME Overshoot, NEW a \in Account, tables[a] \in Nat, tables'[a] = tables[a],
           Adding(a)' \subseteq Adding(a) \/ tables[a] < TableLimit
    PROVE  tables'[a] + Cardinality(Adding(a)') <= TableLimit + Cardinality(Client) - 1
<1> DEFINE before == Adding(a)
           after == Adding(a)'
           others == Cardinality(Client)
<1>1. before \in SUBSET Client /\ after \in SUBSET Client
  BY DEF Adding
<1>2. /\ others \in Nat \ {0} /\ TableLimit \in Nat
      /\ Cardinality(before) \in Nat /\ Cardinality(after) \in Nat
      /\ Cardinality(after) <= others
      /\ after \subseteq before => Cardinality(after) <= Cardinality(before)
  BY <1>1, ClientCounts
<1>3. tables[a] + Cardinality(before) <= TableLimit + others - 1
  BY DEF Overshoot
<1> HIDE DEF before, after, others
<1>4. Cardinality(after) <= Cardinality(before) \/ tables[a] < TableLimit
  BY <1>2 DEF before, after
<1> QED
  <2>1. tables'[a] + Cardinality(after) <= TableLimit + others - 1
    BY <1>2, <1>3, <1>4
  <2> QED
    BY <2>1 DEF after, others

\* A step of one request that adds no table.
LEMMA TablesKept ==
    ASSUME TenancyTypeOK, TablesInv, NEW c \in Client, Granted', UNCHANGED tables,
           \A d \in Client \ {c} : pc'[d] = pc[d] /\ tx'[d] = tx[d],
           Told(pc'[c], tx'[c]),
           \A a \in Account : MayAdd(pc'[c], tx'[c], a) =>
                                MayAdd(pc[c], tx[c], a) \/ tables[a] < TableLimit
    PROVE  TablesInv'
<1>1. ToldAll'
  BY DEF TablesInv, ToldAll
<1>2. ASSUME NEW a \in Account
      PROVE  tables'[a] + Cardinality(Adding(a)') <= TableLimit + Cardinality(Client) - 1
  <2>1. Adding(a)' \subseteq Adding(a) \/ tables[a] < TableLimit
    BY DEF Adding
  <2>2. tables[a] \in Nat /\ tables'[a] = tables[a]
    BY TypeParts DEF BusinessTypes
  <2> QED
    BY <2>1, <2>2, OvershootKept DEF TablesInv
<1>3. Overshoot'
  BY <1>2 DEF Overshoot
<1> QED
  BY <1>1, <1>3 DEF TablesInv

\* One that leaves the limits alone too.
LEMMA TablesOfStep ==
    ASSUME TenancyTypeOK, TablesInv, NEW c \in Client, UNCHANGED <<override, plan, tables>>,
           NEW mine, NEW next, Local(c, mine), Goto(c, next),
           Told(next, mine),
           \A a \in Account : MayAdd(next, mine, a) =>
                                MayAdd(pc[c], tx[c], a) \/ tables[a] < TableLimit
    PROVE  TablesInv'
<1>1. Granted'
  BY DEF TablesInv, Granted
<1>2. /\ pc'[c] = next /\ tx'[c] = mine
      /\ \A d \in Client \ {c} : pc'[d] = pc[d] /\ tx'[d] = tx[d]
  BY TypeParts DEF RequestTypes, Local, Goto
<1> QED
  BY <1>1, <1>2, TablesKept

\* A request that ends without a table.
LEMMA TablesOfEnd ==
    ASSUME TenancyTypeOK, TablesInv, NEW c \in Client, UNCHANGED <<override, plan, tables>>,
           Local(c, NoTx), Goto(c, "idle")
    PROVE  TablesInv'
<1>1. NoTx.op # "table"
  BY DEF NoTx
<1>2. Told("idle", NoTx) /\ \A a \in Account : ~MayAdd("idle", NoTx, a)
  BY <1>1 DEF Told, MayAdd
<1> QED
  BY <1>2, TablesOfStep

\* A commit of a table adds one, and takes its request from those that may add.
LEMMA TablesOfCommit ==
    ASSUME TenancyTypeOK, TablesInv, NEW c \in Client, At(c, "commit"), CommitTable(c),
           Local(c, NoTx), Goto(c, "idle"), UNCHANGED <<override, plan>>
    PROVE  TablesInv'
<1> DEFINE mine == tx[c].account
<1>1. NoTx.op # "table"
  BY DEF NoTx
<1>2. /\ pc'[c] = "idle" /\ tx'[c] = NoTx
      /\ \A d \in Client \ {c} : pc'[d] = pc[d] /\ tx'[d] = tx[d]
  BY TypeParts DEF RequestTypes, Local, Goto
<1>3. /\ mine \in Account /\ tables \in [Account -> Nat]
      /\ tables' = [tables EXCEPT ![mine] = @ + 1] /\ tx[c].op = "table"
  BY TypeParts DEF BusinessTypes, RequestTypes, TenancyTx, CommitTable
<1>4. MayAdd(pc[c], tx[c], mine)
  BY <1>3 DEF At, TablesInv, ToldAll, Told, MayAdd
<1>5. Granted' /\ ToldAll'
  BY <1>1, <1>2 DEF TablesInv, Granted, ToldAll, Told
<1>6. \A a \in Account : Adding(a)' \subseteq Adding(a) \ {c}
  BY <1>1, <1>2 DEF Adding, MayAdd
<1>7. ASSUME NEW a \in Account
      PROVE  tables'[a] + Cardinality(Adding(a)') <= TableLimit + Cardinality(Client) - 1
  <2>1. CASE a # mine
    BY <1>3, <1>6, <2>1, OvershootKept DEF TablesInv
  <2>2. CASE a = mine
    <3> DEFINE before == Adding(a)
               after == Adding(a)'
               others == Cardinality(Client)
    <3>1. before \in SUBSET Client /\ c \in before /\ after \in SUBSET (before \ {c})
      BY <1>4, <1>6, <2>2 DEF Adding
    <3>2. /\ others \in Nat /\ TableLimit \in Nat /\ Cardinality(before) \in Nat
          /\ Cardinality(before \ {c}) = Cardinality(before) - 1
      BY <3>1, ClientCounts
    <3>3. /\ Cardinality(after) \in Nat
          /\ Cardinality(after) <= Cardinality(before \ {c})
      <4>1. before \ {c} \in SUBSET Client /\ after \in SUBSET Client
        BY <3>1
      <4> QED
        BY <3>1, <4>1, ClientCounts
    <3>4. tables[a] + Cardinality(before) <= TableLimit + others - 1
      BY DEF TablesInv, Overshoot
    <3>5. tables'[a] = tables[a] + 1 /\ tables[a] \in Nat
      BY <1>3, <2>2
    <3> HIDE DEF before, after, others
    <3>6. tables'[a] + Cardinality(after) <= TableLimit + others - 1
      BY <3>2, <3>3, <3>4, <3>5
    <3> QED
      BY <3>6 DEF after, others
  <2> QED
    BY <2>1, <2>2
<1>8. Overshoot'
  BY <1>7 DEF Overshoot
<1> QED
  BY <1>5, <1>8 DEF TablesInv

\* A request goes on.
LEMMA TablesStep ==
    ASSUME TenancyInv, TablesInv, NEW c \in Client, Step(c)
    PROVE  TablesInv'
<1> DEFINE t == tx[c]
<1>1. /\ TenancyTypeOK /\ Stage(pc[c], t) /\ t \in TenancyTx
      /\ t.account \in Account /\ t.limit \in Nat /\ t.count \in Nat
  BY TypeParts DEF TenancyInv, RequestTypes, TenancyTx, Protection, Stages
<1>2. /\ plan["tables"] \in Nat /\ plan["tables"] <= TableLimit
      /\ override[t.account]["tables"] \in Nat \cup {Unset}
      /\ override[t.account]["tables"] # Unset => override[t.account]["tables"] <= TableLimit
      /\ TableLimit \in Nat
  BY <1>1, TypeParts, ClientCounts DEF LimitTypes, Feature, TablesInv, Granted
<1>3. FeatureOf("table") = "tables"
  BY DEF FeatureOf
\* A statement that reads, after which the request may add if it could before.
<1>4. ASSUME NEW mine, NEW next, Reads(c, mine, next), mine.op = t.op,
             t.op = "table" =>
                 /\ pc[c] # "count" /\ mine.count = t.count /\ mine.account = t.account
                 /\ Told(next, mine)
      PROVE  TablesInv'
  <2>1. UNCHANGED <<override, plan, tables>> /\ Local(c, mine) /\ Goto(c, next)
    BY <1>4 DEF Reads, business, limits
  <2>2. Told(next, mine) /\ \A a \in Account : MayAdd(next, mine, a) => MayAdd(pc[c], t, a)
    BY <1>4 DEF Told, MayAdd
  <2> QED
    BY <1>1, <2>1, <2>2, TablesOfStep
<1>5. ASSUME Rollback(c) PROVE TablesInv'
  BY <1>1, <1>5, TablesOfEnd DEF Rollback, End, business
<1>6. ASSUME NEW limit, pc[c] # "count", WithLimit(c, limit), t.op = "table" => limit <= TableLimit
      PROVE  TablesInv'
  <2> DEFINE mine == [t EXCEPT !.limit = limit]
  <2>1. /\ mine.op = t.op /\ mine.account = t.account /\ mine.count = t.count
        /\ mine.limit = limit
    BY <1>1 DEF TenancyTx
  <2>2. Reads(c, mine, AfterLimit(t.op))
    BY <1>6 DEF WithLimit
  <2>3. t.op = "table" => AfterLimit(t.op) = "check"
    BY DEF AfterLimit
  <2> HIDE DEF mine
  <2>4. t.op = "table" => Told(AfterLimit(t.op), mine)
    BY <1>6, <2>1, <2>3 DEF Told
  <2> QED
    BY <1>4, <1>6, <2>1, <2>2, <2>4
<1>7. CASE LockAccount(c)
  <2>1. UNCHANGED <<override, plan, tables, tx>> /\ Goto(c, "override") /\ t.op \in Locking
    BY <1>1, <1>7 DEF LockAccount, business, limits, At, Stage
  <2>2. Local(c, t)
    BY <1>1, <2>1, TypeParts DEF Local, RequestTypes
  <2>3. Told("override", t) /\ \A a \in Account : ~MayAdd("override", t, a)
    BY <2>1 DEF Told, MayAdd, Locking
  <2> QED
    BY <1>1, <2>1, <2>2, <2>3, TablesOfStep
<1>8. CASE ReadOverride(c)
  <2>1. pc[c] = "override"
    BY <1>8 DEF ReadOverride, At
  <2>2. CASE Reads(c, t, "plan")
    BY <1>4, <2>1, <2>2 DEF Told
  <2>3. CASE LET granted == override[t.account][FeatureOf(t.op)]
             IN  granted # Unset /\ WithLimit(c, granted)
    BY <1>2, <1>3, <1>6, <2>1, <2>3
  <2> QED
    BY <1>8, <2>2, <2>3 DEF ReadOverride
<1>9. CASE ReadPlan(c)
  <2>1. pc[c] = "plan"
    BY <1>9 DEF ReadPlan, At
  <2>2. CASE WithLimit(c, plan[FeatureOf(t.op)])
    BY <1>2, <1>3, <1>6, <2>1, <2>2
  <2> QED
    BY <1>5, <1>9, <2>2 DEF ReadPlan
<1>10. CASE CountRestaurants(c)
  <2>1. t.op = "restaurant"
    BY <1>10 DEF CountRestaurants
  <2>2. [t EXCEPT !.count = restaurants[t.account]].op = t.op
    BY <1>1 DEF TenancyTx
  <2>3. CASE Reads(c, [t EXCEPT !.count = restaurants[t.account]], "restaurant")
    BY <1>4, <2>1, <2>2, <2>3
  <2> QED
    BY <1>5, <1>10, <2>3 DEF CountRestaurants
<1>one. CASE CountTables(c)
  <2> DEFINE mine == [t EXCEPT !.count = tables[t.account]]
  <2>1. Reads(c, mine, "override")
    BY <1>one DEF CountTables
  <2>2. UNCHANGED <<override, plan, tables>> /\ Local(c, mine) /\ Goto(c, "override")
    BY <2>1 DEF Reads, business, limits
  <2>3. mine.count = tables[t.account] /\ mine.account = t.account
    BY <1>1 DEF TenancyTx
  <2> HIDE DEF mine
  <2>4. \A a \in Account : MayAdd("override", mine, a) => tables[a] < TableLimit
    BY <2>3 DEF MayAdd
  <2>5. Told("override", mine)
    BY DEF Told
  <2> QED
    BY <1>1, <2>2, <2>4, <2>5, TablesOfStep
<1>12. CASE InsertTable(c)
  <2>1. pc[c] = "check" /\ t.op = "table"
    BY <1>1, <1>12 DEF InsertTable, At, Stage
  <2>2. t.limit <= TableLimit
    BY <2>1 DEF TablesInv, ToldAll, Told
  <2>3. CASE t.count < t.limit /\ Reads(c, t, "commit")
    <3>1. t.count < TableLimit
      BY <1>1, <1>2, <2>2, <2>3
    <3> QED
      BY <1>4, <2>1, <2>3, <3>1 DEF Told
  <2> QED
    BY <1>5, <1>12, <2>3 DEF InsertTable
<1>13. CASE InsertUser(c)
  <2> DEFINE mine == [t EXCEPT !.newUsers = {t.login}]
  <2>1. t.op # "table" /\ mine.op = t.op
    BY <1>1, <1>13 DEF InsertUser, At, Stage, TenancyTx
  <2>2. ASSUME NEW next, Reads(c, mine, next) PROVE TablesInv'
    BY <1>4, <2>1, <2>2
  <2> QED
    BY <1>5, <1>13, <2>2 DEF InsertUser
<1>14. CASE EnsureCapacity(c)
  <2>1. t.op # "table"
    BY <1>1, <1>14 DEF EnsureCapacity, At, Stage
  <2>2. CASE Reads(c, t, "commit")
    BY <1>4, <2>1, <2>2
  <2> QED
    BY <1>5, <1>14, <2>2 DEF EnsureCapacity
<1>15. CASE SelectPlan(c)
  <2>1. t.op # "table"
    BY <1>1, <1>15 DEF SelectPlan, At, Stage
  <2>2. CASE Reads(c, t, "restaurant")
    BY <1>4, <2>1, <2>2
  <2> QED
    BY <1>5, <1>15, <2>2 DEF SelectPlan
<1>16. CASE InsertRow(c)
  <2> DEFINE mine == [t EXCEPT !.written = @ \cup {pc[c]}]
  <2>1. t.op # "table" /\ mine.op = t.op
    BY <1>1, <1>16 DEF InsertRow, Row, Stage, TenancyTx
  <2>2. Reads(c, mine, AfterInsert(t.op, pc[c]))
    BY <1>16 DEF InsertRow
  <2> QED
    BY <1>4, <2>1, <2>2
<1>17. CASE Commit(c)
  <2>1. /\ At(c, "commit") /\ Local(c, NoTx) /\ Goto(c, "idle") /\ UNCHANGED <<override, plan>>
        /\ CommitRows(c) \/ CommitLogin(c) \/ CommitTable(c)
    BY <1>17 DEF Commit, End
  <2>2. CASE CommitTable(c)
    BY <1>1, <2>1, <2>2, TablesOfCommit
  <2>3. CASE UNCHANGED tables
    BY <1>1, <2>1, <2>3, TablesOfEnd
  <2> QED
    BY <2>1, <2>2, <2>3 DEF CommitRows, CommitLogin
<1> QED
  BY <1>7, <1>8, <1>9, <1>10, <1>one, <1>12, <1>13, <1>14, <1>15, <1>16, <1>17 DEF Step

\* A request that arrives has counted nothing.
LEMMA TablesRequest ==
    ASSUME TenancyInv, TablesInv, NEW c \in Client, Request(c)
    PROVE  TablesInv'
<1>1. ASSUME NEW op, NEW a, NEW u, NEW first, Begin(c, op, a, u, first),
             op = "table" => first = "count"
      PROVE  TablesInv'
  <2> DEFINE mine == [NoTx EXCEPT !.op = op, !.account = a, !.login = u]
  <2>1. UNCHANGED <<override, plan, tables>> /\ Local(c, mine) /\ Goto(c, first)
    BY <1>1 DEF Begin, business, limits
  <2>2. mine.op = op
    BY DEF NoTx
  <2> HIDE DEF mine
  <2>3. Told(first, mine) /\ \A b \in Account : ~MayAdd(first, mine, b)
    BY <1>1, <2>2 DEF Told, MayAdd
  <2> QED
    BY <2>1, <2>3, TablesOfStep DEF TenancyInv
<1>2. PICK a \in Account, u \in Login :
        \/ CreateRestaurant(c, a) \/ AddTable(c, a) \/ CreateRestaurantLogin(c, a, u)
        \/ AddExistingRestaurantLogin(c, a, u) \/ CreateCustomerAccount(c, a, u)
  BY TenancyAssumptions DEF Request
<1> QED
  BY <1>1, <1>2 DEF CreateRestaurant, AddTable, CreateRestaurantLogin,
                    AddExistingRestaurantLogin, CreateCustomerAccount

\* The platform grants no more tables than the plan did.
LEMMA TablesPlatform ==
    ASSUME NotRaised, TenancyInv, TablesInv, Platform
    PROVE  TablesInv'
<1>1. UNCHANGED <<tables, pc, tx>>
  BY DEF Platform, SetAccountFeatureOverride, DeleteAccountFeatureOverride,
         UpdatePlanFeatures, UpdateSubscriptionPlan, CancelSubscription,
         CreatePlatformSupport, Change
<1>2. /\ override \in [Account -> [Feature -> Nat \cup {Unset}]] /\ plan \in [Feature -> Nat]
  BY TypeParts DEF TenancyInv, LimitTypes
<1>3. Granted'
  <2>1. CASE UNCHANGED <<override, plan>>
    BY <2>1 DEF Granted, TablesInv
  <2>2. ASSUME NEW a \in Account, NEW f \in Changeable, NEW n \in Offered,
               SetAccountFeatureOverride(a, f, n)
        PROVE  Granted'
    <3>1. override' = [override EXCEPT ![a][f] = n] /\ UNCHANGED plan
      BY <2>2 DEF SetAccountFeatureOverride
    <3>2. \A b \in Account : \/ override'[b]["tables"] = override[b]["tables"]
                             \/ override'[b]["tables"] = n /\ f = "tables"
      BY <1>2, <3>1
    <3>3. f = "tables" => n <= TableLimit
      BY DEF NotRaised
    <3> QED
      BY <3>1, <3>2, <3>3 DEF Granted, TablesInv
  <2>3. ASSUME NEW a \in Account, NEW f \in Changeable, DeleteAccountFeatureOverride(a, f)
        PROVE  Granted'
    <3>1. override' = [override EXCEPT ![a][f] = Unset] /\ UNCHANGED plan
      BY <2>3 DEF DeleteAccountFeatureOverride
    <3>2. \A b \in Account : \/ override'[b]["tables"] = override[b]["tables"]
                             \/ override'[b]["tables"] = Unset
      BY <1>2, <3>1
    <3> QED
      BY <3>1, <3>2 DEF Granted, TablesInv
  <2>4. ASSUME NEW f \in Changeable, NEW n \in Offered, UpdatePlanFeatures(f, n)
        PROVE  Granted'
    <3>1. plan' = [plan EXCEPT ![f] = n] /\ UNCHANGED override
      BY <2>4 DEF UpdatePlanFeatures
    <3>2. f = "tables" => n <= TableLimit
      BY DEF NotRaised
    <3>3. plan'["tables"] = plan["tables"] \/ (plan'["tables"] = n /\ f = "tables")
      BY <1>2, <3>1
    <3> QED
      BY <3>1, <3>2, <3>3 DEF Granted, TablesInv
  <2> QED
    BY <2>1, <2>2, <2>3, <2>4
       DEF Platform, UpdateSubscriptionPlan, CancelSubscription, CreatePlatformSupport
<1>4. PICK c \in Client : TRUE
  BY TenancyAssumptions
<1>5. Told(pc'[c], tx'[c])
  BY <1>1 DEF TablesInv, ToldAll
<1>6. TenancyTypeOK
  BY DEF TenancyInv
<1> QED
  BY <1>1, <1>3, <1>5, <1>6, TablesKept

\* AddTable exceeds a limit that is not raised meanwhile by as many tables as
\* there are other connections, and by no more, however long they go on and
\* whoever else gets in between (tables.go:174).
THEOREM TablesOvershoot ==
    ASSUME NotRaised
    PROVE  TenancySpec => []TablesOvershootAtMost
<1>1. TenancyInit => TablesInv
  <2> SUFFICES ASSUME TenancyInit PROVE TablesInv
    OBVIOUS
  <2>1. \A c \in Client : tx[c].op = "none"
    BY DEF TenancyInit, NoTx
  <2>2. ToldAll
    BY <2>1 DEF ToldAll, Told
  <2>3. Granted
    <3>1. PICK granted \in Offered \cup {Unset} :
            override = [a \in Account |-> [f \in Feature |->
                          IF a \in Established /\ f \in Changeable THEN granted ELSE Unset]]
      BY DEF TenancyInit
    <3>2. \A a \in Account :
            override[a]["tables"] # Unset =>
                override[a]["tables"] = granted /\ "tables" \in Changeable /\ granted # Unset
      BY <3>1 DEF Feature
    <3>3. plan["tables"] = TableLimit /\ TableLimit \in Nat
      BY ClientCounts DEF TenancyInit, TableLimit
    <3> QED
      BY <3>1, <3>2, <3>3 DEF Granted, NotRaised
  <2>4. \A a \in Account : tables[a] = 0 /\ Adding(a) = {}
    BY <2>1 DEF TenancyInit, Adding, MayAdd
  <2>5. Overshoot
    BY <2>4, ClientCounts, FS_EmptySet DEF Overshoot
  <2> QED
    BY <2>2, <2>3, <2>5 DEF TablesInv
<1>2. TenancyInv /\ TablesInv /\ [TenancyNext]_tenancyVars => TablesInv'
  <2> SUFFICES ASSUME TenancyInv, TablesInv, [TenancyNext]_tenancyVars PROVE TablesInv'
    OBVIOUS
  <2>1. ASSUME NEW c \in Client, Abort(c) PROVE TablesInv'
    BY <2>1, TablesOfEnd DEF Abort, Rollback, End, business, TenancyInv
  <2>2. CASE UNCHANGED tenancyVars
    BY <2>2 DEF tenancyVars, business, limits, TablesInv, Granted, ToldAll, Overshoot, Adding
  <2> QED
    BY <2>1, <2>2, TablesPlatform, TablesRequest, TablesStep DEF TenancyNext
<1>3. TenancyInv /\ TablesInv => TablesOvershootAtMost
  <2> SUFFICES ASSUME TenancyInv, TablesInv, NEW a \in Account
               PROVE  tables[a] <= PlanLimits["tables"] + Cardinality(Client) - 1
    BY DEF TablesOvershootAtMost
  <2>1. /\ Cardinality(Adding(a)) \in Nat /\ TableLimit \in Nat /\ Cardinality(Client) \in Nat
    BY ClientCounts DEF Adding
  <2>2. tables[a] \in Nat
    BY TypeParts DEF TenancyInv, BusinessTypes
  <2>3. tables[a] + Cardinality(Adding(a)) <= TableLimit + Cardinality(Client) - 1
    BY DEF TablesInv, Overshoot
  <2> QED
    BY <2>1, <2>2, <2>3 DEF TableLimit
<1> QED
  BY <1>1, <1>2, <1>3, TenancyInvariant, PTL DEF TenancySpec

=============================================================================
