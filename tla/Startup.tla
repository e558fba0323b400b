------------------------------ MODULE Startup ------------------------------
(***************************************************************************)
(* The start of the server (cmd/server/main.go): RunMigrations             *)
(* (internal/db/migrations.go), the reference seed (docs/seed.sql) and     *)
(* BootstrapPlatformOwner (internal/db/bootstrap.go).  Several instances   *)
(* start at once on one database, each may crash anywhere, and whoever     *)
(* stopped is started again (Restart=on-failure, docs/v-1.0.0/RUNBOOK.md). *)
(*                                                                         *)
(* One action is one statement.  The runner takes no lock of its own: what *)
(* keeps two instances apart are the row locks and the primary key of      *)
(* schema_migrations, and migrations that cannot be applied twice.         *)
(***************************************************************************)
EXTENDS Naturals, FiniteSetsExt

CONSTANTS
    Instance,       \* the processes
    Latest,         \* the last of the embedded migrations 1 .. Latest
    Idempotent,     \* those that can be applied again (docs/0007, docs/0008)
    Deployments,    \* versions of the database when this release is deployed
    HasCredentials, \* instances with PLATFORM_OWNER_USERNAME and _PASSWORD
    Nobody,
    MaxCrashes      \* a bound

ASSUME StartupAssumptions ==
    /\ Latest \in Nat \ {0}
    /\ Idempotent \subseteq 1 .. Latest
    /\ Deployments \subseteq 0 .. Latest
    /\ HasCredentials \subseteq Instance
    /\ Nobody \notin Instance
    /\ MaxCrashes \in Nat

VARIABLES
    deployed,  \* the version found by this release, for the properties only
    table,     \* schema_migrations exists
    rows,      \* the committed versions in it
    dirty,     \* those with dirty = true
    applied,   \* migrations whose content is committed
    plan,      \* a value in plan_features
    owners,    \* committed rows of platform_admins
    rowLock,   \* the transaction that has deleted a row, uncommitted
    bootLock,  \* the holder of advisory lock 746281903
    pc,        \* the next statement of each instance
    tx,        \* its local variables and uncommitted writes
    crashes

schema == <<deployed, table, rows, dirty, applied>>
data == <<plan, owners>>
locks == <<rowLock, bootLock>>
vars == <<schema, data, locks, pc, tx, crashes>>

Migration == 1 .. Latest

-----------------------------------------------------------------------------
(* The initial state: a new database, or one the last release has served   *)

NoTx == [next |-> 0, todo |-> {}, deleted |-> {}, inserted |-> {},
         dirty |-> FALSE, content |-> {}, owner |-> FALSE]

Init ==
    /\ deployed \in Deployments
    /\ table = (deployed # 0)
    /\ rows = {deployed} \ {0}
    /\ dirty = {}
    /\ applied = 1 .. deployed
    /\ plan = IF deployed = 0 THEN "absent" ELSE "edited"
    /\ owners = IF deployed = 0 THEN 0 ELSE 1
    /\ rowLock = [v \in Migration |-> Nobody]
    /\ bootLock = Nobody
    /\ pc = [i \in Instance |-> "create"]
    /\ tx = [i \in Instance |-> NoTx]
    /\ crashes = 0

-----------------------------------------------------------------------------
(* Statements and transactions                                             *)

At(i, statement) == pc[i] = statement
Goto(i, statement) == pc' = [pc EXCEPT ![i] = statement]
Local(i, mine) == tx' = [tx EXCEPT ![i] = mine]

ReleasedNothing(i) == rowLock

Released(i) == [v \in Migration |-> IF rowLock[v] = i THEN Nobody ELSE rowLock[v]]

\* log.Fatalf, or the process dies: its connection is closed and its
\* transaction rolled back.
Stop(i) ==
    /\ Goto(i, "down")
    /\ Local(i, NoTx)
    /\ rowLock' = Released(i)
    /\ bootLock' = IF bootLock = i THEN Nobody ELSE bootLock
    /\ UNCHANGED <<schema, data>>

Crash(i) ==
    /\ ~At(i, "down")
    /\ crashes < MaxCrashes
    /\ crashes' = crashes + 1
    /\ Stop(i)

Start(i) ==
    /\ At(i, "down")
    /\ Goto(i, "create")
    /\ UNCHANGED <<schema, data, locks, tx, crashes>>

-----------------------------------------------------------------------------
(* RunMigrations                                                           *)

\* CREATE TABLE IF NOT EXISTS: who did not see the table and comes second to
\* create it gets an error.
FindTable(i) ==
    /\ At(i, "create")
    /\ Goto(i, IF table THEN "read" ELSE "make")
    /\ UNCHANGED <<schema, data, locks, tx, crashes>>

MakeTable(i) ==
    /\ At(i, "make")
    /\ \/ ~table /\ table' = TRUE /\ Goto(i, "read")
          /\ UNCHANGED <<deployed, rows, dirty, applied, data, locks, tx>>
       \/ table /\ Stop(i)
    /\ UNCHANGED crashes

\* The loop over the sorted files skips versions up to the current one.
Pending(version) == {m \in Migration : m > version}

HighestFirst(version) ==
    IF Pending(version) = {} THEN [version |-> 0, step |-> "seed"]
    ELSE [version |-> Max(Pending(version)), step |-> "clear"]

NextAfter(version) ==
    IF Pending(version) = {} THEN [version |-> 0, step |-> "seed"]
    ELSE [version |-> Min(Pending(version)), step |-> "clear"]

\* SELECT version, dirty FROM schema_migrations LIMIT 1: any of the rows.
ReadVersion(i) ==
    /\ At(i, "read")
    /\ \E v \in IF rows = {} THEN {0} ELSE rows :
         \/ /\ v \notin dirty
            /\ Local(i, [NoTx EXCEPT !.next = NextAfter(v).version])
            /\ Goto(i, NextAfter(v).step)
            /\ UNCHANGED <<schema, data, locks>>
         \/ v \in dirty /\ Stop(i)
    /\ UNCHANGED crashes

ClearNothing(i) ==
    /\ At(i, "clear")
    /\ Goto(i, "insert")
    /\ UNCHANGED <<schema, data, locks, tx, crashes>>

\* DELETE FROM schema_migrations works on the rows committed when it starts,
\* one after the other in their order in the table.
Clear(i) ==
    /\ At(i, "clear")
    /\ Local(i, [tx[i] EXCEPT !.todo = rows])
    /\ Goto(i, IF rows = {} THEN "insert" ELSE "clearRow")
    /\ UNCHANGED <<schema, data, locks, crashes>>

\* It waits for a row that another transaction has deleted; such a row is
\* skipped once that transaction has committed (and then not in todo).
ClearRow(i) ==
    LET v == Min(tx[i].todo)
        rest == tx[i].todo \ {v}
    IN  /\ At(i, "clearRow")
        /\ \/ tx[i].todo = {} /\ Goto(i, "insert") /\ UNCHANGED <<tx, rowLock>>
           \/ /\ tx[i].todo # {}
              /\ rowLock[v] = Nobody
              /\ rowLock' = [rowLock EXCEPT ![v] = i]
              /\ Local(i, [tx[i] EXCEPT !.todo = rest, !.deleted = @ \cup {v}])
              /\ Goto(i, IF rest = {} THEN "insert" ELSE "clearRow")
        /\ UNCHANGED <<schema, data, bootLock, crashes>>

\* Whoever may still commit or take back a row with this primary key.
Undecided(i, v) ==
    \/ \E j \in Instance \ {i} : v \in tx[j].inserted
    \/ v \in rows /\ rowLock[v] \notin {Nobody, i}

Duplicate(i, v) == v \in rows /\ v \notin tx[i].deleted

\* INSERT (version, dirty = true)
InsertVersion(i) ==
    LET v == tx[i].next
    IN  /\ At(i, "insert")
        /\ ~Undecided(i, v)
        /\ \/ /\ ~Duplicate(i, v)
              /\ Local(i, [tx[i] EXCEPT !.inserted = {v}, !.dirty = TRUE])
              /\ Goto(i, "content")
              /\ UNCHANGED <<schema, data, locks>>
           \/ Duplicate(i, v) /\ Stop(i)
        /\ UNCHANGED crashes

RunContent(i) ==
    LET m == tx[i].next
    IN  /\ At(i, "content")
        /\ \/ /\ m \in applied => m \in Idempotent
              /\ Local(i, [tx[i] EXCEPT !.content = {m}])
              /\ Goto(i, "clean")
              /\ UNCHANGED <<schema, data, locks>>
           \/ m \in applied \ Idempotent /\ Stop(i)
        /\ UNCHANGED crashes

\* UPDATE schema_migrations SET dirty = false
MarkClean(i) ==
    /\ At(i, "clean")
    /\ Local(i, [tx[i] EXCEPT !.dirty = FALSE])
    /\ Goto(i, "commit")
    /\ UNCHANGED <<schema, data, locks, crashes>>

\* COMMIT, and on with the next file: the version is not read again.
CommitMigration(i) ==
    LET next == NextAfter(tx[i].next)
    IN  /\ At(i, "commit")
        /\ rows' = (rows \ tx[i].deleted) \cup tx[i].inserted
        /\ dirty' = (dirty \ tx[i].deleted) \cup (IF tx[i].dirty THEN tx[i].inserted ELSE {})
        /\ applied' = applied \cup tx[i].content
        /\ rowLock' = Released(i)
        /\ tx' = [j \in Instance |-> IF j = i THEN [NoTx EXCEPT !.next = next.version]
                                     ELSE [tx[j] EXCEPT !.todo = @ \ tx[i].deleted]]
        /\ Goto(i, next.step)
        /\ UNCHANGED <<deployed, table, data, bootLock, crashes>>

\* With two rows in the table a DELETE and an INSERT can wait for each other:
\* PostgreSQL makes one of the statements fail.
WaitsFor(i, j) ==
    \/ At(i, "clearRow") /\ tx[i].todo # {} /\ rowLock[Min(tx[i].todo)] = j
    \/ At(i, "insert") /\ tx[i].next \in rows /\ rowLock[tx[i].next] = j
    \/ At(i, "insert") /\ tx[i].next \in tx[j].inserted

DeadlockVictim(i) ==
    /\ \E S \in SUBSET Instance :
         i \in S /\ \A j \in S : \E k \in S \ {j} : WaitsFor(j, k)
    /\ Stop(i)
    /\ UNCHANGED crashes

-----------------------------------------------------------------------------
(* The seed, and what a platform owner does to it while the server runs    *)

KeepValue == IF plan = "absent" THEN "default" ELSE plan

\* INSERT INTO plan_features ... ON CONFLICT DO UPDATE SET value
SeededValue == "default"

Seed(i) ==
    /\ At(i, "seed")
    /\ plan' = SeededValue
    /\ Goto(i, "lock")
    /\ UNCHANGED <<schema, owners, locks, tx, crashes>>

\* UpdatePlanFeatures, from the dashboard
EditPlan(i) ==
    /\ At(i, "serving")
    /\ plan' = "edited"
    /\ UNCHANGED <<schema, owners, locks, pc, tx, crashes>>

-----------------------------------------------------------------------------
(* BootstrapPlatformOwner                                                  *)

GoOnWithoutLock(i) ==
    /\ At(i, "lock")
    /\ Goto(i, "count")
    /\ UNCHANGED <<schema, data, locks, tx, crashes>>

\* SELECT pg_advisory_xact_lock(746281903)
LockBootstrap(i) ==
    /\ At(i, "lock")
    /\ bootLock = Nobody
    /\ bootLock' = i
    /\ Goto(i, "count")
    /\ UNCHANGED <<schema, data, rowLock, tx, crashes>>

Unlock(i) == bootLock' = IF bootLock = i THEN Nobody ELSE bootLock

CountOwnersAndWarn(i) ==
    /\ At(i, "count")
    /\ Goto(i, IF owners = 0 /\ i \in HasCredentials THEN "create owner" ELSE "serving")
    /\ UNCHANGED <<schema, data, locks, tx, crashes>>

CountOwnersAndWait(i) ==
    /\ At(i, "count")
    /\ \/ /\ owners > 0
          /\ Goto(i, "serving")
          /\ Unlock(i)
          /\ UNCHANGED <<schema, data, rowLock, tx>>
       \/ /\ owners = 0 /\ i \in HasCredentials
          /\ Goto(i, "create owner")
          /\ UNCHANGED <<schema, data, locks, tx>>
       \/ owners = 0 /\ i \notin HasCredentials /\ UNCHANGED <<schema, data, locks, pc, tx>>
    /\ UNCHANGED crashes

\* An owner exists; or the environment names one; or the start has failed.
CountOwners(i) ==
    /\ At(i, "count")
    /\ \/ /\ owners > 0
          /\ Goto(i, "serving")
          /\ Unlock(i)
          /\ UNCHANGED <<schema, data, rowLock, tx>>
       \/ /\ owners = 0 /\ i \in HasCredentials
          /\ Goto(i, "create owner")
          /\ UNCHANGED <<schema, data, locks, tx>>
       \/ owners = 0 /\ i \notin HasCredentials /\ Stop(i)
    /\ UNCHANGED crashes

\* INSERT INTO users, INSERT INTO platform_admins; the names may differ.
CreateOwner(i) ==
    /\ At(i, "create owner")
    /\ Local(i, [tx[i] EXCEPT !.owner = TRUE])
    /\ Goto(i, "commit owner")
    /\ UNCHANGED <<schema, data, locks, crashes>>

CommitOwner(i) ==
    /\ At(i, "commit owner")
    /\ owners' = owners + 1
    /\ Local(i, NoTx)
    /\ Goto(i, "serving")
    /\ Unlock(i)
    /\ UNCHANGED <<schema, plan, rowLock, crashes>>

-----------------------------------------------------------------------------
(* The specification                                                       *)

Step(i) ==
    \/ FindTable(i) \/ MakeTable(i) \/ ReadVersion(i)
    \/ Clear(i) \/ ClearRow(i) \/ InsertVersion(i) \/ RunContent(i)
    \/ MarkClean(i) \/ CommitMigration(i) \/ DeadlockVictim(i)
    \/ Seed(i)
    \/ LockBootstrap(i) \/ CountOwners(i) \/ CreateOwner(i) \/ CommitOwner(i)

Next == \E i \in Instance : Step(i) \/ Start(i) \/ EditPlan(i) \/ Crash(i)

Spec == Init /\ [][Next]_vars

\* The supervisor restarts; a statement that waits for a lock is served.
FairSpec == Spec /\ \A i \in Instance : SF_vars(Step(i)) /\ WF_vars(Start(i))

-----------------------------------------------------------------------------
(* Properties                                                              *)

Statement == {"down", "create", "make", "read", "clear", "clearRow", "insert",
              "content", "clean", "commit", "seed", "lock", "count",
              "create owner", "commit owner", "serving"}

LocalState == [next : 0 .. Latest, todo : SUBSET Migration, deleted : SUBSET Migration,
               inserted : SUBSET Migration, dirty : BOOLEAN,
               content : SUBSET Migration, owner : BOOLEAN]

\* Rows, locks and local variables have their types, and a lock on a row is
\* held by the transaction that has deleted it.
TypeOK ==
    /\ deployed \in Deployments /\ table \in BOOLEAN
    /\ rows \subseteq Migration /\ dirty \subseteq rows /\ applied \subseteq Migration
    /\ plan \in {"absent", "default", "edited"} /\ owners \in Nat
    /\ rowLock \in [Migration -> Instance \cup {Nobody}]
    /\ bootLock \in Instance \cup {Nobody}
    /\ \A i \in Instance : tx[i].deleted = {v \in Migration : rowLock[v] = i}
    /\ pc \in [Instance -> Statement] /\ tx \in [Instance -> LocalState]
    /\ crashes \in 0 .. MaxCrashes

\* Instances that start together on a new database, with credentials of
\* different owners, create one owner (bootstrap.go:35).
AtMostOneOwner == owners <= 1

\* Whatever crashes between two statements of a migration: the migrations
\* applied are the first ones, no version in schema_migrations is ahead of the
\* schema, and none is left dirty, which no instance would start with again
\* (migrations.go:40, 77-124).
SchemaMatchesVersion ==
    /\ dirty = {}
    /\ \E k \in 0 .. Latest : applied = 1 .. k /\ \A v \in rows : v <= k

\* An instance that serves requests has the whole schema under it, the plans
\* and an owner, although it has not applied them itself (main.go:71-87).
ServesWhenReady ==
    \A i \in Instance : At(i, "serving") => applied = Migration /\ owners > 0 /\ plan # "absent"

NoRepeatable == \A m \in Idempotent : m <= deployed

\* While every pending migration refuses to be applied twice, instances that
\* have read an old version never take the version back, and leave one row
\* (migrations.go:96).  With a repeatable migration pending both fail: an
\* instance that is late applies it again over its successors.
VersionNeverFalls ==
    [][NoRepeatable => /\ Cardinality(rows') <= 1
                       /\ \A v \in rows : \E w \in rows' : w >= v]_rows

\* schema_migrations has one row, of the last migration applied.
AtVersion == rows = {Cardinality(applied)} \ {0}

\* On a new database and on an old one every instance serves in the end, those
\* too that were refused, deadlocked or crashed, and one without credentials,
\* which has to fail and let go of the lock until another has created the owner
\* (bootstrap.go:35): unless a repeatable migration is applied again over its
\* successors, and the version with it taken back (VersionNeverFalls), from
\* where no instance can get on.
EveryInstanceServes == []AtVersion => \A i \in Instance : []<>At(i, "serving")

Serving == {i \in Instance : At(i, "serving")}

Release == INSTANCE Deployment WITH
    version <- Cardinality(applied), seeded <- plan # "absent", up <- Serving

\* Instances that race, are refused, deadlock, crash and start again behave as
\* if each migration, the seed and the owner had been one atomic step, taken
\* once and in this order, before anybody served (main.go:66-87); a repeatable
\* migration that is applied again, and a seed, change nothing of this.
DeploymentSpec == Release!Spec

\* What the platform owner has edited stays (docs/seed.sql:21).
EditsSurvive == [][plan = "edited" => plan' = "edited"]_plan

=============================================================================
