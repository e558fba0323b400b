----------------------------- MODULE Deployment -----------------------------
(***************************************************************************)
(* What the start of the server promises, as if its steps were atomic and  *)
(* nothing ran twice: the schema is raised by one migration after the      *)
(* other, then seeded, then given the one platform owner, and only then    *)
(* are there instances that serve.  They come and go.                      *)
(***************************************************************************)
EXTENDS Naturals

CONSTANTS Instance, Latest, Deployments

VARIABLES
    version, \* how many of the migrations are applied
    seeded,  \* the reference data is there
    owners,  \* how many platform owners there are
    up       \* the instances that serve

vars == <<version, seeded, owners, up>>

Init ==
    /\ version \in Deployments
    /\ seeded = (version # 0)
    /\ owners = IF version = 0 THEN 0 ELSE 1
    /\ up = {}

Migrate ==
    /\ version < Latest
    /\ version' = version + 1
    /\ UNCHANGED <<seeded, owners, up>>

Seed ==
    /\ version = Latest
    /\ ~seeded
    /\ seeded' = TRUE
    /\ UNCHANGED <<version, owners, up>>

Ready == version = Latest /\ seeded

\* The first owner: whoever creates it serves from then on.
CreateOwner(i) ==
    /\ Ready
    /\ owners = 0
    /\ owners' = 1
    /\ up' = up \cup {i}
    /\ UNCHANGED <<version, seeded>>

Serve(i) ==
    /\ Ready
    /\ owners = 1
    /\ up' = up \cup {i}
    /\ UNCHANGED <<version, seeded, owners>>

GoDown(i) ==
    /\ i \in up
    /\ up' = up \ {i}
    /\ UNCHANGED <<version, seeded, owners>>

Next ==
    \/ Migrate
    \/ Seed
    \/ \E i \in Instance : CreateOwner(i) \/ Serve(i) \/ GoDown(i)

Spec == Init /\ [][Next]_vars

=============================================================================
