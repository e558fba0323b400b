------------------------------ MODULE Catalog ------------------------------
(***************************************************************************)
(* The platform's catalog (internal/handlers/platform_management.go):      *)
(* features and their types, one plan, and what the plan grants.  Saving   *)
(* the grants of a plan, UpdatePlanFeatures, writes a row for each feature *)
(* in one transaction; every other edit is a transaction of one statement. *)
(* Transactions are those of module OrderLifecycle.                        *)
(***************************************************************************)
EXTENDS Naturals, FiniteSetsExt

CONSTANTS
    Client, Nobody,
    Feature,  \* the keys of features, in their order (a bound)
    Forms     \* what is submitted: for each feature a kind of Type, or blank (a bound)

VARIABLES
    type,      \* features.value_type
    plan,      \* "none", "active" or "retired"
    grants,    \* the committed plan_features of the plan
    grantLock, \* who has written the row of a feature, uncommitted
    pc, tx,
    saved,     \* what was saved last, for the properties only
    retyped    \* features whose type was changed, likewise

rows == <<type, plan, grants>>
history == <<saved, retyped>>
vars == <<rows, grantLock, pc, tx, history>>

Type == {"boolean", "number", "text"}
NoGrant == [by |-> Nobody, kind |-> "none"]
NoTx == [values |-> [f \in Feature |-> "none"], todo |-> {}, written |-> {}]
NothingSaved == [by |-> Nobody, features |-> {}]

Init ==
    /\ type = [f \in Feature |-> "none"]
    /\ plan = "none"
    /\ grants = [f \in Feature |-> NoGrant]
    /\ grantLock = [f \in Feature |-> Nobody]
    /\ pc = [c \in Client |-> "idle"]
    /\ tx = [c \in Client |-> NoTx]
    /\ saved = NothingSaved
    /\ retyped = {}

At(c, statement) == pc[c] = statement
Goto(c, statement) == pc' = [pc EXCEPT ![c] = statement]
Local(c, mine) == tx' = [tx EXCEPT ![c] = mine]

-----------------------------------------------------------------------------
(* Edits of one statement                                                  *)

CreateSubscriptionPlan ==
    /\ plan = "none"
    /\ plan' = "active"
    /\ UNCHANGED <<type, grants, grantLock, pc, tx, history>>

\* The plans that CreateCustomerAccount offers are the active ones.
UpdateSubscriptionPlan(status) ==
    /\ plan # "none"
    /\ plan' = status
    /\ UNCHANGED <<type, grants, grantLock, pc, tx, history>>

CreatePlatformFeature(f, t) ==
    /\ type[f] = "none"
    /\ type' = [type EXCEPT ![f] = t]
    /\ UNCHANGED <<plan, grants, grantLock, pc, tx, history>>

\* Nobody looks at the values there are.
UpdatePlatformFeature(f, t) ==
    /\ type[f] # "none"
    /\ type' = [type EXCEPT ![f] = t]
    /\ retyped' = retyped \cup {f}
    /\ UNCHANGED <<plan, grants, grantLock, pc, tx, saved>>

-----------------------------------------------------------------------------
(* UpdatePlanFeatures                                                      *)

End(c) ==
    /\ grantLock' = [f \in Feature |-> IF grantLock[f] = c THEN Nobody ELSE grantLock[f]]
    /\ Local(c, NoTx)
    /\ Goto(c, "idle")

Rollback(c) == End(c) /\ UNCHANGED <<rows, history>>

Abort(c) == ~At(c, "idle") /\ Rollback(c)

\* The form has a value for every feature there could be, or is blank there.
UpdatePlanFeatures(c, form) ==
    /\ At(c, "idle")
    /\ Local(c, [NoTx EXCEPT !.values = form])
    /\ Goto(c, "load")
    /\ UNCHANGED <<rows, grantLock, history>>

\* Text may be anything of 500 bytes; a number is no truth value.
ValidFeatureValue(t, kind) == t = "text" \/ t = kind

\* A box that is not ticked is false.
ValueOf(t, kind) == IF t = "boolean" /\ kind = "blank" THEN "boolean" ELSE kind

\* SELECT id, key, value_type FROM features ORDER BY key
LoadFeatures(c) ==
    LET features == {f \in Feature : type[f] # "none"}
        values == [f \in Feature |-> ValueOf(type[f], tx[c].values[f])]
        valid == \A f \in features : ValidFeatureValue(type[f], values[f])
    IN  /\ At(c, "load")
        /\ \/ /\ valid
              /\ Local(c, [tx[c] EXCEPT !.todo = features, !.values = values])
              /\ Goto(c, IF features = {} THEN "commit" ELSE "upsert")
              /\ UNCHANGED <<rows, grantLock, history>>
           \/ ~valid /\ Rollback(c)

AnyOf(todo) == todo

FirstOf(todo) == {Min(todo)}

\* INSERT ... ON CONFLICT DO UPDATE: it waits for whoever has inserted or
\* updated the row, and fails when there is no such plan.
Upsert(c) ==
    /\ At(c, "upsert")
    /\ \/ /\ plan # "none"
          /\ \E f \in FirstOf(tx[c].todo) :
               LET rest == tx[c].todo \ {f}
               IN  /\ grantLock[f] = Nobody
                   /\ grantLock' = [grantLock EXCEPT ![f] = c]
                   /\ Local(c, [tx[c] EXCEPT !.todo = rest, !.written = @ \cup {f}])
                   /\ Goto(c, IF rest = {} THEN "commit" ELSE "upsert")
          /\ UNCHANGED <<rows, history>>
       \/ plan = "none" /\ Rollback(c)

Commit(c) ==
    /\ At(c, "commit")
    /\ grants' = [f \in Feature |->
                   IF f \in tx[c].written THEN [by |-> c, kind |-> tx[c].values[f]]
                   ELSE grants[f]]
    /\ saved' = [by |-> c, features |-> tx[c].written]
    /\ UNCHANGED <<type, plan, retyped>>
    /\ End(c)

-----------------------------------------------------------------------------
(* The specification                                                       *)

Next ==
    \/ CreateSubscriptionPlan
    \/ \E status \in {"active", "retired"} : UpdateSubscriptionPlan(status)
    \/ \E f \in Feature, t \in Type : CreatePlatformFeature(f, t) \/ UpdatePlatformFeature(f, t)
    \/ \E c \in Client :
        \/ \E form \in Forms : UpdatePlanFeatures(c, form)
        \/ LoadFeatures(c) \/ Upsert(c) \/ Commit(c) \/ Abort(c)

-----------------------------------------------------------------------------
(* Properties                                                              *)

WaitsFor(c, d) ==
    At(c, "upsert") /\ \E f \in FirstOf(tx[c].todo) : grantLock[f] = d

\* However two saves of a plan and edits of the catalog meet: neither waits for
\* one that waits for it, for all write in the order of the keys; the plan
\* grants what the last of them has saved, whole; and a value does not fit its
\* feature, which GetLimit would take for no limit at all, only where the type
\* was changed (platform_management.go:193-227).
PlanSavedWhole ==
    /\ \A c, d \in Client : ~(WaitsFor(c, d) /\ WaitsFor(d, c))
    /\ \A f \in saved.features : grants[f].by = saved.by
    /\ \A f \in Feature \ retyped :
          grants[f] # NoGrant => ValidFeatureValue(type[f], grants[f].kind)

=============================================================================
