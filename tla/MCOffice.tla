------------------------------ MODULE MCOffice ------------------------------
(***************************************************************************)
(* Office on small instances.  A behaviour has one part of it at work,     *)
(* chosen in the initial state, and the others at rest: their interleaving *)
(* would only multiply the states of each by those of the others.          *)
(***************************************************************************)
EXTENDS Office, TLC

CONSTANTS a1, a2, u1, u2, u3, Parts

\* u1 owns r1 of a1; u2 works in r2 of a2 and r3 of a1; u3, of the platform, is
\* a member of r1 too.  One browser serves all of them.
AccountOfRestaurant == [r \in {"r1", "r2", "r3"} |-> IF r = "r2" THEN a2 ELSE a1]
Memberships == u1 :> {"r1"} @@ u2 :> {"r2", "r3"} @@ u3 :> {"r1"}
PlatformRoles == [u \in {u1, u2, u3} |-> IF u = u3 THEN "superadmin" ELSE "none"]

\* The first order has both dishes, the second one only that without a category.
Ordered == 1 :> ("i1" :> 2 @@ "i2" :> 1) @@ 2 :> ("i1" :> 0 @@ "i2" :> 2)

\* One form has numbers only, the other one leaves the second feature blank.
Submitted == {<<"number", "number">>, <<"number", "blank">>}

Openings == {-2, 2}
Changes == {-1, 2}

VARIABLE part

MCInit ==
    /\ part \in Parts
    /\ Init
    /\ part # "subscriptions" => \A r \in Row : subscriptions[r] = Subs!Absent
    /\ part # "reports" => exports

MCNext ==
    /\ UNCHANGED part
    /\ \/ part = "subscriptions" /\ SubscriptionPart
       \/ part = "access" /\ AccessPart
       \/ part = "stock" /\ StockPart
       \/ part = "menu" /\ MenuPart
       \/ part = "roster" /\ RosterPart
       \/ part = "reports" /\ ReportPart
       \/ part = "catalog" /\ CatalogPart

MCSpec == MCInit /\ [][MCNext]_<<part, vars>>

=============================================================================
