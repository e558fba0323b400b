----------------------------- MODULE MCTenancy -----------------------------
EXTENDS Tenancy, TLC

CONSTANTS a1, u1

FirstOwner == a1 :> u1
Limits == [f \in Feature |-> IF f = "tables" THEN 1 ELSE 2]

\* Handlers that meet on the lock of an account, on its tables, or on a login.
Mixes == {{"restaurant", "table"}, {"restaurant", "new login"}, {"new login", "login"},
          {"login", "account"}, {"new login", "account"}}

\* PostgreSQL serves the waiters of a row lock in turn.
FairSpec == TenancySpec /\ \A c \in Client : SF_tenancyVars(Step(c))
=============================================================================
