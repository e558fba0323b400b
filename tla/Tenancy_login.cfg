CONSTANTS
    a1 = a1
    u1 = u1
    Account = {a1, a2}
    Established = {a1}
    Login = {u1, u2, u3}
    OwnerOf <- FirstOwner
    Client = {c1, c2}
    Nobody = Nobody
    Unset = Unset
    PlanLimits <- Limits
    Offered = {1}
    Changeable = {"restaurants", "users"}
    MaxChanges = 1
    MaxConnections = {2, 3}
    Workloads <- Mixes
SPECIFICATION TenancySpec
INVARIANTS
    LoginInOneAccount
