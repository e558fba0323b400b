CONSTANTS
    Client = {c1, c2}
    Nobody = Nobody
    Row = {1, 2}
    Plan = {"basic", "pro"}
    NoRow = 0
    a1 = a1
    a2 = a2
    Account = {a1, a2}
    u1 = u1
    u2 = u2
    u3 = u3
    User = {u1, u2, u3}
    Browser = {"b1"}
    Restaurant = {"r1", "r2", "r3"}
    AccountOf <- AccountOfRestaurant
    MemberOf <- Memberships
    RoleOf <- PlatformRoles
    Lifetime = 1
    StockItem = {1, 2}
    Opening <- Openings
    Change <- Changes
    Limit = 6
    MaxEntries = 2
    Category = {"g1", "g2"}
    Dish = {"i1", "i2"}
    Order = {1}
    Staff = {"s1", "s2"}
    Reported = {1, 2}
    Quantity <- Ordered
    Categorised = {"i1"}
    TopItems = 1
    Feature = {1, 2}
    Forms <- Submitted
    MaxTime = 2
    Parts = {"subscriptions", "access", "stock", "menu", "roster", "reports", "catalog"}
SPECIFICATION MCSpec
INVARIANTS
    OneCurrentSubscription
    BarredNeverActs
    ActsAsMember
    StockFollowsTrail
    ReportAddsUp
    PlanSavedWhole
PROPERTIES
    DeletedIsFinal
    CopyIsFresh
    AssignedInTime
