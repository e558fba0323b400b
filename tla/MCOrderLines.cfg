CONSTANTS
    soup = soup
    rice = rice
    Client = {c1, c2}
    Item = {soup, rice}
    NoItem = NoItem
    NoLine = NoLine
    Nobody = Nobody
    Price <- MenuPrice
    Tax <- NetTax
    MaxInt4 = 2147483647
    Line = {l1, l2}
    Kept = {l1}
    MaxQuantity = 2
    Asked <- OneChoice
    Requests = {"add", "override", "discount", "close"}
SPECIFICATION Spec
SYMMETRY Interchangeable
INVARIANTS
    TypeOK
    LineDiscountsCurrent
    EveryDiscountAudited
    TotalsMatchLines
PROPERTIES
    BilledAsServed
    OrderDiscountExact
