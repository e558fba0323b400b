CONSTANTS
    soup = soup
    rice = rice
    Client = {c1, c2}
    Item = {soup, rice}
    Line = {l1, l2}
    NoItem = NoItem
    NoLine = NoLine
    Nobody = Nobody
    Price <- MenuPrice
    Kept = {l1}
    MaxQuantity = 2
    Asked <- OneChoice
    Requests = {"add", "close"}
    Tax <- NetTax
    MaxInt4 = 2147483647
SPECIFICATION Spec
SYMMETRY Interchangeable
INVARIANTS
    ClosedOrderFrozen
