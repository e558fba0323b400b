CONSTANTS
    soup = soup
    rice = rice
    Client = {c1, c2}
    Item = {soup, rice}
    NoItem = NoItem
    NoLine = NoLine
    Nobody = Nobody
    Price <- MenuPrice
    Tax <- NetTax
    MaxInt4 = 2147483647
    Line = {l1}
    Kept = {}
    MaxQuantity = 2
    Asked <- NoChoices
    Requests = {"add", "quantity", "discount", "close"}
SPECIFICATION FairSpec
PROPERTY
    EveryRequestEnds
