CONSTANTS
    MaxInt4 = 2147483647
    Quantities = {1, 2, 3, 7}
    Prices = {0, 1, 2, 3, 5, 8, 99, 101}
    Values = {0, 1, 2, 6, 100}
    Percents = {0, 1, 50, 3333, 5000, 9999, 10000}
    Taxes <- SmallTaxes
SPECIFICATION Spec
INVARIANTS
    DiscountsWithinBase
    SqlAgreesWithGo
    BillNeverFalls
    AuditedPriceFair
