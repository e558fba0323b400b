----------------------------- MODULE MCPricing -----------------------------
(* Pricing evaluated on every combination of a bounded set of lines,        *)
(* discounts and tax settings: a state is one combination, and no step      *)
(* changes it.                                                              *)
EXTENDS Pricing

CONSTANTS Quantities, Prices, Values, Percents, Taxes

\* What the handlers let through: a line of at least one unit, a price that
\* is not negative, at most 100 percent (parseDiscount).
ASSUME InputsAllowed ==
    /\ Quantities \subseteq Nat \ {0}
    /\ Prices \subseteq Nat
    /\ Values \subseteq Nat
    /\ \A p \in Percents : p \in Nat /\ p <= 10000
    /\ Taxes \subseteq TaxSettings

VARIABLE bill   \* a line, its discount, the order's discount, the tax

Discounts ==
    {NoDiscount} \cup [mode : {"amount"}, value : Values]
                 \cup [mode : {"percent"}, value : Percents]

Init == bill \in [quantity : Quantities, price : Prices, line : Discounts,
                  order : Discounts, tax : Taxes]
Next == UNCHANGED bill
Spec == Init /\ [][Next]_bill

base == bill.quantity * bill.price
charged == base - CalculateDiscount(base, bill.line)
totals == Totals(base, CalculateDiscount(base, bill.line), bill.order, bill.tax)

\* The smallest inputs at which roundings, caps and settings differ.
SmallTaxes ==
    {DefaultTax, [vat |-> 500, inclusive |-> FALSE, service |-> 1000],
     [vat |-> 0, inclusive |-> TRUE, service |-> 250]}

-----------------------------------------------------------------------------

\* Neither the discounts of the lines nor the discount of the order, nor both
\* together, ever exceed what they are taken from: no bill is negative.
DiscountsWithinBase ==
    /\ 0 <= CalculateDiscount(base, bill.line)
    /\ 0 <= totals.discount /\ totals.discount <= totals.subtotal
    /\ 0 <= totals.tax /\ 0 <= totals.total

\* RecalculateOrderTotals (SQL) and OverrideItemPrice (Go) compute the same
\* discount for a line, when the SQL expression does not overflow.
SqlAgreesWithGo ==
    LineDiscountFits(bill.quantity, bill.price, bill.line) =>
        LineDiscount(bill.quantity, bill.price, bill.line)
            = CalculateDiscount(base, bill.line)

\* One more of an item never makes the bill smaller, whatever is rounded or
\* capped: a guest cannot save by ordering more.
BillNeverFalls ==
    LET more == base + bill.price
    IN  /\ more - CalculateDiscount(more, bill.line) >= charged
        /\ Totals(more, CalculateDiscount(more, bill.line), bill.order, bill.tax).total
             >= totals.total

\* The price in the audit row of an override lies between nothing and the
\* unit price, and is off the charged amount by at most half a poisha a unit.
AuditedPriceFair ==
    LET adjusted == EffectiveUnitPrice(bill.quantity, bill.price, bill.line)
    IN  /\ 0 <= adjusted /\ adjusted <= bill.price
        /\ 2 * (bill.quantity * adjusted - charged) <= bill.quantity
        /\ 2 * (charged - bill.quantity * adjusted) <= bill.quantity

\* "Restaurants can freely edit an order line's charged price (comps, ...)":
\* a line whose amount is an INTEGER can be given any discount.
AnyLineCanBeComped ==
    ProductFits(bill.quantity, bill.price) =>
        LineDiscountFits(bill.quantity, bill.price, bill.line)

=============================================================================
