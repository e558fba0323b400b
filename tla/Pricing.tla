------------------------------ MODULE Pricing ------------------------------
(***************************************************************************)
(* The arithmetic of an order, in poisha (1/100 BDT): discounts of a line  *)
(* and of the order, VAT and service charge (internal/handlers/orders.go). *)
(*                                                                         *)
(* A discount is [mode, value]: an amount, or a percentage in basis points *)
(* (1/100 of a percent).  Go computes with 64-bit integers, which nothing  *)
(* below reaches.  SQL computes with int4 and raises an error when a result*)
(* does not fit: products are compared with the limit by a division, so    *)
(* that no intermediate value is out of range here either.                 *)
(***************************************************************************)
EXTENDS Integers

CONSTANT MaxInt4   \* 2147483647, the largest value of a PostgreSQL INTEGER

ASSUME Int4Assumption == MaxInt4 \in Nat /\ MaxInt4 >= 10000

Discount == [mode : {"amount", "percent"}, value : Nat]
NoDiscount == [mode |-> "none", value |-> 0]

\* What parseDiscount lets through.
ParsedDiscount == {d \in Discount : d.mode = "percent" => d.value <= 10000}

-----------------------------------------------------------------------------
(* Go                                                                      *)

\* Half a poisha rounds up.
PercentOf(base, value) == (base * value + 5000) \div 10000

Uncapped(base, amount) == amount
IgnoredAbove(base, amount) == IF amount > base THEN 0 ELSE amount

AtMost(base, amount) == IF amount > base THEN base ELSE amount

\* calculateDiscount(base, mode, value)
CalculateDiscount(base, d) ==
    IF base <= 0 \/ d.value <= 0 THEN 0
    ELSE AtMost(base, IF d.mode = "percent" THEN PercentOf(base, d.value) ELSE d.value)

AveragedUp(quantity, charged) == (charged + quantity) \div quantity

\* The average unit price after a discount, half a poisha rounded up.
Averaged(quantity, charged) == (charged + quantity \div 2) \div quantity

\* adjusted_price of the audit row OverrideItemPrice writes.
EffectiveUnitPrice(quantity, price, d) ==
    Averaged(quantity, quantity * price - CalculateDiscount(quantity * price, d))

-----------------------------------------------------------------------------
(* SQL: the CASE of RecalculateOrderTotals                                 *)

ProductFits(a, b) == b = 0 \/ a <= MaxInt4 \div b

\* Whether the statement evaluates the discount of the line without an
\* "integer out of range" error.
LineDiscountFits(quantity, price, d) ==
    d.mode # "none" =>
        /\ ProductFits(quantity, price)
        /\ d.mode = "percent" =>
             /\ ProductFits(quantity * price, d.value)
             /\ quantity * price * d.value <= MaxInt4 - 5000

LeastOf(a, b) == IF a < b THEN a ELSE b

LineDiscountUncapped(quantity, price, d) ==
    CASE d.mode = "amount"  -> d.value
      [] d.mode = "percent" -> PercentOf(quantity * price, d.value)
      [] OTHER -> 0

LineDiscount(quantity, price, d) ==
    CASE d.mode = "amount"  -> LeastOf(quantity * price, d.value)
      [] d.mode = "percent" -> LeastOf(quantity * price,
                                       PercentOf(quantity * price, d.value))
      [] OTHER -> 0

-----------------------------------------------------------------------------
(* Totals                                                                  *)

\* A restaurant's tax settings; without a row, 15% inclusive VAT.
TaxSettings == [vat : Nat, inclusive : BOOLEAN, service : Nat]
DefaultTax == [vat |-> 1500, inclusive |-> TRUE, service |-> 0]

ServiceCharge(taxable, tax) == (taxable * tax.service) \div 10000

TaxAmount(taxable, tax) ==
    IF tax.inclusive
    THEN taxable - (taxable * 10000) \div (10000 + tax.vat)
    ELSE (taxable * tax.vat) \div 10000

TotalAmount(taxable, tax) ==
    taxable + ServiceCharge(taxable, tax)
            + (IF tax.inclusive THEN 0 ELSE TaxAmount(taxable, tax))

\* The four columns RecalculateOrderTotals writes, from the sums over the
\* lines and the discount of the order.
Totals(subtotal, lineDiscount, d, tax) ==
    LET discount == lineDiscount + CalculateDiscount(subtotal - lineDiscount, d)
    IN  [subtotal |-> subtotal,
         discount |-> discount,
         tax      |-> TaxAmount(subtotal - discount, tax),
         total    |-> TotalAmount(subtotal - discount, tax)]

=============================================================================
