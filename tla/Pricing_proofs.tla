--------------------------- MODULE Pricing_proofs ---------------------------
(* The arithmetic of module Pricing, for every line, discount and tax.      *)
EXTENDS MCPricing, TLAPS

-----------------------------------------------------------------------------
(* Arithmetic                                                              *)

\* A product of naturals is a natural, and grows with its factors.
LEMMA ProductMonotone ==
    ASSUME NEW a \in Nat, NEW b \in Nat, NEW k \in Nat, a <= b
    PROVE  a * k \in Nat /\ b * k \in Nat /\ a * k <= b * k
<1>1. PICK d \in Nat : b = a + d
  <2>1. b - a \in Nat /\ b = a + (b - a)
    OBVIOUS
  <2> QED
    BY <2>1
<1>2. b * k = a * k + d * k /\ d * k \in Nat /\ a * k \in Nat
  BY <1>1
<1> QED
  BY <1>2

\* Division rounds down.
LEMMA Quotient ==
    ASSUME NEW a \in Nat, NEW n \in Nat \ {0}
    PROVE  /\ a \div n \in Nat
           /\ (a \div n) * n <= a
           /\ a < (a \div n) * n + n
<1>1. a \div n \in Int /\ a = n * (a \div n) + (a % n) /\ 0 <= a % n /\ a % n < n
  OBVIOUS
<1>2. a \div n >= 0
  OBVIOUS
<1> QED
  BY <1>1, <1>2

\* ... so that a quotient is at most k when the dividend is below (k + 1) * n.
LEMMA QuotientAtMost ==
    ASSUME NEW a \in Nat, NEW k \in Nat, NEW n \in Nat \ {0}, a < (k + 1) * n
    PROVE  a \div n \in Nat /\ a \div n <= k
<1> DEFINE q == a \div n
<1>1. q \in Nat /\ q * n <= a
  BY Quotient
<1>2. CASE q > k
  <2>1. (k + 1) * n <= q * n
    BY <1>1, <1>2, ProductMonotone
  <2>2. (k + 1) * n \in Nat /\ q * n \in Nat
    BY <1>1
  <2> HIDE DEF q
  <2> QED
    BY <1>1, <2>1, <2>2
<1> QED
  BY <1>1, <1>2

-----------------------------------------------------------------------------
(* Discounts                                                               *)

AnyDiscount == ParsedDiscount \cup {NoDiscount}

\* What a parsed discount is made of.
LEMMA DiscountParts ==
    ASSUME NEW d \in ParsedDiscount
    PROVE  /\ d.mode \in {"amount", "percent"}
           /\ d.value \in Nat
           /\ d.mode = "percent" => d.value <= 10000
<1>1. d \in Discount /\ (d.mode = "percent" => d.value <= 10000)
  BY DEF ParsedDiscount
<1> QED
  BY <1>1 DEF Discount

\* A percentage is a whole number of poisha.
LEMMA PercentNatural ==
    ASSUME NEW b \in Nat, NEW v \in Nat
    PROVE  PercentOf(b, v) \in Nat
<1>1. b * v + 5000 \in Nat
  OBVIOUS
<1> QED
  BY <1>1, Quotient DEF PercentOf

\* A percentage of a base, rounded, is at most the base.
LEMMA PercentWithinBase ==
    ASSUME NEW b \in Nat, NEW v \in Nat, v <= 10000
    PROVE  PercentOf(b, v) <= b
<1>1. b * v \in Nat /\ b * v <= b * 10000
  <2>1. v * b \in Nat /\ v * b <= 10000 * b
    BY ProductMonotone
  <2>2. v * b = b * v /\ 10000 * b = b * 10000
    OBVIOUS
  <2> QED
    BY <2>1, <2>2
<1> DEFINE m == b * v + 5000
<1>2. m \in Nat /\ m < (b + 1) * 10000
  BY <1>1
<1>3. m \div 10000 \in Nat /\ m \div 10000 <= b
  <2> HIDE DEF m
  <2> QED
    BY <1>2, QuotientAtMost
<1> QED
  BY <1>3 DEF PercentOf

\* calculateDiscount returns something between nothing and the base.
LEMMA DiscountWithinBase ==
    ASSUME NEW b \in Nat, NEW d \in AnyDiscount
    PROVE  CalculateDiscount(b, d) \in Nat /\ CalculateDiscount(b, d) <= b
<1>1. CASE d = NoDiscount
  BY <1>1 DEF CalculateDiscount, NoDiscount
<1>2. CASE d.mode = "percent" /\ d \in ParsedDiscount
  <2>1. d.value \in Nat
    BY <1>2, DiscountParts
  <2>2. d.value <= 10000
    BY <1>2, DiscountParts
  <2>3. PercentOf(b, d.value) \in Nat
    BY <2>1, PercentNatural, Zenon
  <2>4. PercentOf(b, d.value) <= b
    BY <2>1, <2>2, PercentWithinBase
  <2> QED
    BY <1>2, <2>1, <2>3, <2>4 DEF CalculateDiscount, AtMost
<1>3. CASE d.mode = "amount" /\ d \in ParsedDiscount
  BY <1>3, DiscountParts DEF CalculateDiscount, AtMost
<1> QED
  BY <1>1, <1>2, <1>3, DiscountParts DEF AnyDiscount

\* The SQL CASE and calculateDiscount agree on every line.
LEMMA SameDiscount ==
    ASSUME NEW quantity \in Nat, NEW price \in Nat, NEW d \in AnyDiscount
    PROVE  LineDiscount(quantity, price, d) = CalculateDiscount(quantity * price, d)
<1> DEFINE b == quantity * price
<1>1. b \in Nat
  OBVIOUS
<1> HIDE DEF b
<1>2. CASE d = NoDiscount
  BY <1>2 DEF CalculateDiscount, LineDiscount, NoDiscount
<1>3. CASE d.mode = "amount" /\ d \in ParsedDiscount
  <2>1. LineDiscount(quantity, price, d) = LeastOf(b, d.value)
    BY <1>3 DEF LineDiscount, b
  <2>2. CalculateDiscount(b, d) = LeastOf(b, d.value)
    BY <1>1, <1>3, DiscountParts DEF CalculateDiscount, LeastOf, AtMost
  <2> QED
    BY <2>1, <2>2 DEF b
<1>4. CASE d.mode = "percent" /\ d \in ParsedDiscount
  <2>1. d.value \in Nat
    BY <1>4, DiscountParts
  <2>2. d.value <= 10000
    BY <1>4, DiscountParts
  <2>3. PercentOf(b, d.value) \in Nat
    BY <1>1, <2>1, PercentNatural, Zenon
  <2>4. PercentOf(b, d.value) <= b
    BY <1>1, <2>1, <2>2, PercentWithinBase
  <2>5. b = 0 \/ d.value = 0 => PercentOf(b, d.value) = 0
    <3>1. b = 0 \/ d.value = 0 => b * d.value = 0
      BY <1>1, <2>1
    <3> QED
      BY <3>1 DEF PercentOf
  <2>6. LineDiscount(quantity, price, d) = LeastOf(b, PercentOf(b, d.value))
    BY <1>4 DEF LineDiscount, b
  <2>7. CalculateDiscount(b, d) = PercentOf(b, d.value)
    BY <1>1, <1>4, <2>1, <2>3, <2>4, <2>5 DEF CalculateDiscount, AtMost
  <2>8. LeastOf(b, PercentOf(b, d.value)) = PercentOf(b, d.value)
    BY <1>1, <2>3, <2>4 DEF LeastOf
  <2> QED
    BY <2>6, <2>7, <2>8 DEF b
<1> QED
  BY <1>2, <1>3, <1>4, DiscountParts DEF AnyDiscount

\* What is left after a discount grows with what it is taken from.
LEMMA ChargedMonotone ==
    ASSUME NEW b \in Nat, NEW more \in Nat, b <= more, NEW d \in AnyDiscount
    PROVE  b - CalculateDiscount(b, d) <= more - CalculateDiscount(more, d)
<1>1. CASE d = NoDiscount
  BY <1>1 DEF CalculateDiscount, NoDiscount
<1>2. CASE d.mode = "amount" /\ d \in ParsedDiscount
  BY <1>2, DiscountParts DEF CalculateDiscount, AtMost
<1>3. CASE d.mode = "percent" /\ d \in ParsedDiscount
  <2> DEFINE v == d.value
  <2>1. v \in Nat
    BY <1>3, DiscountParts
  <2>2. v <= 10000
    BY <1>3, DiscountParts
  <2>3. /\ b * v \in Nat /\ more * v \in Nat
        /\ more * v <= b * v + (more - b) * 10000
    <3>1. (more - b) * v <= (more - b) * 10000 /\ (more - b) * v \in Nat
      BY <2>1, <2>2, ProductMonotone
    <3>2. more * v = b * v + (more - b) * v
      BY <2>1
    <3> QED
      BY <2>1, <3>1, <3>2
  <2>4. PercentOf(more, v) <= PercentOf(b, v) + (more - b)
    <3> DEFINE m == b * v + 5000
               n == more * v + 5000
               k == more - b
    <3>1. m \in Nat /\ n \in Nat /\ k \in Nat /\ n <= m + k * 10000
      BY <2>3
    <3>2. n \div 10000 <= m \div 10000 + k
      <4> HIDE DEF m, n, k
      <4>1. m \div 10000 \in Nat /\ m < (m \div 10000) * 10000 + 10000
        BY <3>1, Quotient
      <4>2. n < (m \div 10000 + k + 1) * 10000
        BY <3>1, <4>1
      <4> QED
        BY <3>1, <4>1, <4>2, QuotientAtMost
    <3> QED
      BY <3>2 DEF PercentOf
  <2>5. PercentOf(b, v) \in Nat /\ PercentOf(more, v) \in Nat
    BY <2>1, PercentNatural, Zenon
  <2>6. PercentOf(b, v) <= b
    BY <2>1, <2>2, PercentWithinBase
  <2>7. PercentOf(more, v) <= more
    BY <2>1, <2>2, PercentWithinBase
  <2> QED
    BY <1>3, <2>1, <2>4, <2>5, <2>6, <2>7 DEF CalculateDiscount, AtMost
<1> QED
  BY <1>1, <1>2, <1>3, DiscountParts DEF AnyDiscount

-----------------------------------------------------------------------------
(* Totals                                                                  *)

\* A rate of an amount grows with the amount.
LEMMA RateMonotone ==
    ASSUME NEW t \in Nat, NEW u \in Nat, t <= u, NEW rate \in Nat
    PROVE  /\ (t * rate) \div 10000 \in Nat
           /\ (u * rate) \div 10000 \in Nat
           /\ (t * rate) \div 10000 <= (u * rate) \div 10000
<1> DEFINE m == t * rate
           n == u * rate
<1>1. m \in Nat /\ n \in Nat /\ m <= n
  BY ProductMonotone
<1> HIDE DEF m, n
<1>2. n \div 10000 \in Nat /\ n < (n \div 10000) * 10000 + 10000
  BY <1>1, Quotient
<1>3. m < (n \div 10000 + 1) * 10000
  BY <1>1, <1>2
<1>4. m \div 10000 \in Nat /\ m \div 10000 <= n \div 10000
  BY <1>1, <1>2, <1>3, QuotientAtMost
<1> QED
  BY <1>2, <1>4 DEF m, n

\* The tax on an amount is not negative, inclusive or not.
LEMMA TaxNotNegative ==
    ASSUME NEW t \in Nat, NEW tax \in TaxSettings
    PROVE  TaxAmount(t, tax) \in Nat
<1>1. tax.vat \in Nat /\ tax.inclusive \in BOOLEAN
  BY DEF TaxSettings
<1>2. CASE tax.inclusive
  <2> DEFINE n == 10000 + tax.vat
             m == t * 10000
  <2>1. n \in Nat \ {0} /\ m \in Nat
    BY <1>1
  <2>2. m < (t + 1) * n
    <3>1. n \in Nat /\ 10000 <= n
      BY <1>1
    <3> HIDE DEF n
    <3>2. 10000 * t <= n * t /\ n * t \in Nat
      BY <3>1, ProductMonotone
    <3>3. (t + 1) * n = n * t + n /\ 10000 * t = t * 10000
      BY <3>1
    <3> QED
      BY <3>1, <3>2, <3>3
  <2>3. m \div n \in Nat /\ m \div n <= t
    <3> HIDE DEF m, n
    <3> QED
      BY <2>1, <2>2, QuotientAtMost
  <2> QED
    BY <1>2, <2>3 DEF TaxAmount
<1>3. CASE ~tax.inclusive
  <2>1. (t * tax.vat) \div 10000 \in Nat
    BY <1>1, RateMonotone
  <2> QED
    BY <1>3, <2>1 DEF TaxAmount
<1> QED
  BY <1>2, <1>3

\* The total grows with the amount that is taxed.
LEMMA TotalMonotone ==
    ASSUME NEW t \in Nat, NEW u \in Nat, t <= u, NEW tax \in TaxSettings
    PROVE  /\ TotalAmount(t, tax) \in Nat
           /\ TotalAmount(t, tax) <= TotalAmount(u, tax)
<1>1. tax.vat \in Nat /\ tax.inclusive \in BOOLEAN /\ tax.service \in Nat
  BY DEF TaxSettings
<1>2. /\ ServiceCharge(t, tax) \in Nat
      /\ ServiceCharge(u, tax) \in Nat
      /\ ServiceCharge(t, tax) <= ServiceCharge(u, tax)
  BY <1>1, RateMonotone DEF ServiceCharge
<1>3. CASE tax.inclusive
  BY <1>2, <1>3 DEF TotalAmount
<1>4. CASE ~tax.inclusive
  <2>1. /\ TaxAmount(t, tax) \in Nat
        /\ TaxAmount(u, tax) \in Nat
        /\ TaxAmount(t, tax) <= TaxAmount(u, tax)
    BY <1>1, <1>4, RateMonotone DEF TaxAmount
  <2> QED
    BY <1>2, <1>4, <2>1 DEF TotalAmount
<1> QED
  BY <1>3, <1>4

-----------------------------------------------------------------------------
(* Audited prices                                                          *)

\* The average price of a unit, when no more than the full price is charged:
\* it is off the charged amount by at most half a poisha a unit.
LEMMA AverageFair ==
    ASSUME NEW quantity \in Nat \ {0}, NEW price \in Nat, NEW paid \in Nat,
           paid <= quantity * price
    PROVE  LET adjusted == Averaged(quantity, paid)
           IN  /\ adjusted \in Nat
               /\ adjusted <= price
               /\ 2 * (quantity * adjusted - paid) <= quantity
               /\ 2 * (paid - quantity * adjusted) <= quantity
<1> DEFINE half == quantity \div 2
           adjusted == (paid + half) \div quantity
<1>1. half \in Nat /\ 2 * half <= quantity /\ quantity <= 2 * half + 1
  OBVIOUS
<1> HIDE DEF half
<1>2. adjusted \in Nat /\ adjusted <= price
  <2>1. paid + half \in Nat
    BY <1>1
  <2>2. (price + 1) * quantity = quantity * price + quantity
    OBVIOUS
  <2>3. paid + half < (price + 1) * quantity
    <3> DEFINE full == quantity * price
    <3>1. full \in Nat /\ paid <= full /\ (price + 1) * quantity = full + quantity
      BY <2>2
    <3> HIDE DEF full
    <3> QED
      BY <1>1, <3>1
  <2> QED
    BY <2>1, <2>3, QuotientAtMost
<1>3. /\ adjusted * quantity \in Nat
      /\ adjusted * quantity <= paid + half
      /\ paid + half < adjusted * quantity + quantity
  <2>1. paid + half \in Nat
    BY <1>1
  <2> QED
    BY <2>1, Quotient
<1> HIDE DEF adjusted
<1> DEFINE even == quantity * adjusted
<1>4. even = adjusted * quantity
  BY <1>2
<1>5. even \in Nat /\ even <= paid + half /\ paid + half < even + quantity
  BY <1>3, <1>4
<1>6. 2 * (even - paid) <= quantity /\ 2 * (paid - even) <= quantity
  <2> HIDE DEF even
  <2> QED
    BY <1>1, <1>5
<1>7. Averaged(quantity, paid) = adjusted
  BY DEF Averaged, adjusted, half
<1> QED
  BY <1>2, <1>6, <1>7

-----------------------------------------------------------------------------
(* The properties of MCPricing, for every bill                             *)

BillType == bill \in [quantity : Quantities, price : Prices, line : Discounts,
                      order : Discounts, tax : Taxes]

\* What a bill is made of.
LEMMA BillParts ==
    ASSUME BillType
    PROVE  /\ bill.quantity \in Nat \ {0}
           /\ bill.price \in Nat
           /\ bill.line \in AnyDiscount
           /\ bill.order \in AnyDiscount
           /\ bill.tax \in TaxSettings
<1>1. Discounts \subseteq AnyDiscount
  <2>1. ASSUME NEW d \in [mode : {"amount"}, value : Values]
        PROVE  d \in ParsedDiscount
    <3>1. d \in Discount
      <4>1. Values \subseteq Nat
        BY InputsAllowed
      <4> QED
        BY <2>1, <4>1 DEF Discount
    <3>2. d.mode # "percent"
      BY <2>1
    <3> QED
      BY <3>1, <3>2 DEF ParsedDiscount
  <2>2. ASSUME NEW d \in [mode : {"percent"}, value : Percents]
        PROVE  d \in ParsedDiscount
    BY <2>2, InputsAllowed DEF ParsedDiscount, Discount
  <2> QED
    BY <2>1, <2>2 DEF Discounts, AnyDiscount
<1>2. /\ bill.quantity \in Quantities
      /\ bill.price \in Prices
      /\ bill.line \in Discounts
      /\ bill.order \in Discounts
      /\ bill.tax \in Taxes
  BY DEF BillType
<1>3. bill.line \in AnyDiscount /\ bill.order \in AnyDiscount
  BY <1>1, <1>2
<1>4. bill.quantity \in Nat \ {0} /\ bill.price \in Nat /\ bill.tax \in TaxSettings
  <2>1. Quantities \subseteq Nat \ {0} /\ Prices \subseteq Nat /\ Taxes \subseteq TaxSettings
    BY InputsAllowed
  <2> QED
    BY <1>2, <2>1
<1> QED
  BY <1>3, <1>4

\* No step changes the bill.
LEMMA BillKept == Spec => []BillType
<1>1. Init => BillType
  BY DEF Init, BillType
<1>2. BillType /\ [Next]_bill => BillType'
  BY DEF Next, BillType
<1> QED
  BY <1>1, <1>2, PTL DEF Spec

\* The amount of a line, and what is charged for it.
LEMMA LineParts ==
    ASSUME BillType
    PROVE  /\ base \in Nat
           /\ CalculateDiscount(base, bill.line) \in Nat
           /\ CalculateDiscount(base, bill.line) <= base
           /\ charged \in Nat /\ charged <= base
<1>1. base \in Nat
  BY BillParts DEF base
<1> HIDE DEF base
<1>2. bill.line \in AnyDiscount
  BY BillParts
<1>3. CalculateDiscount(base, bill.line) \in Nat /\ CalculateDiscount(base, bill.line) <= base
  BY <1>1, <1>2, DiscountWithinBase
<1> QED
  BY <1>1, <1>3 DEF charged

\* RecalculateOrderTotals and OverrideItemPrice give a line the same discount.
THEOREM SqlAndGoAgree == Spec => []SqlAgreesWithGo
<1>1. BillType => SqlAgreesWithGo
  <2> SUFFICES ASSUME BillType
               PROVE  SqlAgreesWithGo
    OBVIOUS
  <2>1. bill.quantity \in Nat /\ bill.price \in Nat /\ bill.line \in AnyDiscount
    BY BillParts
  <2>2. LineDiscount(bill.quantity, bill.price, bill.line)
          = CalculateDiscount(bill.quantity * bill.price, bill.line)
    BY <2>1, SameDiscount
  <2> QED
    BY <2>2 DEF SqlAgreesWithGo, base
<1> QED
  BY <1>1, BillKept, PTL

\* The audited price of an override is between nothing and the unit price and
\* off the charged amount by at most half a poisha a unit.
THEOREM AuditIsFair == Spec => []AuditedPriceFair
<1>1. BillType => AuditedPriceFair
  <2> SUFFICES ASSUME BillType
               PROVE  AuditedPriceFair
    OBVIOUS
  <2> DEFINE adjusted == Averaged(bill.quantity, charged)
  <2>1. bill.quantity \in Nat \ {0} /\ bill.price \in Nat
    BY BillParts
  <2>2. charged \in Nat /\ charged <= bill.quantity * bill.price
    BY LineParts DEF base
  <2>3. /\ adjusted \in Nat
        /\ adjusted <= bill.price
        /\ 2 * (bill.quantity * adjusted - charged) <= bill.quantity
        /\ 2 * (charged - bill.quantity * adjusted) <= bill.quantity
    <3> HIDE DEF charged
    <3> QED
      BY <2>1, <2>2, AverageFair
  <2>4. EffectiveUnitPrice(bill.quantity, bill.price, bill.line) = adjusted
    BY DEF EffectiveUnitPrice, charged, base
  <2> HIDE DEF adjusted
  <2>5. 0 <= adjusted
    BY <2>3
  <2> QED
    BY <2>3, <2>4, <2>5 DEF AuditedPriceFair
<1> QED
  BY <1>1, BillKept, PTL

\* No bill is negative: the discounts never exceed what they are taken from.
THEOREM NoNegativeBill == Spec => []DiscountsWithinBase
<1>1. BillType => DiscountsWithinBase
  <2> SUFFICES ASSUME BillType
               PROVE  DiscountsWithinBase
    OBVIOUS
  <2> DEFINE line == CalculateDiscount(base, bill.line)
             own == CalculateDiscount(base - line, bill.order)
             taxable == base - (line + own)
  <2>1. base \in Nat /\ line \in Nat /\ line <= base
    BY LineParts
  <2>2. bill.order \in AnyDiscount /\ bill.tax \in TaxSettings
    BY BillParts
  <2> HIDE DEF base, line
  <2>3. base - line \in Nat
    BY <2>1
  <2>4. own \in Nat /\ own <= base - line
    BY <2>2, <2>3, DiscountWithinBase
  <2> HIDE DEF own
  <2>5. taxable \in Nat /\ line + own \in Nat /\ line + own <= base
    BY <2>1, <2>4
  <2>6. totals.discount = line + own /\ totals.subtotal = base
    BY DEF totals, Totals, line, own
  <2>7. totals.tax = TaxAmount(taxable, bill.tax) /\ totals.total = TotalAmount(taxable, bill.tax)
    BY DEF totals, Totals, line, own
  <2> HIDE DEF taxable
  <2>8. TaxAmount(taxable, bill.tax) \in Nat
    BY <2>2, <2>5, TaxNotNegative
  <2>9. TotalAmount(taxable, bill.tax) \in Nat
    BY <2>2, <2>5, TotalMonotone
  <2>10. 0 <= line
    BY <2>1
  <2> QED
    BY <2>1, <2>5, <2>6, <2>7, <2>8, <2>9, <2>10 DEF DiscountsWithinBase, line
<1> QED
  BY <1>1, BillKept, PTL

\* One more of an item never makes the bill smaller.
THEOREM BillsOnlyGrow == Spec => []BillNeverFalls
<1>1. BillType => BillNeverFalls
  <2> SUFFICES ASSUME BillType
               PROVE  BillNeverFalls
    OBVIOUS
  <2> DEFINE more == base + bill.price
             left == base - CalculateDiscount(base, bill.line)
             moreLeft == more - CalculateDiscount(more, bill.line)
             paid == left - CalculateDiscount(left, bill.order)
             morePaid == moreLeft - CalculateDiscount(moreLeft, bill.order)
  <2>1. bill.price \in Nat /\ bill.line \in AnyDiscount /\ bill.order \in AnyDiscount
        /\ bill.tax \in TaxSettings
    BY BillParts
  <2>2. base \in Nat /\ left \in Nat
    BY LineParts DEF charged
  <2> HIDE DEF base
  <2>3. more \in Nat /\ base <= more
    BY <2>1, <2>2
  <2> HIDE DEF more
  <2>4. left <= moreLeft
    BY <2>1, <2>2, <2>3, ChargedMonotone
  <2>5. moreLeft \in Nat
    <3>1. CalculateDiscount(more, bill.line) \in Nat /\ CalculateDiscount(more, bill.line) <= more
      BY <2>1, <2>3, DiscountWithinBase
    <3> QED
      BY <2>3, <3>1
  <2>6. totals.total = TotalAmount(base - (CalculateDiscount(base, bill.line)
                         + CalculateDiscount(left, bill.order)), bill.tax)
    BY DEF totals, Totals
  <2>7. Totals(more, CalculateDiscount(more, bill.line), bill.order, bill.tax).total
          = TotalAmount(more - (CalculateDiscount(more, bill.line)
                         + CalculateDiscount(moreLeft, bill.order)), bill.tax)
    BY DEF Totals
  <2>8. /\ CalculateDiscount(base, bill.line) \in Nat
        /\ CalculateDiscount(more, bill.line) \in Nat
    BY <2>1, <2>2, <2>3, DiscountWithinBase
  <2> HIDE DEF left, moreLeft
  <2>9. /\ CalculateDiscount(left, bill.order) \in Nat
        /\ CalculateDiscount(left, bill.order) <= left
        /\ CalculateDiscount(moreLeft, bill.order) \in Nat
        /\ CalculateDiscount(moreLeft, bill.order) <= moreLeft
    BY <2>1, <2>2, <2>5, DiscountWithinBase
  <2>10. paid <= morePaid
    BY <2>1, <2>2, <2>4, <2>5, ChargedMonotone
  <2>11. /\ base - (CalculateDiscount(base, bill.line) + CalculateDiscount(left, bill.order)) = paid
         /\ more - (CalculateDiscount(more, bill.line) + CalculateDiscount(moreLeft, bill.order)) = morePaid
    BY <2>2, <2>3, <2>8, <2>9 DEF left, moreLeft
  <2>12. paid \in Nat /\ morePaid \in Nat
    BY <2>2, <2>5, <2>9
  <2> HIDE DEF paid, morePaid
  <2>13. /\ TotalAmount(paid, bill.tax) \in Nat
         /\ TotalAmount(morePaid, bill.tax) \in Nat
         /\ TotalAmount(paid, bill.tax) <= TotalAmount(morePaid, bill.tax)
    BY <2>1, <2>10, <2>12, TotalMonotone
  <2>14. Totals(more, CalculateDiscount(more, bill.line), bill.order, bill.tax).total >= totals.total
    BY <2>6, <2>7, <2>11, <2>13
  <2>15. moreLeft >= left
    BY <2>2, <2>4, <2>5
  <2> QED
    BY <2>14, <2>15 DEF BillNeverFalls, charged, left, moreLeft, more
<1> QED
  BY <1>1, BillKept, PTL

=============================================================================
