CONSTANTS
    Client = {c1, c2, c3}
    Order = {o1, o2, o3}
    Table = {t1, t2}
    NoTable = NoTable
    NoOrder = NoOrder
    Nobody = Nobody
    CardStatus = {"available", "occupied", "reserved"}
SPECIFICATION Spec
SYMMETRY Interchangeable
INVARIANTS
    TypeOK
    BilledOnce
    InvoiceNumbersGapless
    TableLockSuffices
PROPERTIES
    CheckoutFreesOnlyEmptyTables
    LedgerSpec
