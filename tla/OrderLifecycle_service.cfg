CONSTANTS
    Client = {c1, c2, c3}
    Order = {o1, o2}
    Table = {t1}
    NoTable = NoTable
    NoOrder = NoOrder
    Nobody = Nobody
    CardStatus = {"occupied"}
SPECIFICATION FairSpec
INVARIANT
    SeatedTableIsOccupied
PROPERTY
    EveryRequestEnds
