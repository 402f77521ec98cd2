\* Documents of two lines that fail half-way and are sent again.
CONSTANTS
    Purchase = {"po"}
    Sales = {"so", "sold"}
    Product = {"a", "b", "c"}
    Ordered <- MCOrdered
    Position <- MCPosition
    Sellable <- MCSellable
    Serial = {}
    Route = {}
    Key <- MCKey
    Quantity = {}
    RequestKey = {k1, k2}
    ClientKey = {c1}
    Return = {"r"}
    Asked <- MCAsked
    ManualTask = {"count", "move"}
    Elsewhere <- MCElsewhere
    Manual <- MCManual
    Quantities = {0, 1}
    Deltas <- MCDeltas
    Adjusted <- MCAdjusted
    Issued = {"draft", "confirmed", "picking", "authorized", "in_progress"}
    MaxLines = 2
    MaxCreated = 1
    Opened <- MCOpened
    Stocked <- MCStocked
SYMMETRY KeySymmetry
SPECIFICATION Spec
INVARIANTS
    TypeOK
    DocumentsPosted
    ReservationsCounted
PROPERTIES
    ShortByOverrideOnly
CHECK_DEADLOCK FALSE
