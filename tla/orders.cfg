\* Two orders of two lines, with over-receipts, partial shipments and a return.
CONSTANTS
    Purchase = {"po"}
    Sales = {"so"}
    Product = {"a", "b"}
    Bin = {"main"}
    Site <- MCSite
    WarehouseOf <- MCWarehouseOf
    Ordered <- MCTwoLines
    Return = {r1, r2}
    ManualTask = {}
    Manual <- MCManual
    MaxAllocations = 2
    MaxReceipts = 2
    Tolerance = {0, 100}
    Worked = {"receive"}
    MaxVersion = 0
    Quantities = {0, 1}
    Counts = {}
    Deltas = {}
    Adjusted = {}
    Issued = {"pending_approval", "approved", "sent", "acknowledged", "received",
              "draft", "confirmed", "backordered", "picking",
              "authorized", "cancelled", "in_progress"}
SYMMETRY ReturnSymmetry
SPECIFICATION Spec
INVARIANTS
    TypeOK
    NoOverCommitment
    CompleteWhenSaid
    ReturnsWithinShipped
    ReceivedWithinTolerance
    ReceivableOrderHasTask
CHECK_DEADLOCK FALSE
