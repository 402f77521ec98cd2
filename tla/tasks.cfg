\* A count and a transfer of the stock that two orders of one line receive and reserve.
CONSTANTS
    Purchase = {"po"}
    Sales = {"so"}
    Product = {"a"}
    Bin = {"main", "east"}
    Site <- MCSite
    WarehouseOf <- MCWarehouseOf
    Ordered <- MCOneLine
    Return = {}
    ManualTask = {"count", "move"}
    Manual <- MCManual
    MaxAllocations = 1
    MaxReceipts = 2
    Tolerance = {0}
    Worked = {"count", "transfer", "transfer_receipt"}
    MaxVersion = 2
    Quantities = {0, 1}
    Counts = {0, 2}
    Deltas <- MCDeltas
    Adjusted <- MCAdjusted
    Issued = {"pending_approval", "approved", "sent", "acknowledged",
              "draft", "confirmed", "in_progress", "exception", "cancelled"}
SPECIFICATION Spec
INVARIANTS
    PositionsMatchDocuments
PROPERTIES
    PinnedWorkIsCurrent
CHECK_DEADLOCK FALSE
