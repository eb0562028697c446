CONSTANTS
    write = write
    zero = zero
    Events <- MCWrites
    kind <- MCWriteKind
    Tuples <- MCTuples
    ZeroTuple <- zero
    Ticks = {"timer"}
    Operator = "operator"
    MaxLeaves = 2
    MaxBlocks = 3
    MaxFailures = 1
    MaxRestarts = 1
    MaxDeliveries = 1
    MaxUnpublished = 1
    MaxRouterRestarts = 1
SPECIFICATION Spec
  
PROPERTIES TicksEnd HeardUntilFolded
CHECK_DEADLOCK FALSE
