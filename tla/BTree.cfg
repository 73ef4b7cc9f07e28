SPECIFICATION Spec
CONSTANTS
    None = None
    Objects <- MCObjects
    Orders = {3, 5}
    PoolSizes = {3, 8}
    Clears <- OwnBit
PROPERTY ImplementsIndex
CHECK_DEADLOCK FALSE
