SPECIFICATION Spec
CONSTANTS
    None = None
    Objects <- MCObjects
    Orders = {3, 5}
    PoolSizes = {3, 8}
    Clears <- KernelBit
INVARIANT NotFreedTwice
CHECK_DEADLOCK FALSE
