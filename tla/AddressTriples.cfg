SPECIFICATION Spec
CONSTANTS
    x = x
    y = y
    z = z
    Addresses = {x, y, z}
    AddressLists <- Triples
    Filters <- NoFilter
    Priorities <- Weights
INVARIANTS
    PicksHeaviest
CHECK_DEADLOCK FALSE
