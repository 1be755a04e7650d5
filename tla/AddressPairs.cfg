SPECIFICATION Spec
CONSTANTS
    x = x
    y = y
    z = z
    Addresses = {x, y, z}
    AddressLists <- Pairs
    Filters <- DisjointTwo
    Priorities <- Weights
INVARIANTS
    FiltersExactly
    PicksHeaviest
    KeepsOrderOfEquals
CHECK_DEADLOCK FALSE
