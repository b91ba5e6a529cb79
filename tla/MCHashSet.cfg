SPECIFICATION SetSpec
CONSTANTS
    k1 = k1
    k2 = k2
    k3 = k3
    k4 = k4
    k5 = k5
    k6 = k6
    Key <- MCKey
    Val = {unit}
    Hash <- MCHash
    InitSlots = 2
    LoadNum = 1
    LoadDen = 1
INVARIANTS
    Inv
PROPERTIES
    RefinesSet
    RehashProgress
