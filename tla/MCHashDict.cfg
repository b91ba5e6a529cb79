SPECIFICATION DictSpec
CONSTANTS
    k1 = k1
    k2 = k2
    k3 = k3
    k4 = k4
    Key <- MCKey
    Val = {v1, v2}
    Hash <- MCHash
    InitSlots = 2
    LoadNum = 1
    LoadDen = 2
INVARIANTS
    Inv
PROPERTIES
    RefinesDict
    RehashProgress
