CONSTANTS
    Val = {a, b}
    NoElem = NoElem
    Undefined = Undefined
    kBlockSize = 2
    Index <- MCIndex
    MinNode <- MCMinNode
    MaxNode = 2
    MaxLen = 4
SPECIFICATION Spec
INVARIANT ChainInv
PROPERTY RefinesDeque
CHECK_DEADLOCK FALSE
