CONSTANTS
    Elem <- MCElem
    Rank <- MCRank
    kMaxLevel = 3
    head = head
    nullptr = nullptr
    Index <- MCIndex
SPECIFICATION Spec
INVARIANTS LanesAreSublists PrevMirrorsNext CurMaxLevelIsTight
PROPERTY RefinesSortedSet
