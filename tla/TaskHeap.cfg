\* Up to six tasks of two ids and two times in the list, any of them twice or more.
SPECIFICATION Spec
CONSTANTS
    Ids = {a, b}
    ExecTimes = {1, 2}
    Nil = Nil
    Items = {x1, x2, x3, x4, x5, x6}
    InitialLists <- ShortLists
INVARIANTS
    HeapOrdered
    PositionsKnown
PROPERTIES
    DeleteIsExact
    ImplementsList
SYMMETRY Symmetry
