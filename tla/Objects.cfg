SPECIFICATION ObjectsSpec
CONSTANTS
    t1 = t1
    t2 = t2
    x1 = x1
    x2 = x2
    x3 = x3
    tex = tex
    NULL = NULL
    Thread <- MCThread
    Context <- MCContext
    Name <- MCName
    Unseen <- MCUnseen
    Picked <- MCPicked
    Key <- MCKey
    Value = {a}
    Null = Null
    Hash <- MCHash
    SIZE_MAX = 127
    MaxIndex = 2
SYMMETRY Symmetry
INVARIANTS
    CurrentIsGl
    ListsAlive
    ListedIsAlive
    ProbesEnd
    FindsWhatWasSet
CHECK_DEADLOCK FALSE
