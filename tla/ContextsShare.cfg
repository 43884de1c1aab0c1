SPECIFICATION Spec
CONSTANTS
    t1 = t1
    t2 = t2
    c1 = c1
    c2 = c2
    c3 = c3
    x = x
    Null = Null
    Thread <- MCThread
    Context <- MCContext
    Unseen <- MCNone
    Name <- MCName
SYMMETRY Symmetry
INVARIANT SharersAgree
CHECK_DEADLOCK FALSE
