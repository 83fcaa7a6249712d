SPECIFICATION FairSpec
CONSTANTS
    n1 = n1
    n2 = n2
    n3 = n3
    n4 = n4
    Lists = {a, b, t}
    Local = t
    Nodes <- MCNodes
    Key <- MCKey
    Null = Null
    Garbage = Garbage
INVARIANTS Linked IsOnListTells ReadsAgree
PROPERTIES SortsStably SortReturns
