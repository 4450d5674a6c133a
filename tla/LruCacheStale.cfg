SPECIFICATION Spec
CONSTANTS
    A = A
    B = B
    C = C
    Nil = Nil
    Keys <- MCKeys
    n1 = n1
    n2 = n2
    n3 = n3
    n4 = n4
    Nodes <- MCNodes
    Values = {3, 4}
    Capacity = 3
    Bucket <- Together
PROPERTY PoppedIsGone
CHECK_DEADLOCK FALSE
