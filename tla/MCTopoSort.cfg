\* Every list of MCTopoSort's Small and Wide.
CONSTANTS
    a = a
    b = b
    c = c
    d = d
    Names <- MCNames
    Inputs <- MCInputs
SPECIFICATION Spec
INVARIANTS
    TypeOK
    OrderMeetsContract
    RefusalIsJustified
    RootsStayInOrder
PROPERTY
    Returns
CHECK_DEADLOCK FALSE
