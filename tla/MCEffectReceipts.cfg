CONSTANTS
    a1 = a1
    a2 = a2
    k1 = k1
    k2 = k2
    none = none
    Activation <- MCActivation
    NoOwner <- none
    Key <- MCKey
    Charged <- MCKey
    Child <- MCChild
    ToolLimit = 1
SPECIFICATION Spec
SYMMETRY Symmetry
INVARIANTS AtMostOnce ChargedOnce ReceiptsTruthful
PROPERTIES ReceiptsFinal
CHECK_DEADLOCK FALSE
