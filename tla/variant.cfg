SPECIFICATION Spec
SYMMETRY Symmetry
CONSTANTS
    v1 = v1
    v2 = v2
    v3 = v3
    a1 = a1
    a2 = a2
    a3 = a3
    a4 = a4
    x1 = x1
    x2 = x2
    Zero = Zero
    Default = Default
    Vars <- ThreeVars
    Nodes <- FourNodes
    Payloads <- TwoPayloads
    CopiesCStrings = FALSE
    CopiesDates = FALSE
    NarrowsPointers = FALSE
INVARIANTS
    TypeOK
    OwnedOnce
    NoUndefinedBehaviour
PROPERTIES
    CopiesAreEqual
    ValueSemantics
