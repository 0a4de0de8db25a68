\* 2 slots grow to 4 and to 10.
CONSTANTS
    Elems = {e1, e2}
    InitialSlots = {2}
    MaxSlots = 10
    Nil = Nil
SPECIFICATION Spec
SYMMETRY ElemSymmetry
INVARIANTS PushSucceeds
PROPERTIES ImplementsFifo
