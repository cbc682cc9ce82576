SPECIFICATION Spec
CONSTANTS
    c1 = c1
    c2 = c2
    s1 = s1
    s2 = s2
    shirt = shirt
    box = box
    Lines = {shirt}
    Ordered <- Two
    Changes = {c1}
    Staff = {s1, s2}
    MaxReturns = 1
    MaxParcels = 1
    MaxVersion = 4
    MaxQuantity = 2
    Quantities = {1, 2}
    Packs = {1}
SYMMETRY Symmetry
INVARIANTS
    TypeOK
    ParcelsMove
    ReturnsCounted
    Receivable
    AppliedOnce
CHECK_DEADLOCK FALSE
