\* One purchase, a hold in no line's name and a sweeper, over two locations.
CONSTANTS
    here = here
    there = there
    s1 = s1
    s2 = s2
    Locations = {here, there}
    Bought = 1
    Slots = 1
    Required = 1
    Sweepers = {s1}
    Quantities = {1, 2}
    MaxGoods = 2
    MaxEdits = 1
    MaxParcels = 2
SPECIFICATION Spec
INVARIANTS TypeOK  HoldCovers GoodsConserved NeverOversold HoldsNameACart
SYMMETRY Interchangeable
CHECK_DEADLOCK FALSE
