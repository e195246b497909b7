SPECIFICATION Spec
CONSTANTS
    Products = {p1, p2, p3}
    Sizes = {1, 2}
    MaxTime = 2
SYMMETRY Symmetry
INVARIANTS PagingInv ShownOnce NothingSkipped
PROPERTIES OlderAndOlder ImplementsBrowse
CHECK_DEADLOCK FALSE
