SPECIFICATION Spec
CONSTANTS
    Products = {p1}
    Images = {i1, i2, i3}
    Requests = {r1, r2}
    None = None
SYMMETRY Symmetry
INVARIANTS  BookableIsWhole RemovedForGood
PROPERTIES ImagesNeverReturn RevivedByEarlierReaders
CHECK_DEADLOCK FALSE
