SPECIFICATION FairSpec
CONSTANTS
    Bookings = {b1}
    Calls = {d1, d2, d3}
    Products = {p1}
    p1 = p1
    Periods = {t1}
    Users = {owner, other}
    owner = owner
    OwnerOf <- MCOwnerOf
    MaxCrashes = 1
    None = None
PROPERTY EveryCallEnds
CHECK_DEADLOCK FALSE
