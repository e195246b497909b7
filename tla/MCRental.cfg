SPECIFICATION Spec
CONSTANTS
    Bookings = {b1, b2}
    Calls = {d1, d2, d3}
    Products = {p1}
    p1 = p1
    Periods = {t1, t2}
    Users = {owner, other}
    owner = owner
    OwnerOf <- MCOwnerOf
    MaxCrashes = 1
    None = None
SYMMETRY Symmetry
INVARIANTS DeadlocksArePairs RentalInv UsingIffSigned
PROPERTIES RejectionIsFinal ImplementsAgreement
CHECK_DEADLOCK FALSE
