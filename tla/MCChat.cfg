SPECIFICATION Spec
CONSTANTS
    Users = {u1, u2}
    u1 = u1
    u2 = u2
    Rooms = {r1}
    User1 <- MCUser1
    User2 <- MCUser2
    Sessions = {s1, s2}
    s1 = s1
    SessionUser <- MCSessionUser
    Messages = {m1}
    MaxCrashes = 1
    None = None
INVARIANTS CopyInOnePlace  FilterNeverBites 
 
CHECK_DEADLOCK FALSE
