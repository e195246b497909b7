SPECIFICATION RoomsSpec
CONSTANTS
    Users = {ann, bob, cho}
    Opens = {o1, o2, o3}
    NoRoom = NoRoom
    NoUser = NoUser
INVARIANT ExistingRoomIsFound
CHECK_DEADLOCK FALSE
