SPECIFICATION ServicesSpec
CONSTANTS
    Users = {ann, bob, cho}
    Opens = {o1, o2}
    NoRoom = NoRoom
    NoUser = NoUser

    Cats = {"tools", "books"}
    MaxProducts = 3
    PageSizes = {2, 3}

    u1 = u1
    u2 = u2
    u3 = u3
    Updates = {u1, u2, u3}
    Deals = {d1}
    TemplateColumns = {"condition"}
    Registered = Registered
    PriceOf <- Prices
    Hours <- SomeHours
    IntSpan = 16
    FeeLimit = 7

    m1 = m1
    m2 = m2
    Members = {m1, m2}
    Edits = {e1, e2}
    Clients = {k1}
    Emails = {"a", "b"}
    Nicknames = {"n", "o"}
    Phones = {"1", "2", "3"}
    Forms <- SomeForms
    NoPhone = NoPhone
    NoFile = NoFile
    NoToken = NoToken
INVARIANT RoomsInv
INVARIANT NoTwinWithoutRace
INVARIANT AnswerIsUsable
 
 
 
INVARIANT PageFilled
INVARIANT TermsInv
INVARIANT TermsWereOffered
INVARIANT TotalMatchesFee
INVARIANT AccountsInv
INVARIANT TokensNameOneUser
INVARIANT RefusedForItsOwnPhone
PROPERTY LostOnlyByOverlap
PROPERTY TemplateStaysGone
PROPERTY ProfileLostOnlyByOverlap
 
PROPERTY ImplementsRegistry
SYMMETRY EditsAlike
CHECK_DEADLOCK FALSE
