SPECIFICATION Spec
CONSTANTS
    Handlers = {h1, h2}
    Items = {laptop, chair}
    MaxConvs = 3
    MaxFiled = 2
    MaxTurns = 4
    MaxRestarts = 1
    OpenLimit = 8
    None = None
    Chats = {m1, m2}
    NumCases = 2
    Questions = {q1, q2}
    MaxSaid = 2
    Tasks = {t1, t2}
    Drops = {f1, f2}
    Suppliers = {s1, s2}
    Strangers = {x1}
    LooksLike <- Alike
    MaxDeliveries = 2
    MaxArms = 2
    MaxDeskRestarts = 1
    Nobody = Nobody
SYMMETRY Symmetry
CHECK_DEADLOCK FALSE
INVARIANTS FiledAsAsked TurnsAreSettled BidIsItsSuppliers
PROPERTIES DraftsAreKept ChangesAreEntitled
