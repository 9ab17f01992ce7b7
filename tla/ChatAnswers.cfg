SPECIFICATION Spec
CONSTANTS
    Handlers = {h1, h2}
    Items = {laptop, chair}
    MaxConvs = 3
    MaxFiled = 2
    MaxTurns = 0
    MaxRestarts = 1
    OpenLimit = 8
    None = None
    Chats = {m1}
    NumCases = 2
    Questions = {q1, q2}
    MaxSaid = 3
    Tasks = {t1, t2}
    Drops = {f1, f2}
    Suppliers = {s1, s2}
    Strangers = {x1}
    LooksLike <- Alike
    MaxDeliveries = 0
    MaxArms = 0
    MaxDeskRestarts = 1
    Nobody = Nobody
INVARIANT AnswerableInChat
CHECK_DEADLOCK FALSE
