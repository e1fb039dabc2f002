SPECIFICATION FairSpec
CONSTANTS
    k1 = k1
    settle1 = settle1
    settle2 = settle2
    status1 = status1
    status2 = status2
    sameBody = sameBody
    order = order
    Order = {order}
    OrderOf <- SettledOrder
    NoCall = NoCall
    Key = {k1}
    Call <- Calls
    Req = {r1, r2}
    KeyOf <- CallKeys
    BodyOf <- CallBodies
    Reserving <- ReservingCalls
    MaxFailures = 2
INVARIANTS
    OneEffect
    AnswerTellsEffect
    NeverHalfDone
PROPERTIES
    EventuallyAnswered
    ImplementsRegister
CHECK_DEADLOCK FALSE
