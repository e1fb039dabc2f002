SPECIFICATION FairSpec
CONSTANTS
    create = create
    item = item
    close = close
    p1 = p1
    p2 = p2
    order = order
    Direct = Direct
    None = None
    Mutation <- Two
    Parent <- ParentTwo
    OrderOf <- OrderTwo
    Closing <- OnlyClose
    Pass <- TwoPasses
    MaxRetry = 2
INVARIANTS
    AppliedOnce
    NothingLost
    SentUnderRealId
PROPERTIES
    IndependentDrain
    KeepsOutbox
