SPECIFICATION FairSpec
CONSTANTS
    create = create
    item = item
    close = close
    p1 = p1
    p2 = p2
    order = order
    Direct = Direct
    None = None
    Mutation <- Three
    Parent <- ParentThree
    OrderOf <- OrderThree
    Closing <- OnlyClose
    Pass <- OnePass
    MaxRetry = 5
PROPERTIES
    DependentDrain
