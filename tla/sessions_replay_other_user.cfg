SPECIFICATION Spec
CONSTANTS
    alice = alice
    bob = bob
    x1 = x1
    x2 = x2
    x3 = x3
    NoUser = NoUser
    NoToken = NoToken
    User <- Users
    Token <- Tokens
    Database = "sqlite"
    MaxFaults = 0
SYMMETRY Symmetry
INVARIANT
    ReplayUnderItsOwner
CHECK_DEADLOCK FALSE
