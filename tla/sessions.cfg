SPECIFICATION Spec
CONSTANTS
    alice = alice
    bob = bob
    x1 = x1
    x2 = x2
    x3 = x3
    NoUser = NoUser
    NoToken = NoToken
    User <- Users
    Token <- Tokens
    Database = "postgresql"
    MaxFaults = 1
SYMMETRY Symmetry
INVARIANTS
    OneLiveToken
    StoredSessionIsOne
    SessionSurvives
PROPERTIES
    ReuseEndsSessions
CHECK_DEADLOCK FALSE
