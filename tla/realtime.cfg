SPECIFICATION FairSpec
CONSTANTS
    Socket = {s1, s2}
    Tenant = {bar, pub}
    NoSocket = NoSocket
    NoTenant = NoTenant
    MaxChanges = 1
    MaxFaults = 2
INVARIANTS
    OneSocketOfSelection
    RoomIsOfMembers
PROPERTIES
    ShowsLatest
    Rejoins
CHECK_DEADLOCK FALSE
