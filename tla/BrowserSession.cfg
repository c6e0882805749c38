SPECIFICATION Spec
CONSTANTS
    alice = alice
    x = x
    y = y
    k1 = k1
    Users = {alice}
    Nobody = Nobody
    Sids <- Connection
    Tabs = {x, y}
    Tokens = {k1}
    OwnerOf <- OneAccount
    NoToken = NoToken
    Undefined = Undefined
    SidOf <- ConnectionOf
    MaxConnections <- ConnectionsOfTabs
    MaxSignIns <- SignInsOfTabs
    SignInsOfX = 1
    MaxOfX = 2
    MaxOfY = 1
INVARIANTS
    NoGhosts
PROPERTIES
    UsesPools
    TabSettles
    TabJoins
CHECK_DEADLOCK FALSE
