SPECIFICATION PeopleSpec
CONSTANTS
    Tabs = {x, y}
    Users = {account}
    Tokens = {k1, k2, k3}
    MaxLate = 1
    People = {owner, x, y}
    Owner = owner
    Ids = {i1, i2}
    None = None
SYMMETRY PeopleSymmetry
INVARIANTS PeopleTypeOK LinesAreChains OneActivePerLogin DeadCookieMeansLoss FriendsAgreed
    OverviewSound
PROPERTY InvitedWereFriends
CHECK_DEADLOCK FALSE
