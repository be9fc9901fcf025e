SPECIFICATION GroupSpec
CONSTANTS
    Users = {owner, voter}
    Owner = owner
    PollIds = {q1, q2}
    Options = {a, b}
    Limit = 2
    MaxVersion = 9
    Group = {owner, guest1, guest2}
    Plans = {"p1", "p2"}
    Scope <- OneScoped
    Start <- LaterFirst
    Items = {i1, i2}
    Names = {water, bread}
    Amount = 2
    MaxListVersion = 20
    People = {n1, n2}
    Texts = {x, y}
    MaxNoteVersion = 6
    None = None
SYMMETRY GroupSymmetry
INVARIANTS GroupTypeOK ClaimsFit CompletedMeetingIsReady
PROPERTIES ExactWhenQuiet RecommendsBest FinalAnswersStay AdmittedWhileActive EveryChangeTells
CHECK_DEADLOCK FALSE
