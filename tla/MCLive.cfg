SPECIFICATION Spec
CONSTANTS
    Meetings = {m1, m2}
    Conns = {c1, c2, c3}
    MaxMeetings = 1
    MaxSubscribers = 2
    MaxVersion = 4
SYMMETRY LiveSymmetry
INVARIANTS TableExact NothingDropped
PROPERTIES ToldIncreases
