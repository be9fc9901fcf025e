SPECIFICATION FairSpec
CONSTANTS
    Meetings = {m1}
    Conns = {c1, c2}
    MaxMeetings = 1
    MaxSubscribers = 2
    MaxVersion = 3
PROPERTIES ReportsNewerVersion
