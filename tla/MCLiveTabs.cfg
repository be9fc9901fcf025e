SPECIFICATION FairTabSpec
CONSTANTS
    Meetings = {m1}
    Conns = {c1}
    MaxMeetings = 1
    MaxSubscribers = 1
    MaxVersion = 4
INVARIANT NoUpdateForgotten
PROPERTIES UpdateIsShown NewsArrives
