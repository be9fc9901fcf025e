SPECIFICATION Spec
CONSTANTS
    Users = {owner, guest}
    Owner = owner
    PlanIds = {p1, p2}
    TimeIds = {t1, t2}
    FixedPlan = p1
    FixedTime = t1
    Texts = {x, y}
    Slots = {s1, s2}
    Links = {l1, l2}
    Answers = {available}
    Replies = {going}
    OptionLimit = 2
    MaxVersion = 12
    None = None
SYMMETRY MeetingSymmetry
INVARIANTS TypeOK DecisionSound LinkGate Decidable ReferencesSound
PROPERTIES ArchiveReadOnly VersionTracksContent EvidenceFrozen
    KeepsLifecycle
CHECK_DEADLOCK FALSE
