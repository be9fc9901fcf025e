SPECIFICATION CopiesSpec
CONSTANTS
    Tabs = {t1, t2}
    Texts = {old, new}
    MaxVersion = 3
    Options = {o1}
    Hashes = {h1, h2}
    MaxPhotoVersion = 6
    MaxRevision = 3
    MaxLives = 2
    None = None
SYMMETRY CopiesSymmetry
INVARIANTS CopiesTypeOK CurrentCopyIsExact KeptIsNotOlder RevisionHasPhoto
PROPERTIES NoLostTitle NoUnseenPhotoLost
CHECK_DEADLOCK FALSE
