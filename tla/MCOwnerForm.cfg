SPECIFICATION Spec
CONSTANTS
    Tabs = {t1, t2}
    Texts = {old, new}
    MaxVersion = 3
    None = None
PROPERTIES
    NoLostPlan
CHECK_DEADLOCK FALSE
