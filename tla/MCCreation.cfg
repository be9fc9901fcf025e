SPECIFICATION Spec
CONSTANTS
    Calls = {c1, c2, c3}
    Bodies = {b1, b2}
    Ids = {m1, m2}
    None = None
INVARIANTS OneMeetingPerKey AnswersAgree
PROPERTIES ImplementsCreateOnce EveryRequestIsAnswered
CHECK_DEADLOCK FALSE
