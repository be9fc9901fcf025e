SPECIFICATION Spec
CONSTANTS
    Users = {owner, guest}
    Owner = owner
    Plans = {"p1", "p2"}
    Scope <- OneScoped
    Start <- SameStart
    None = None
INVARIANT CountsNotNegative
