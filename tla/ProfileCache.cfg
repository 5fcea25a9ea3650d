SYMMETRY Symmetry
SPECIFICATION Spec
CONSTANTS
    Users = {u1, u2}
    Calls = {c1, c2}
    Keys = {k1, k2, k3}
    Sizes = {1, 2}
    UserLimit = 3
    ProcessLimit = 4
INVARIANTS
    AccountingExact
    ProcessBudget
    UserBudget
    ClosedHoldsNothing
PROPERTIES
    KeepHonoured
