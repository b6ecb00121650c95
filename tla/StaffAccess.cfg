SPECIFICATION Spec
CONSTANTS
    u1 = u1
    u2 = u2
    Users = {u1, u2}
    Founder = u1
    Browsers = {b1, b2}
    None = None
    TimeSteps = {1, 2}
    Budgets <- Behaviours
SYMMETRY Interchangeable
INVARIANTS NoStaleSession SomeAdminLeft CodeSpentOnce
PROPERTIES ActivatedOnce
CHECK_DEADLOCK FALSE
