\* Three persons, two of them under one address, and three requests at once.
SPECIFICATION Spec
CONSTANTS
    p1 = p1
    p2 = p2
    p3 = p3
    e1 = e1
    e2 = e2
    Persons = {p1, p2, p3}
    Addresses = {e1, e2}
    Email <- SomeEmail
    Files <- SomeFiles
    Handlers = {h1, h2, h3}
    None = None
    Budgets <- Behaviours
SYMMETRY Interchangeable
INVARIANTS DecisionsAgree VerificationStands LinksProve DocumentsHonest
CHECK_DEADLOCK FALSE
