\* Two siblings of one address, four pages opened, and a request refused or lost.
SPECIFICATION Spec
CONSTANTS
    Siblings = {p1, p2}
    Nobody = Nobody
    MaxVisits = 4
    MaxLinks = 1
    MaxFaults = 1
SYMMETRY Family
INVARIANTS TypeOK RefreshKeepsWork SignsInOnce
CHECK_DEADLOCK FALSE
