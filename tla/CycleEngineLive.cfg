\* Liveness: every run ends and every application reaches the queue, with a crash,
\* while the applicant of one confirms late or never.
SPECIFICATION FairSpec
CONSTANTS
    a1 = a1
    a2 = a2
    a3 = a3
    Apps = {a1, a2}
    Handlers = {h1}
    None = None
    LinkEdges <- PairEdges
    Unconfirmed = {a2}
    Across = {}
    Budgets <- Pair
PROPERTIES RunsEnd ReachesQueue
CHECK_DEADLOCK FALSE
