\* Three requests and one job, three connections in each process, two cycles.
SPECIFICATION Spec
CONSTANTS
    Processes = {"api", "worker"}
    Tasks = {"first", "second", "third", "job"}
    Home <- HomeOf
    Max = 3
    Cycles = {"y", "z"}
    None = None
    Statements = 1
INVARIANT PoolMoves
INVARIANT LockHasSession
PROPERTY LocksComeBack
