CONSTANTS
    Symbol = {btc, eth}
    Requests = {"api"}
    MaxSends = 2
    MaxLives = 2
    None = None
SPECIFICATION FairSpec
CHECK_DEADLOCK FALSE
INVARIANTS
    KillHolds
    StopLeavesNothing
    NoStacking
PROPERTIES
    ClosedSendsNothing
    StopCompletes
