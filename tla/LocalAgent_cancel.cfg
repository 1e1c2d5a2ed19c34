SPECIFICATION Spec
CONSTANTS
    Callers = {c1}
    MaxTurns = 1
    NoTurn = NoTurn
INVARIANT CancelEndsTurn
CHECK_DEADLOCK FALSE
