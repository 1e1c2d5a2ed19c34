SPECIFICATION Spec
CONSTANTS
    Callers = {c1, c2}
    MaxTurns = 2
    NoTurn = NoTurn
SYMMETRY MCSymmetry
INVARIANTS TypeOK OneEngine EndsOnce SilentOnlyIfAsked AgentIsRead DeleteStopsEngine
PROPERTY ImplementsContract
CHECK_DEADLOCK FALSE
