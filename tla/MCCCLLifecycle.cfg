CONSTANTS
    Callers = {c1, c2}
    MaxCalls = 2
    MaxPairs = 1
    FreepOutcomes = {"fault", "return"}

SPECIFICATION Spec
SYMMETRY MCCallers
CHECK_DEADLOCK FALSE

INVARIANT SafeUnlessMisused TakenForGood HandlerKeepsPlayers

PROPERTY FailureIsFinal
