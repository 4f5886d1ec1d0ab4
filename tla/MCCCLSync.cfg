CONSTANTS
    Ms = 54
    Inputs <- MCInputs
    PlayWrap = 5
    Far = 650000

SPECIFICATION FairSpec
CHECK_DEADLOCK FALSE

INVARIANT DelayBounded

PROPERTY InSync LagBounded DropsSpaced PlaysOnAlone
