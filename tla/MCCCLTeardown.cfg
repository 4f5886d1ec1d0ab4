CONSTANTS
    Layouts <- MCAny
    Releasers = {r1, r2}
    Patient = TRUE
SPECIFICATION FairSpec
CHECK_DEADLOCK FALSE
INVARIANT FaultNeedsOvertaking OvertakesOnly AllFreed
PROPERTY ReleaseEnds
