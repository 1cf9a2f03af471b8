\* git, a transport, a quiet child and a helper, a context that ends at any moment
SPECIFICATION LiveSpec
CONSTANTS
    Grace = 3
    PipeWait = 2
INVARIANTS GitDecides NoSurvivors CauseNamed ReturnBounded
PROPERTIES GraceGiven Returns
CHECK_DEADLOCK FALSE
