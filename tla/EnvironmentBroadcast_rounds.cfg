\* two repositories, endless sleeps and network changes, a reader that may fail
SPECIFICATION LiveSpec
CONSTANTS
    r1 = r1
    r2 = r2
    Repos = {r1, r2}
    Probe = 2
    Gap = 2
    Settle = 1
    Cooldown = 4
    Failures = {"netwatch"}
INVARIANTS PromptRound
PROPERTIES RoundsRationed NotItsOwnTrigger
