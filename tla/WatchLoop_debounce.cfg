\* endless editing, lost events, failing cycles and loops, a person and a wake-up against the timers, the ticker and the mailbox
SPECIFICATION LiveSpec
CONSTANTS
    p1 = p1
    w1 = w1
    People = {p1}
    Surroundings = {w1}
    Settle = 2
    MaxWait = 3
    CommittedSync = FALSE
    Failures = {"events", "cycle", "loop"}
    MaxFailures = 1
INVARIANTS RequestKept EnvironmentKept ChangeNoticed SettleMeansQuiet BoundedWait
PROPERTIES RequestsAnswered ChangesSeen
