\* launchd's process and one started by hand over one repository and over two, an edited configuration, a client, and two faults of any kind
SPECIFICATION LiveSpec
CONSTANTS
    a = a
    m = m
    r1 = r1
    r2 = r2
    None = None
    Partial = Partial
    Agent = a
    Manual = {m}
    Repos = {r1, r2}
    Contents = {{r1}, {r1, r2}}
    Requests = {{}, {r1, r2}}
    Failures = {"crash", "load", "save", "loop", "bind", "accept"}
    MaxDisturbances = 2
INVARIANTS OneDaemon FileCurrent
PROPERTIES FileIsDisplay SocketStays RequestsWhole ShutdownEnds SyncingClears ReloadApplied
