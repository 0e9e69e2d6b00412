\* A stop and a termination of one workspace, with an outage or a restart.
SPECIFICATION FairSpec
CONSTANTS
    MaxRequests = 2
    Tools = {"stop", "termination"}
    Workspace = {w}
    w = w
    NoWorkspace = NoWorkspace
    Session = {s1}
    s1 = s1
    NoSession = NoSession
    FirstOwner = s1
    MaxOutages = 1
PROPERTIES
    PausesKeepNoTermination
CHECK_DEADLOCK FALSE
