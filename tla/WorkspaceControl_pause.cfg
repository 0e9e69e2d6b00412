\* A stop and ordinary work of one workspace.
SPECIFICATION Spec
CONSTANTS
    MaxRequests = 2
    Tools = {"command", "creation", "stop"}
    Workspace = {w}
    w = w
    NoWorkspace = NoWorkspace
    Session = {s1}
    s1 = s1
    NoSession = NoSession
    FirstOwner = s1
    MaxOutages = 0
PROPERTIES
    PauseBlocksDispatch
CHECK_DEADLOCK FALSE
