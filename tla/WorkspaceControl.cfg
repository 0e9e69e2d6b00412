\* One workspace, two sessions and three tickets of any kind.
SPECIFICATION FairSpec
CONSTANTS
    MaxRequests = 3
    Tools = {"command", "creation", "takeover", "termination", "stop", "resume", "kill", "endpoint_resume"}
    Workspace = {w}
    w = w
    NoWorkspace = NoWorkspace
    Session = {s1, s2}
    s1 = s1
    s2 = s2
    NoSession = NoSession
    FirstOwner = s1
    MaxOutages = 1
INVARIANTS
    AuthorityFollowsOwner
    EndedByItsOwner
    PausedWorkHasCause
    EndpointControlsExclusive
    ArchivingIsQuiet
PROPERTIES
    TerminationsEnd
CHECK_DEADLOCK FALSE
