SPECIFICATION Spec
SYMMETRY AgentSymmetry
CHECK_DEADLOCK FALSE
CONSTANTS
    Agent = {a1, a2}
    Target = {t}
    Command = {read, write}
    Writes = {write}
    Repeatable = {read}
    None = None
    ErrorThreshold = 1
    MaxQueued = 1
    Unsteady = {}
    MaxEpoch = 2
    MaxGeneration = 0
    MaxToken = 2
    MaxRestarts = 0
INVARIANTS
    OneInFlight
    LeaseFollowsBinding
PROPERTIES
    DeliveredUnderLease
