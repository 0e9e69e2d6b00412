\* Two commands of one tab and both kinds of resolver of the first.
SPECIFICATION Spec
CONSTANTS
    first = first
    second = second
    creation = creation
    confirm = confirm
    restart = restart
    tab = tab
    Request = {first, second, confirm, restart}
    Lane = {tab}
    NoLane = NoLane
    NoRequest = NoRequest
    LaneOf <- MCLaneOf
    Target <- MCTarget
    RestartFailed <- MCRestartFailed
    Worker = {1}
    MaxFaults = 1
    MaxRestarts = 0
INVARIANTS
    LaneHeadIsLeastOpen
    InvalidatedNeverDispatched
    ResolutionIsAtomic
PROPERTIES
    ImplementsTabLane
CHECK_DEADLOCK FALSE
