\* Two commands of one tab, under faults, restarts and both pids.
SPECIFICATION FairSpec
CONSTANTS
    first = first
    second = second
    creation = creation
    confirm = confirm
    restart = restart
    tab = tab
    Request = {first, second}
    Lane = {tab}
    NoLane = NoLane
    NoRequest = NoRequest
    LaneOf <- MCLaneOf
    Target <- MCTarget
    RestartFailed <- MCRestartFailed
    Worker = {1, 2}
    MaxFaults = 1
    MaxRestarts = 2
INVARIANTS
    NoOvertaking
    EffectAfterDelivery
PROPERTIES
    DeliveredWorkEnds
CHECK_DEADLOCK FALSE
