\* A tab creation beside a command: retries, fences and a restart.
SPECIFICATION Spec
CONSTANTS
    first = first
    second = second
    creation = creation
    confirm = confirm
    restart = restart
    tab = tab
    Request = {first, creation}
    Lane = {tab}
    NoLane = NoLane
    NoRequest = NoRequest
    LaneOf <- MCLaneOf
    Target <- MCTarget
    RestartFailed <- MCRestartFailed
    Worker = {1, 2}
    MaxFaults = 2
    MaxRestarts = 1
INVARIANTS
    WorkerOwnsItsTicket
PROPERTIES
    TerminalIsFinal
CHECK_DEADLOCK FALSE
