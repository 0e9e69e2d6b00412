\* A command whose effect is in doubt is sent again.
SPECIFICATION Spec
CONSTANTS
    N = 1
    MaxGenerations = 3
    Oversize = {}
    MaxFaults = 3
    MaxQueue = 2
INVARIANTS
    NoReplay
CHECK_DEADLOCK FALSE
