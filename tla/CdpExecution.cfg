\* Two commands of one lane, two faults, three connections.
SPECIFICATION FairSpec
CONSTANTS
    N = 2
    MaxGenerations = 3
    Oversize = {2}
    MaxFaults = 2
    MaxQueue = 2
INVARIANTS
    RawResultMeansEffect
    EffectsInLaneOrder
    CommandsFollowInventory
    HumanAskedInDoubt
PROPERTIES
    NoEffectAfterTheEnd
    EveryCommandEnds
CHECK_DEADLOCK FALSE
