SPECIFICATION Spec
CHECK_DEADLOCK FALSE
CONSTANTS
    Agent = {a1}
    Target = {t}
    Command = {safe, risky}
    Writes = {}
    Repeatable = {safe}
    None = None
    ErrorThreshold = 1
    MaxQueued = 1
    Unsteady = {t}
    MaxEpoch = 1
    MaxGeneration = 1
    MaxToken = 0
    MaxRestarts = 1
INVARIANTS
    NeverRepeated
PROPERTIES
    FinalStaysFinal
    UnregisteredByItself
    WorkMoves
