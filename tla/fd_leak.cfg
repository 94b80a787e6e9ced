CONSTANTS
    MAX_BUFFER_COUNT = 2
    Callbacks = {cb1}
    NoCallback = NoCallback
    Faults = {}
    ClientRules = {"StopsBeforeDestroy", "KeepsCallback"}
SPECIFICATION Spec
INVARIANTS DescriptorClosed
