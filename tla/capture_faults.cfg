CONSTANTS
    MAX_BUFFER_COUNT = 2
    Callbacks = {cb1, cb2}
    NoCallback = NoCallback
    Faults = {"mmap", "qbuf", "streamon", "pthread", "dqbuf", "requeue", "unplug", "streamoff"}
    ClientRules = {"StopsBeforeDestroy", "KeepsCallback"}
SPECIFICATION FairSpec
INVARIANTS CaptureInv LoopMemorySafe SlotHasOneOwner
PROPERTIES FrameTargetsStable ExitedThreadIsJoined SessionSpec FairSessionSpec
