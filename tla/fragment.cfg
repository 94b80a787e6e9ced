CONSTANTS
    MAX_BUFFER_COUNT = 2
    Callbacks = {cb1, cb2}
    NoCallback = NoCallback
    Faults = {"mmap", "pthread", "dqbuf", "unplug", "streamoff"}
    ClientRules = {}
SPECIFICATION FairFragmentSpec
INVARIANTS DrawsOnlyOnSurface
PROPERTIES OpenedMeansCapturing MainThreadReturns RuledCameraSpec
