CONSTANTS
    MAX_BUFFER_COUNT = 4
    Callbacks = {cb1, cb2}
    NoCallback = NoCallback
    Faults = {"pthread", "select", "unplug"}
    ClientRules = {"StopsBeforeDestroy", "KeepsCallback"}
SPECIFICATION LiveSpec
INVARIANTS NoSlotLost IdleWhenNotRunning PreviewAndSlotsReleased RendererMatchesFrame
PROPERTIES PreviewNeverStalls
