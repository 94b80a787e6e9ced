CONSTANTS
    Faders = {f1, f2}
    NoThread = NoThread
    FOCUS_SHOW_TIME = 1
    LATEST = 2
    PreviewSizes <- MCPreviewSizes
    ViewSizes <- MCViewSizes
    TapSlop = 32
SPECIFICATION FairCamera2Spec
INVARIANTS OneFader DeviceIsOwned OpenedIsTrue SettingsAreRepeated NoFrameAfterFailure
PROPERTIES TouchesAreSafe UsedPreviewSurvives ReaderIsEmptied OpenIsAnswered FrameFades
