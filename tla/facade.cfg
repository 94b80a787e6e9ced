CONSTANTS
    owner = owner
    worker = worker
    loop = loop
    NoCaller = NoCaller
    Callers <- MCCallers
    CaptureThread = loop
    Owner = owner
    CallerOps <- MCDisciplinedOps
SPECIFICATION FairSpec
INVARIANTS NativeOnLiveObject NoCircularWait
PROPERTIES StopReturns
