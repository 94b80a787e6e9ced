CONSTANTS
    owner = owner
    worker = worker
    loop = loop
    NoCaller = NoCaller
    Callers <- MCCallers
    CaptureThread = loop
    Owner = owner
    CallerOps <- MCSharedOps
SPECIFICATION Spec
INVARIANTS NoCallAfterDestroy
