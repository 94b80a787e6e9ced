CONSTANTS
    Textures = {t1, t2, t3, t4}
    NULL = NULL
SPECIFICATION FairRenderSpec
INVARIANTS DrawsLiveTexture ClientIsServed ToldIsDrawn
PROPERTIES UiReturns
