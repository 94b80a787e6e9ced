CONSTANTS
    InputBuffers = 2
    OutputBuffers = {o1, o2, o3}
    SoftwareBuffer = SoftwareBuffer
    NULL = NULL
SPECIFICATION FairDecoderSpec
INVARIANTS NeverOlder
PROPERTIES ChannelSpec FairChannelSpec
