CONSTANTS
    Widths = {8, 16, 24, 32}
    Heights = {2, 4, 6, 8}
    RowPads = {0}
    HIST_SIZE = 5
    DepthPixels = 5
    Lengths = {1, 5, 9, 12, 16, 31}
SPECIFICATION DrawingSpec
INVARIANTS FaithfulNV21 FaithfulDrawing NearerIsBrighter FillsOrFits
