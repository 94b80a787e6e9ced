CONSTANTS
    Widths = {8, 16}
    Heights = {2, 4, 6}
    RowPads = {0, 8}
SPECIFICATION Spec
INVARIANTS PaddedRowsConverted
