SPECIFICATION Spec
CONSTANTS
    Heights = {6}
    Widths = {7, 9}
    MaxPanes = 3
    Ids = {p, q, r}
    Cells = {1}
    None = None
INVARIANTS Tiling SizesFollow
PROPERTIES ContentKept ListedSpec
SYMMETRY IdSymmetry
CHECK_DEADLOCK FALSE
