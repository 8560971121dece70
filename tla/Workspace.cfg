SPECIFICATION Spec
CONSTANTS
    Panes = {p, q, r, s}
    WindowIds = {1, 2, 3, 4, 5, 6}
    MaxWindows = 3
    MaxPanes = 2
    None = None
INVARIANTS OneOwner WindowLimit LastLives
PROPERTIES FocusKept LastIsElsewhere ClosesWhatWasAsked OwnersSpec
SYMMETRY PaneSymmetry
CHECK_DEADLOCK FALSE
