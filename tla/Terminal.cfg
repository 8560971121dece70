SPECIFICATION Spec
CONSTANTS
    twin1 = twin1
    twin2 = twin2
    both1 = both1
    both2 = both2
    Nil = Nil
    Vanished = Vanished
    Scenes = {"screen", "parser", "modes", "store", "framing", "upload", "overlay", "config", "output", "prompt", "process", "frame", "panes", "chrome", "clipboard", "transfer", "transfers", "history"}
SYMMETRY Symmetry
CONSTRAINT Bounded
INVARIANTS StreamIsRead RelaysAreWhole
PROPERTIES TextIsKept PicturesAreTrue FramesAreTrue PanesAndFilesAreTrue HistoryIsTrue
CHECK_DEADLOCK FALSE
