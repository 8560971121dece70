SPECIFICATION FairSpec
CONSTANTS
    twin1 = twin1
    twin2 = twin2
    both1 = both1
    both2 = both2
    Nil = Nil
    Vanished = Vanished
    Scenes = {"endpoint", "saves", "hangup", "config", "exits"}
CONSTRAINT Bounded
PROPERTIES EventsAreNoticed NobodyIsKept
CHECK_DEADLOCK FALSE
