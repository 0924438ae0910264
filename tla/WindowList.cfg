\* Windows made between frames and in the middle of one.
SPECIFICATION ListSpec
CONSTANTS
    MaxWindows = 3
    IdBase = 98
    IntMax = 9999
INVARIANTS ListKeepsWindows IndexIsPlace ClickReachesTopmost DrawsOpenWindows
PROPERTIES FrameEnds
