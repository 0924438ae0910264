\* Bytes at any time; the main loop is fair.
SPECIFICATION Spec
CONSTANTS
    Width = 3
    Height = 2
    Packets <- MCPackets
INVARIANTS AlignedUnlessDropped DrawnOnScreen PointerFollowsDevice
PROPERTIES PacketTaken
