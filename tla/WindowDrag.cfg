\* One window on a screen of 620 by 600 pixels.
SPECIFICATION Spec
CONSTANTS
    Width = 620
    Height = 600
    Strides <- MCStrides
    Size <- MCSize
    Start <- MCStart
    MouseXs <- MCMouseXs
    MouseYs <- MCMouseYs
INVARIANTS PaintStaysOnScreen BlocksExact
PROPERTIES HeldWindowFollows
