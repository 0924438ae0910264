\* Four columns of which the prompt takes two, rows 0 to 2 whole on the canvas,
\* and a line that can be overrun.
SPECIFICATION LineSpec
CONSTANTS
    CanvasWidth = 40
    CanvasHeight = 56
    MaxCharacters = 4
    Keys = {"e", "c", "w"}
    LineBound = 5
    RowBound = 6
INVARIANTS ScreenShowsLine
