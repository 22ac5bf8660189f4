SPECIFICATION Spec
CONSTANTS
    MAX_ROW = 2
    MAX_COLUMN = 3
    IndexSize = 3
    Letters = {"c"}
    Symbols = {}
    Shiftable = {}
    CKey = "c"
    MaxLine = 3
    MaxArrows = 1
    MaxCursorRow = 2
    MaxScroll = 1
    Pressed = {"c", "ctrl", "backspace", "enter", "left", "right"}
    MaxOutputColumn = 3
PROPERTY ListensWhenOn
