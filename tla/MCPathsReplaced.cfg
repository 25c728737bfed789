SPECIFICATION TreeSpec
CHECK_DEADLOCK FALSE
CONSTANTS
    top = top
    d1 = d1
    d2 = d2
    d3 = d3
    Up = Up
    None = None
    a = a
    b = b
PROPERTIES
    ReplacementKept
