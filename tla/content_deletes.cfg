SPECIFICATION Spec
CONSTANTS
    Values <- MCValues
    Constraints <- MCConstraints
    MaxBlacken = 4
    Dangerous = {"__proto__"}
    StackDepth = 8
PROPERTIES
    DeletesEveryPlace
CHECK_DEADLOCK FALSE
