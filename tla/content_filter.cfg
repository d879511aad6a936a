SPECIFICATION Spec
CONSTANTS
    Values <- MCValues
    Constraints <- MCConstraints
    MaxBlacken = 4
    Dangerous = {"__proto__"}
    StackDepth = 8
INVARIANTS
    FailsClosed
PROPERTIES
    ActsAsDesignated
    ElementsIsolated
CHECK_DEADLOCK FALSE
