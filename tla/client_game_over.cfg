SPECIFICATION ClientSpec
CONSTANTS
 Rounds = 1
 MaxSubmits = 1
 MaxLosses = 0
CHECK_DEADLOCK FALSE
INVARIANT EndIsShown
