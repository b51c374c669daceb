SPECIFICATION Spec
CONSTANT Codes <- Long
INVARIANT SwitchFallsThrough
CHECK_DEADLOCK FALSE
