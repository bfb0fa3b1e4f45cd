SPECIFICATION Spec
CONSTANT MaxUses = 2
INVARIANT ServicesTornDown
CHECK_DEADLOCK FALSE
