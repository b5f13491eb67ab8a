SPECIFICATION Spec
CONSTANT RingSize = 4
INVARIANT PacketsAreRead
CHECK_DEADLOCK FALSE
