SPECIFICATION Spec
CONSTANT MaxFaults = 3
INVARIANTS ReadyIsTrue QuietOrReported SiliconOrder
CHECK_DEADLOCK FALSE
