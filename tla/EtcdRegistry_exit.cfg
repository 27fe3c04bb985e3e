SPECIFICATION RegistrySpec
CONSTANT MaxFaults = 1
INVARIANT DeregistersBeforeReturning
CHECK_DEADLOCK FALSE
