SPECIFICATION BootSpec
INVARIANT KeysHaveAnEndpoint
CHECK_DEADLOCK FALSE
