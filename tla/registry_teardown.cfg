\* One Register, no store errors: after Unregister returns, is the record
\* gone from the store?
CONSTANTS
    MaxLeases = 4
    MaxRegisterCalls = 1
    MaxFailures = 0
    MaxExpiries = 1
    RegistryConfigs <- MCRegistryConfigs
    FailingCalls <- MCAllCalls
    Main = Main
    None = None
SPECIFICATION Spec
INVARIANT CleanTeardown
CHECK_DEADLOCK FALSE
