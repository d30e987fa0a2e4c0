\* One Register, every store call may fail.  A re-registration by the
\* keepAlive loop whose Put fails is never retried.
CONSTANTS
    MaxLeases = 6
    MaxRegisterCalls = 1
    MaxFailures = 2
    MaxExpiries = 2
    RegistryConfigs <- MCRegistryConfigs
    FailingCalls <- MCAllCalls
    Main = Main
    None = None
SPECIFICATION Spec
PROPERTY RegistrationRecovers
CHECK_DEADLOCK FALSE
