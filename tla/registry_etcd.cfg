\* ETCDRegistry with one Register call.  Every subset of the store calls
\* may fail (the subset is picked at start), within three errors and three
\* lease expiries: the safety invariants, the refinement of the abstract
\* lifecycle, and the liveness of recovery (when Put does not fail),
\* shutdown and record removal.
CONSTANTS
    MaxLeases = 8
    MaxRegisterCalls = 1
    MaxFailures = 3
    MaxExpiries = 3
    RegistryConfigs <- MCRegistryConfigs
    FailingCalls <- MCAllCalls
    Main = Main
    None = None
SPECIFICATION Spec
INVARIANT RecordBoundToCurrentLease
PROPERTY NoResurrection
PROPERTY ImplementsLifecycle
PROPERTY RecoversUnlessPutFails
PROPERTY ShutdownCompletes
PROPERTY RecordGoneAfterExit
CHECK_DEADLOCK FALSE
