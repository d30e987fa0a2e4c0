SPECIFICATION Spec
CONSTANTS
    h1 = h1
    h2 = h2
    h3 = h3
    Handlers <- MCHandlers
    Pages = {1, 2}
    UseQuery = TRUE
    Overlap = TRUE
INVARIANT ValidAcceptsUser
CHECK_DEADLOCK FALSE
