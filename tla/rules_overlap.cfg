SPECIFICATION Spec
CONSTANTS
    Alphabet = {"a", "b"}
    MaxLen = 2
    Ids = {"r1", "r2"}
    Disjoint = FALSE
    None = None
INVARIANT SameAnswer
