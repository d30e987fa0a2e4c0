\* Two gateway stacks; IP and client lists of up to two of the strings 1 and 2, in any order; one
\* resource and every URI of up to two characters.
SPECIFICATION Spec
CONSTANTS
    MaxValue = 2
    MaxListLen = 2
    Stacks <- MCStacks
    Alphabet = {"a", "b"}
    MaxLen = 2
    Ids = {"r1"}
    Resources <- MCResources
    RequestURIs <- MCRequestURIs
    UserName = "u1"
    None = None
INVARIANT ChainDecides
