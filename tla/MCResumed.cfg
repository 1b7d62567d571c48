SPECIFICATION Spec
CONSTANTS
    MaxTries = 1
    MaxLength = 3
    MaxSeq = 5
    Mishaps = {}
INVARIANTS Follows
