SPECIFICATION Spec
CONSTANTS
    Conns = {c1, c2, c3}
    MaxSeq = 2
CHECK_DEADLOCK FALSE
INVARIANTS
    OpenAreServed
