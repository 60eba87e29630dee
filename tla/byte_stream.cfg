SPECIFICATION Spec

CONSTANTS
    MaxSent = 3

INVARIANTS
    Faithful
    Prompt

CHECK_DEADLOCK FALSE
