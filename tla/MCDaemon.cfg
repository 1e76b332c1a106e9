CONSTANTS
    c1 = c1
    c2 = c2
    Clients = {c1, c2}
    MaxOutside = 3
    Usize = 4
SPECIFICATION Spec
INVARIANTS SessionsCounted HomeOnce
PROPERTY PromptReached
CHECK_DEADLOCK FALSE
