SPECIFICATION Spec
CONSTANTS
    b1 = b1
    b2 = b2
    c1 = c1
    c2 = c2
    p1 = p1
    p2 = p2
    None = None
    Bridges = {b1, b2}
    Processes = {p1, p2}
    Calls = {c1, c2}
    Setups <- MCSetups
    MaxLoads = 1
INVARIANTS HonestCertainty AnswersAreOwn
PROPERTIES EveryCallReturns
CHECK_DEADLOCK FALSE
