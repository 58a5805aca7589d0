SPECIFICATION Spec
CONSTANTS
    c1 = c1
    c2 = c2
    Callers = {c1, c2}
    Background = {b1, b2}
    Does <- MCDoes
    NoThread = NoThread
    MaxSwitches = 3
    MaxLogins = 2
    MaxEarly = 1
    MaxCommands = 2
    Faults = {"open", "reply", "request", "spawn"}
INVARIANTS
    StatusIsTrue
    AttemptIsUnderWay
    AccountInv
    PublishedAtRest
SYMMETRY Interchangeable
