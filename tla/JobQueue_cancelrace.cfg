SPECIFICATION Spec
CONSTANTS
    a = a
    b = b
    c = c
    Jobs = {a}
    Clients = {c}
    MaxRetries <- NoneRetries
    Handled = {a}
    IndexMax = 1
    MaxStops = 0
    MaxFaults = 0
INVARIANT LiveIsCarried
CHECK_DEADLOCK FALSE
