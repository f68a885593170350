SPECIFICATION LiveSpec
CONSTANTS
    a = a
    b = b
    Outputs = {a, b}
    Crtcs = {1, 2, 3}
    Assignments <- MCAssignments
    Initially <- Both
    Resident = TRUE
    MaxFaults = 3
INVARIANTS LitOwned Compensated ShellAgrees
PROPERTIES RetrySucceeds
CHECK_DEADLOCK FALSE
