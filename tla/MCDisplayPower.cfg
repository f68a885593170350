SPECIFICATION LiveSpec
CONSTANTS
    Panel = panel
    Outputs = {panel, desk}
    Machines <- MCMachines
    LockAfterDpms = 1
    MaxAge = 2
INVARIANTS UserOffStays DarkWakes SuspendSafe
PROPERTIES DeadlineExact DarkLocks
