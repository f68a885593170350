SPECIFICATION SleepLiveSpec
CONSTANTS
    Scanouts = {a, b}
    MaxCycles = 3
    MaxPending = 2
    MaxPresses = 1
    MaxLosses = 1
    MaxRefusals = 1
INVARIANTS SleepRestores NotStuck
PROPERTIES SleepHappens
