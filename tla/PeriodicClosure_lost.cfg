\* An AdvanceTime between WaitOnCondVar's registration and its wait().
CONSTANTS
    Period = 2
    Waits = {1, 2}
    Advances = {1, 2}
    MaxAdvances = 3
    MaxSpurious = 1
SPECIFICATION Spec
INVARIANT NoLostWakeup
