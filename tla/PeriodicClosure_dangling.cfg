\* The destructor against a Run thread whose wait may return spuriously
\* once: a registration after the destructor's last NotifyCondVar.
CONSTANTS
    Period = 2
    Waits = {1, 2}
    Advances = {1, 2}
    MaxAdvances = 3
    MaxSpurious = 1
SPECIFICATION Spec
INVARIANT NoDanglingEvent
