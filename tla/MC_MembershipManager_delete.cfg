\* Two servers for two positions; one of them crashes after taking a
\* position and is restarted while its old node is still there.
CONSTANTS
    s1 = s1
    s2 = s2
    s3 = s3
    Servers <- MCServers
    NumPositions = 2
    PathDepth = 1
    MaxRetries = 1
    MaxErrors = 0
    MaxCrashes = 1
SPECIFICATION Spec
INVARIANT PositionHeldExclusively
