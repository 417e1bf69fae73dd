\* Three servers for two positions (one becomes a backup) under a
\* one-component path.  One ZooKeeper call may fail, and each call gets
\* one retry (the code passes 3), so retries happen and an Init that fails
\* is restarted; one server crashes.
CONSTANTS
    s1 = s1
    s2 = s2
    s3 = s3
    Servers <- MCServers
    NumPositions = 2
    PathDepth = 1
    MaxRetries = 1
    MaxErrors = 1
    MaxCrashes = 1
SPECIFICATION Spec
INVARIANT TypeOK
INVARIANT NoStaleAdoption
PROPERTY PositionsDecided
