SPECIFICATION FairSpec
CONSTANTS
    Services = {manager, s1, s2, s3, s4}
    Manager = manager
    MaxFd = 20
INVARIANTS
    FdsExact
PROPERTIES
    AllLeave
