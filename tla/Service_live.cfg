SPECIFICATION FairSpec
CONSTANTS
    Services = {manager, s1, s2}
    Manager = manager
    None = none
PROPERTIES
    ActsAsFairTree
