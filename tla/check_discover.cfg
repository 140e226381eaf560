CONSTANTS
    NoPath = NoPath
    Paths <- MCPaths
    Parent <- MCParent
    Suffix <- MCSuffix
    Options <- MCOptions
    Trees <- MCTrees
    Excludable = {"a.o", "lib", "httpd"}
    Roots <- MCRoots
    MaxChanges = 1
SPECIFICATION FairSpec
CHECK_DEADLOCK FALSE
INVARIANTS
    ScanFaithful
    ScanExact
    SilenceMeansFound
PROPERTIES
    ScanEnds
