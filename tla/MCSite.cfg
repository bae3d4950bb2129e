SPECIFICATION FairSpec
CONSTANTS
    Versions <- MCVersions
    Pages <- MCPages
    Dirs <- MCDirs
    Hosts <- MCHosts
    Paths <- MCPaths
    PageOf <- MCPageOf
    Redirects <- MCRedirects
    Tree <- MCTree
    MaxDeploys = 1
INVARIANTS
    TypeOK
    AnswersOfAMoment
    DeployedRuns
PROPERTIES
    BackUp
