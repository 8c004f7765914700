CONSTANTS
    Tree <- MCTree
    Cwd <- MCCwd
    SessionTemp <- Session
    SlashTmp <- Tmp
    SocketDir <- Net
    WorkerBinary <- MCBinary
    Metadata <- MCMetadata
    DotGit = ".git"
    DotCodex = ".codex"
    Gitdir <- MCGitdir
    PlatformRoots <- MCPlatform
    EmptySources <- MCEmptySources
    GlobName = "k"
    Plans <- MCPlans
    Metas <- MCMetas
    Hosts <- MCHosts
SPECIFICATION Spec
INVARIANTS
    PlanConfines
    PlanGrants
    TargetsReady
    ProfileHonoured
CHECK_DEADLOCK FALSE
