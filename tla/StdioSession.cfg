SPECIFICATION Spec
CONSTANTS
    readme = readme
    readmetxt = readmetxt
    index = index
    notes = notes
    aboutdir = aboutdir
    indexlink = indexlink
    Root = "."
    Dirs <- MCDirs
    Files <- MCFiles
    Links = {indexlink}
    Above <- MCAbove
    DotPaths = {}
    StemRank <- MCStemRank
    NameRank <- MCNameRank
    MaxWellKnown = 2
    DescriptionWindow = 3
    SniffWindow = 2
    PreviewBytes = 5
    PreviewLines = 2
    MaxBytes = 9
    Sections = {"prose", "long", "bytes", "late", "configured"}
    NoProse = "none"
    Workspaces <- MCWorkspaces
    Trees <- MCTrees
    Texts <- MCTexts
    Ignores <- MCIgnores
    Kinds = {"initialize", "workspace_info", "notifications/initialized", "blank"}
    InCap = 1
    OutCap = 1
    MaxLines = 2
    MaxEdits = 1
CHECK_DEADLOCK FALSE
INVARIANTS
    TypeOK
    AnswersInOrder
    InfoTellsWhatIsThere
    InfoMirrorsInstructions
PROPERTIES
    EveryRequestIsAnswered
