SPECIFICATION FrontSpec
CONSTANTS
    Inline <- MCInline
    Numeral <- MCNumeral
    Folded <- MCFolded
    Pieces <- MCPieces
    Unquoted <- MCUnquoted
    Dashed <- MCDashed
    Absolute = {}
    ConfigLines <- MCConfigLines
    ConfigDir <- MCConfigDir
    Kilo = 2
    SizeMax = 63
    UnsignedMax = 15
    HardwareJobs = 4
    Commands <- MCCommands
    PathOf <- MCPathOf
    SegmentsOf <- MCSegmentsOf
    SystemDirs <- MCSystemDirs
    SystemFragments = {}
    StbHeaders = {}
    ThirdPartySegments = {"_deps"}
    Aliases <- MCAliases
    Compdb <- MCCompdb
    Unsupported = {"n.txt"}
    Directories = {}
    TextOrder <- MCTextOrder
    Strip <- MCStrip
    ModuleOf <- MCModuleOf
    Classes <- MCClasses
    Unloadable = {"", "c1", "c2", "c3", "c4", "n.txt", "nowhere", "z.c"}
    Unwritable = {"ro"}
CHECK_DEADLOCK FALSE
INVARIANTS
    CliOverFileOverDefault
    LoadedIsRecorded
    PlanIsAsRequested
    FormatsAgree
    ListedMatchFilters
