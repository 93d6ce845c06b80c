SPECIFICATION CommandsSpec
CONSTANTS
    Components = {"migrate", "open", "calls", "planner", "show", "movie", "encode", "pack", "locked", "import", "inbox", "watch", "pull", "reindex", "upkeep", "roots", "progress", "config", "civil", "grammar"}
    Unused = Unused
    Cases <- GrammarCases
    NoOne = NoOne
    NoConf = NoConf
    NoCopy = NoCopy
    NoMax = NoMax
    p1 = p1
    p2 = p2
    op1 = op1
    op2 = op2
SYMMETRY Symmetry
INVARIANTS
    PlansAreFair
PROPERTIES
    IndexIsTrue
    CopiesAreKept
    LibraryIsGuarded
    OperatorIsObeyed
CHECK_DEADLOCK FALSE
