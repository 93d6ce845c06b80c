SPECIFICATION ProgressSpec
CONSTANTS
    Components = {"library", "encode", "edge", "import", "grabber", "apply", "watch", "recover", "line", "grammar"}
    Unused = Unused
    Cases <- TameCases
    NoOne = NoOne
    NoConf = NoConf
    NoCopy = NoCopy
    NoMax = NoMax
    p1 = p1
    p2 = p2
    op1 = op1
    op2 = op2
PROPERTIES
    CommandsComplete
CHECK_DEADLOCK FALSE
