CONSTANTS
    Byte = {1, 2}
    IOB_CAP = 4
    MaxChunk = 3
    AddBehind = FALSE
    Item = {a, b}
    NoItem = NoItem
    MaxNodes = 4
    CbByte = {1, 2}
    CB_MIN = 1
    CB_MAX = 3
    MaxAppend = 2
    CHAIN_CAP = 2
    CHAIN_SLACK = 1
    ChainByte = {1, 2}
    MaxPiece = 2
    MaxBody = 2
    MaxHdr = 3
    MaxSent = 2
    MaxHeaders = 1
    UF_WIDTH = 8
    PORT_MAX = 5
    MaxUrl = 9
    MaxField = 2
    MaxHost = 4
    UrlChar = {"a", "1", ":", "/", "?", "@", "[", "]", "%"}
    PathChar = {"a", "/", "?", "#"}
    MaxFd = 3
    RCVBUF = 2
    SockPort = {1}
    MaxBytes = 4
    Tried = {"sync socket"}
SPECIFICATION StructSpec
INVARIANT ParsingContinues
CHECK_DEADLOCK FALSE
