SPECIFICATION Spec
CONSTANTS
    HttpBuffer = 6
    HttpBytes = 6
    HttpLengths = {0, 1}
    PathLength = 5
    HeadLines = 4
    HeadRoom = 3
    FcgiHeader = 2
    FcgiBuffer = 3
    FcgiScripts <- MCFcgiScripts
    FcgiMax = 2
    FcgiOutput <- MCFcgiOutput
    PacketHeader = 2
    PacketBuffer = 7
    PacketSizes = {0, 2, 3, 8}
    PacketBody = 3
    VarsBuffer = 12
    VecSize = 12
    VarsBody = 2
    AppsCores = {0, 1}
    AppsMounts = {"", "a"}
    AppsMax = 3
    StaticRanges <- MCStaticRanges
    StaticChanges = 1
    MainTables <- MCMain
    ErrorTables <- MCErr
    ResponseTables <- MCResp
    FinalTables <- MCFin
    TextLength = 5
    WordBits = 2
    FieldPaths <- MCFieldPaths
    FieldMounts <- MCFieldMounts
    FieldRoom = 2
    WsFrames <- MCWsFrames
    WsInline = 2
    WsShort = 3
    WsLimit = 3
    WsMany = 3
    WsPiece = 1
    WsConns = 2
    WsFreq = 1
    WsTolerance = 1
    OffRequest <- MCOffRequest
    OffClient <- MCOffClient
    OffBackend <- MCOffBackend
    OffBuf = 3
    RpcWorkers = 2
    RpcNames = {"f", "g", "h"}
    RpcMax = 2
    RpcRegistrations = 3
    RpcDeaths = 1
    RpcRequests = {2, 3, 4}
    RpcPacketMax = 3
    RpcAnswers <- MCRpcAnswers
INVARIANTS HeadExact PacketsExact AppsSound  RoutesSound StreamsSound
