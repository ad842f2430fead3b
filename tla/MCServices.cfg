CONSTANTS
    image = image
    reply = reply
    Endpoints <- OneEndpoint
    Events <- TwoEvents
    Images <- OnlyImage
    AiReplies <- OnlyReply
    WithUpload <- OneEndpoint
    WithAi <- NoEndpoint
    QueueLimit = 1
    SeenLimit = 1
    MaxAttempts = 2
    MaxReports = 3
    MaxStarts = 2
    NoEvent = NoEvent
    Wake = Wake
    Blocks = 3
    PartBlocks = 2
    MaxChanges = 2
    Processes = {p1, p2}
    LastPlace = 2
    MaxWindows = 2
    MaxMisses = 1
    MaxHands = 3
SPECIFICATION ServicesSpec
INVARIANTS
    ServicesTypeOK
    ForwardedOnce
    OneVersion
    OneWorks
    LeavesInOrder
PROPERTIES
    WorkEnds
    StopsWhenAsked
    ComesBack
CHECK_DEADLOCK FALSE
