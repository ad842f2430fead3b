CONSTANTS
    sa = sa
    sb = sb
    NoItem = NoItem
    NoMsg = NoMsg
    MaxConcurrency = 1
    Items <- ThreeMsgs
    Sessions <- OneChat
    SessionOf <- OneChatOf
    Msgs <- ThreeMsgs
    ChatOf <- OneChatOf
    Kinds = {"text", "image", "context", "ask"}
    BatchWindow = TRUE
    AdapterFails = FALSE
    SendFails = TRUE
    Repeated = {}
    MaxReplies = 1
SPECIFICATION FairDispatcherSpec
INVARIANTS
    OrderKept
PROPERTIES
    EveryMessageSettles
CHECK_DEADLOCK FALSE
