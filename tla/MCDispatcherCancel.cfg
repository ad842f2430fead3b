CONSTANTS
    sa = sa
    sb = sb
    NoItem = NoItem
    NoMsg = NoMsg
    MaxConcurrency = 1
    Items <- ThreeMsgs
    Sessions <- OneChat
    SessionOf <- OneChatOf
    Msgs <- ThreeMsgs
    ChatOf <- OneChatOf
    Kinds = {"text", "ask", "cancel"}
    BatchWindow = TRUE
    AdapterFails = FALSE
    SendFails = FALSE
    Repeated = {}
    MaxReplies = 1
SPECIFICATION DispatcherSpec
PROPERTIES
    CancelStopsCurrent
CHECK_DEADLOCK FALSE
