CONSTANTS
    sa = sa
    sb = sb
    NoItem = NoItem
    NoMsg = NoMsg
    MaxConcurrency = 1
    Items <- FourJobs
    Sessions <- TwoChats
    SessionOf <- FourJobsOf
    Msgs <- ThreeMsgs
    ChatOf <- TwoChatsOf
    Kinds = {"text", "cancel"}
    BatchWindow = FALSE
    AdapterFails = TRUE
    SendFails = TRUE
    Repeated = {3}
    MaxReplies = 2
    Members = {"m"}
    Replies = {1, 2}
    Texts = {"t", "w"}
    WordTexts = {"w"}
    Captions = {"t"}
    ChatKinds = {"group", "friend", "filehelper"}
SPECIFICATION ChatsSpec
INVARIANTS
    OneJobPerMessage
    NoGhostJob
    PanelIsTrue
    AuthorsAreKnown
    RepliesAreKnown
PROPERTIES
    NoLateReply
    QueueContract
CHECK_DEADLOCK FALSE
