CONSTANTS
    codex = codex
    claude = claude
    text = text
    quote = quote
    image = image
    Messages <- TextAndQuote
    Images <- Nothing
    Quotes <- Quoted
    NoMessage = NoMessage
    NoDelivery = NoDelivery
    Empty = Empty
    UserDraft = UserDraft
    MaxDeliveries = 2
    MaxAttempts = 2
    VerifySends = TRUE
    StartupDiscards = {TRUE}
    TypesAfterSend = FALSE
    MovesAfterSend = FALSE
    RepeatsText = FALSE
    MaxPosts = 2
    MaxStarts = 1
    Providers <- Agents
    DefaultProvider = codex
    BoundProvider = claude
    NoProvider = NoProvider
    Retain = 1
    RenamesSession = TRUE
    MaxRows = 3
    MaxNatives = 2
    MaxJobs = 2
    MaxRuns = 2
    MaxClears = 1
SPECIFICATION ConversationSpec
INVARIANTS
    ConversationTypeOK
    SentWasPosted
    ContextIsTrue
PROPERTIES
    CancelledNeverPosted
    ImplementsOutbox
    ToldExactlyOnce
CHECK_DEADLOCK FALSE
