CONSTANTS
    Page = 1
    Limits = {1, 3}
    MaxOld = 2
    MaxMessages = 3
    MaxVisible = 2
    MaxChanges = 2
    MaxReplies = 2
    MaxParts = 2
    MaxDeliveries = 2
    MaxCardClears = 1
    Names = 2
    MaxInputs = 2
    LineSizes = {0, 2, 6, 8}
    FenceSizes = {3}
    MaxLines = 3
    Directives <- ImageDirectives
    MaxImages = 3
    NoticeSize = 4
    ReplyLimit = 6
SPECIFICATION RecordsSpec
INVARIANTS
    RecordsTypeOK
    PagesAreTrue
    CardsAreTrue
    PostsThePayload
    ReplyKept
PROPERTIES
    UserTextKept
CONSTRAINT NotMistaken
CHECK_DEADLOCK FALSE
