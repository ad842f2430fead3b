CONSTANTS
    text = text
    quote = quote
    image = image
    Messages <- Plain
    Images <- Nothing
    Quotes <- Nothing
    NoMessage = NoMessage
    NoDelivery = NoDelivery
    Empty = Empty
    UserDraft = UserDraft
    MaxDeliveries = 2
    MaxAttempts = 2
    VerifySends = TRUE
    StartupDiscards = {TRUE}
    TypesAfterSend = FALSE
    MovesAfterSend = TRUE
    RepeatsText = TRUE
    MaxPosts = 2
    MaxStarts = 1
SPECIFICATION SenderSpec
INVARIANTS
    AtMostOnce
CHECK_DEADLOCK FALSE
