CONSTANTS
    image = image
    Messages <- Pictures
    Images <- Pictures
    Quotes <- Nothing
    NoMessage = NoMessage
    NoDelivery = NoDelivery
    Empty = Empty
    UserDraft = UserDraft
    MaxDeliveries = 2
    MaxAttempts = 2
    VerifySends = TRUE
    StartupDiscards = {TRUE, FALSE}
    TypesAfterSend = FALSE
    MovesAfterSend = FALSE
    RepeatsText = TRUE
    MaxPosts = 2
    MaxStarts = 2
    Processes = {p1, p2}
    Outside = {p2}
    MaxClicks = 3
SPECIFICATION RestartsSpec
INVARIANTS
    PendingIsShown
PROPERTIES
    NeverRepeated
    OneProcess
CHECK_DEADLOCK FALSE
